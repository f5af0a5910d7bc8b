--------------------------- MODULE RingReduce_proofs ---------------------------
(***************************************************************************)
(* The formation of clusters and rings, and the averaging among them, for  *)
(* every number of providers, memories, parameters and rounds.  First the  *)
(* pure functions: submodels, sorted clusters, rings, fitness and quotas;  *)
(* then FormationInv, the invariant of the formation.  What it says of the *)
(* rings (Rings) is all that the averaging needs.  RingInv, the invariant  *)
(* of the averaging, says how far neighbours may be apart, what a buffer   *)
(* holds and what a chunk is worth.                                        *)
(***************************************************************************)
EXTENDS RingReduce, Sums_proofs

LEMMA ParamsType == /\ Params \in Nat \ {0} /\ MaxClusters \in Nat \ {0} /\ ModelSize \in Nat \ {0}
                    /\ WorstFitness \in Nat \ {0}
                    /\ Models \subseteq [Keys -> Nat \ {0}]
BY FormationAssumption DEF Keys

-----------------------------------------------------------------------------
(* Where the submodels end. *)

Scans == [size : Nat, ends : Seq(Nat)]

(* One parameter in _split_on_size_thresholds_with_max_stages. *)
ScanStep(sizes, tenths, k, before) ==
  LET threshold(i) == (tenths[Min({i, Len(tenths)})] * SumOver(sizes, Keys)) \div 10
      fits == before.size + sizes[k] <= threshold(Len(before.ends) + 1)
  IN IF fits THEN [before EXCEPT !.size = @ + sizes[k]]
     ELSE IF before.size = 0 THEN [before EXCEPT !.ends = Append(@, k)]
     ELSE [size |-> sizes[k], ends |-> Append(before.ends, k - 1)]

IsScan(sizes, tenths, scan) ==
  scan = [k \in 0..Params |-> IF k = 0 THEN [size |-> 0, ends |-> <<>>]
                              ELSE ScanStep(sizes, tenths, k, scan[k - 1])]

(* What is known after k parameters: the submodels ended so far end at     *)
(* different parameters, in their order, and an unfinished one has one.    *)
ScanInv(k, b) ==
  /\ b \in Scans
  /\ b.size # 0 => k >= 1
  /\ \A i \in DOMAIN b.ends : b.ends[i] \in 1..k /\ (b.size # 0 => b.ends[i] < k)
  /\ \A i, j \in DOMAIN b.ends : i < j => b.ends[i] < b.ends[j]

LEMMA ScanStepCases ==
  ASSUME NEW sizes \in [Keys -> Nat \ {0}], NEW tenths, NEW k \in Keys, NEW b \in Scans
  PROVE  \/ ScanStep(sizes, tenths, k, b) = [size |-> b.size + sizes[k], ends |-> b.ends]
         \/ b.size = 0 /\ ScanStep(sizes, tenths, k, b) = [size |-> 0, ends |-> Append(b.ends, k)]
         \/ b.size # 0 /\ ScanStep(sizes, tenths, k, b) = [size |-> sizes[k], ends |-> Append(b.ends, k - 1)]
<1> DEFINE limit == (tenths[Min({Len(b.ends) + 1, Len(tenths)})] * SumOver(sizes, Keys)) \div 10
<1>1. ScanStep(sizes, tenths, k, b) =
        IF b.size + sizes[k] <= limit THEN [b EXCEPT !.size = @ + sizes[k]]
        ELSE IF b.size = 0 THEN [b EXCEPT !.ends = Append(@, k)]
        ELSE [size |-> sizes[k], ends |-> Append(b.ends, k - 1)]
  BY DEF ScanStep
<1> HIDE DEF limit
<1>2. b = [size |-> b.size, ends |-> b.ends]
  BY DEF Scans
<1> QED BY <1>1, <1>2 DEF Scans

LEMMA ScanStepType ==
  ASSUME NEW sizes \in [Keys -> Nat \ {0}], NEW tenths, NEW k \in Keys, NEW b \in Scans
  PROVE  ScanStep(sizes, tenths, k, b) \in Scans
<1>1. sizes[k] \in Nat \ {0} /\ k \in Nat /\ k - 1 \in Nat /\ b.size \in Nat /\ b.ends \in Seq(Nat)
  BY ParamsType DEF Keys, Scans
<1>2. b.size + sizes[k] \in Nat /\ Append(b.ends, k) \in Seq(Nat) /\ Append(b.ends, k - 1) \in Seq(Nat)
  BY <1>1
<1>3. /\ [size |-> b.size + sizes[k], ends |-> b.ends] \in Scans
      /\ [size |-> 0, ends |-> Append(b.ends, k)] \in Scans
      /\ [size |-> sizes[k], ends |-> Append(b.ends, k - 1)] \in Scans
  BY <1>1, <1>2 DEF Scans
<1> QED BY <1>3, ScanStepCases

LEMMA ScanExists ==
  ASSUME NEW sizes \in [Keys -> Nat \ {0}], NEW tenths
  PROVE  \E scan : IsScan(sizes, tenths, scan)
<1> DEFINE first == [size |-> 0, ends |-> <<>>]
           s == [x \in (1..Params) \X Scans |-> ScanStep(sizes, tenths, x[1], x[2])]
<1>1. Params \in Nat /\ first \in Scans
  BY ParamsType DEF Scans
<1>2. s \in [(1..Params) \X Scans -> Scans]
  BY ScanStepType DEF Keys
<1>3. PICK f : /\ f \in [0..Params -> Scans] /\ f[0] = first
               /\ \A k \in 1..Params : f[k] = s[<<k, f[k - 1]>>]
  <2> HIDE DEF s, first
  <2>1. \E f : Recurs(f, Params, Scans, first, s)
    BY <1>1, <1>2, Recursion
  <2> QED BY <2>1 DEF Recurs
<1>4. ASSUME NEW k \in 0..Params
      PROVE  f[k] = IF k = 0 THEN [size |-> 0, ends |-> <<>>] ELSE ScanStep(sizes, tenths, k, f[k - 1])
  <2>1. CASE k = 0
    BY <1>3, <2>1
  <2>2. CASE k # 0
    <3>1. k \in 1..Params /\ k - 1 \in 0..Params
      BY <1>1, <2>2
    <3>2. f[k - 1] \in Scans
      BY <1>3, <3>1
    <3> QED BY <1>3, <2>2, <3>1, <3>2
  <2> QED BY <2>1, <2>2
<1>5. IsScan(sizes, tenths, f)
  BY <1>3, <1>4 DEF IsScan
<1> QED BY <1>5

LEMMA EndsOfScan ==
  ASSUME NEW sizes \in [Keys -> Nat \ {0}], NEW tenths
  PROVE  \E scan : IsScan(sizes, tenths, scan) /\ Ends(sizes, tenths) = scan[Params].ends
<1>1. PICK f : IsScan(sizes, tenths, f)
  BY ScanExists
<1>2. \E g : /\ Ends(sizes, tenths) = g[Params].ends
             /\ g = [k \in 0..Params |-> IF k = 0 THEN [size |-> 0, ends |-> <<>>]
                                         ELSE ScanStep(sizes, tenths, k, g[k - 1])]
  BY <1>1 DEF Ends, ScanStep, IsScan
<1> QED BY <1>2 DEF IsScan

LEMMA ScanKeeps ==
  ASSUME NEW sizes \in [Keys -> Nat \ {0}], NEW tenths, NEW k \in Keys, NEW b, ScanInv(k - 1, b)
  PROVE  ScanInv(k, ScanStep(sizes, tenths, k, b))
<1> DEFINE c == ScanStep(sizes, tenths, k, b)
<1>1. sizes[k] \in Nat \ {0} /\ k \in Nat \ {0} /\ k - 1 \in Nat /\ b \in Scans /\ b.size \in Nat /\ b.ends \in Seq(Nat)
  BY ParamsType DEF Keys, Scans, ScanInv
<1>2. c \in Scans
  BY <1>1, ScanStepType
<1>3. \/ c = [size |-> b.size + sizes[k], ends |-> b.ends]
      \/ b.size = 0 /\ c = [size |-> 0, ends |-> Append(b.ends, k)]
      \/ b.size # 0 /\ c = [size |-> sizes[k], ends |-> Append(b.ends, k - 1)]
  BY <1>1, ScanStepCases
<1> SUFFICES ScanInv(k, c)
  OBVIOUS
<1> HIDE DEF c
<1>4. /\ \A i \in DOMAIN b.ends : b.ends[i] \in 1..(k - 1) /\ (b.size # 0 => b.ends[i] < k - 1)
      /\ \A i, j \in DOMAIN b.ends : i < j => b.ends[i] < b.ends[j]
      /\ b.size # 0 => k - 1 >= 1
  BY DEF ScanInv
<1>5. CASE c = [size |-> b.size + sizes[k], ends |-> b.ends]
  <2>1. c.size = b.size + sizes[k] /\ c.ends = b.ends
    BY <1>5
  <2>2. \A i \in DOMAIN b.ends : b.ends[i] \in 1..k /\ b.ends[i] < k
    BY <1>1, <1>4
  <2> QED BY <1>1, <1>2, <1>4, <2>1, <2>2 DEF ScanInv
<1>6. ASSUME NEW e \in 1..k, NEW z \in Nat, c = [size |-> z, ends |-> Append(b.ends, e)],
             \A i \in DOMAIN b.ends : b.ends[i] < e, z # 0 => e < k
      PROVE  ScanInv(k, c)
  <2> DEFINE d == Append(b.ends, e)
  <2>1. c.size = z /\ c.ends = d
    BY <1>6
  <2>2. /\ Len(b.ends) \in Nat /\ DOMAIN b.ends = 1..Len(b.ends) /\ DOMAIN d = 1..(Len(b.ends) + 1)
        /\ d[Len(b.ends) + 1] = e
        /\ \A i \in DOMAIN b.ends : d[i] = b.ends[i]
    BY <1>1, <1>6
  <2> HIDE DEF d
  <2>3. \A i \in DOMAIN d : i \in DOMAIN b.ends \/ i = Len(b.ends) + 1
    BY <2>2
  <2>4. \A i \in DOMAIN d : d[i] \in 1..k /\ (z # 0 => d[i] < k)
    <3> TAKE i \in DOMAIN d
    <3>1. CASE i = Len(b.ends) + 1
      BY <1>6, <2>2, <3>1
    <3>2. CASE i \in DOMAIN b.ends
      <4>1. d[i] \in 1..(k - 1)
        BY <1>4, <2>2, <3>2
      <4> QED BY <1>1, <4>1
    <3> QED BY <2>3, <3>1, <3>2
  <2>5. \A i, j \in DOMAIN d : i < j => d[i] < d[j]
    <3> SUFFICES ASSUME NEW i \in DOMAIN d, NEW j \in DOMAIN d, i < j PROVE d[i] < d[j]
      OBVIOUS
    <3>1. i \in DOMAIN b.ends
      BY <2>2
    <3>2. CASE j = Len(b.ends) + 1
      BY <1>6, <2>2, <3>1, <3>2
    <3>3. CASE j \in DOMAIN b.ends
      BY <1>4, <2>2, <3>1, <3>3
    <3> QED BY <2>3, <3>2, <3>3
  <2> QED BY <1>1, <1>2, <2>1, <2>4, <2>5 DEF ScanInv
<1>7. CASE b.size = 0 /\ c = [size |-> 0, ends |-> Append(b.ends, k)]
  <2>1. \A i \in DOMAIN b.ends : b.ends[i] < k
    BY <1>1, <1>4
  <2>2. k \in 1..k /\ 0 \in Nat
    BY <1>1
  <2> QED BY <1>6, <1>7, <2>1, <2>2
<1>8. CASE b.size # 0 /\ c = [size |-> sizes[k], ends |-> Append(b.ends, k - 1)]
  <2>1. \A i \in DOMAIN b.ends : b.ends[i] < k - 1
    BY <1>4, <1>8
  <2>2. k - 1 \in 1..k /\ k - 1 < k
    BY <1>1, <1>4, <1>8
  <2> QED BY <1>1, <1>6, <1>8, <2>1, <2>2
<1> QED BY <1>3, <1>5, <1>7, <1>8

(* The submodels end at different parameters, in their order. *)
LEMMA EndsIncrease ==
  ASSUME NEW sizes \in [Keys -> Nat \ {0}], NEW tenths
  PROVE  /\ Ends(sizes, tenths) \in Seq(Keys)
         /\ \A i, j \in DOMAIN Ends(sizes, tenths) : i < j => Ends(sizes, tenths)[i] < Ends(sizes, tenths)[j]
<1>1. PICK scan : IsScan(sizes, tenths, scan) /\ Ends(sizes, tenths) = scan[Params].ends
  BY EndsOfScan
<1>2. Params \in Nat
  BY ParamsType
<1> DEFINE Bad == {k \in 0..Params : ~ScanInv(k, scan[k])}
<1>3. Bad = {}
  <2> SUFFICES ASSUME Bad # {} PROVE FALSE
    OBVIOUS
  <2>1. PICK k \in Bad : \A m \in Bad : k <= m
    <3>1. Bad \subseteq Nat
      BY <1>2
    <3> HIDE DEF Bad
    <3> QED BY <3>1, Least
  <2>2. k \in 0..Params /\ ~ScanInv(k, scan[k])
    BY <2>1
  <2>3. k # 0
    <3>1. scan[0] = [size |-> 0, ends |-> <<>>]
      BY <1>1, <1>2 DEF IsScan
    <3>2. scan[0].size = 0 /\ scan[0].ends = <<>> /\ scan[0] \in Scans
      BY <3>1 DEF Scans
    <3>3. ScanInv(0, scan[0])
      BY <3>2 DEF ScanInv
    <3> QED BY <2>2, <3>3
  <2>4. k \in Keys /\ k - 1 \in 0..Params /\ k - 1 \notin Bad
    BY <1>2, <2>1, <2>2, <2>3 DEF Keys
  <2>5. ScanInv(k - 1, scan[k - 1])
    BY <2>4
  <2>6. scan[k] = ScanStep(sizes, tenths, k, scan[k - 1])
    BY <1>1, <2>2, <2>3 DEF IsScan
  <2> QED BY <2>2, <2>4, <2>5, <2>6, ScanKeeps
<1>4. ScanInv(Params, scan[Params])
  BY <1>2, <1>3
<1> DEFINE ends == scan[Params].ends
<1>5. /\ ends \in Seq(Nat) /\ \A i \in DOMAIN ends : ends[i] \in Keys
      /\ \A i, j \in DOMAIN ends : i < j => ends[i] < ends[j]
  BY <1>4 DEF ScanInv, Scans, Keys
<1>6. ends \in Seq(Keys)
  <2> HIDE DEF ends
  <2> QED BY <1>5
<1> QED BY <1>1, <1>5, <1>6

LEMMA EndsAtLeast ==
  ASSUME NEW ends \in Seq(Keys), \A i, j \in DOMAIN ends : i < j => ends[i] < ends[j]
  PROVE  \A i \in DOMAIN ends : i <= ends[i]
<1> DEFINE Bad == {i \in DOMAIN ends : ~(i <= ends[i])}
<1>1. /\ Len(ends) \in Nat /\ DOMAIN ends = 1..Len(ends)
      /\ \A i \in DOMAIN ends : ends[i] \in Nat \ {0}
  BY ParamsType DEF Keys
<1>2. SUFFICES ASSUME Bad # {} PROVE FALSE
  OBVIOUS
<1>3. PICK i \in Bad : \A m \in Bad : i <= m
  <2>1. Bad \subseteq Nat
    BY <1>1
  <2> HIDE DEF Bad
  <2> QED BY <1>2, <2>1, Least
<1>4. i \in DOMAIN ends /\ i \in Nat /\ ends[i] < i
  BY <1>1, <1>3
<1>5. i # 1
  BY <1>1, <1>4
<1>6. i - 1 \in DOMAIN ends /\ i - 1 < i /\ i - 1 \notin Bad
  BY <1>1, <1>3, <1>4, <1>5
<1>7. i - 1 <= ends[i - 1] /\ ends[i - 1] < ends[i]
  BY <1>4, <1>6
<1> QED BY <1>1, <1>4, <1>6, <1>7

(* What is needed of the ends of the submodels of a cluster. *)
Cuts(ends, size) ==
  /\ size \in Nat \ {0} /\ ends \in Seq(Keys) /\ Len(ends) >= size - 1
  /\ \A i, j \in DOMAIN ends : i < j => ends[i] < ends[j]

LEMMA SubmodelOf ==
  ASSUME NEW ends, NEW size, Cuts(ends, size), NEW i \in 1..size, NEW k
  PROVE  k \in Submodel(ends, size, i) <=>
           k \in Keys /\ (i # 1 => ends[i - 1] < k) /\ (i # size => k <= ends[i])
<1>1. /\ size \in Nat /\ Params \in Nat /\ Len(ends) \in Nat /\ DOMAIN ends = 1..Len(ends)
      /\ \A j \in DOMAIN ends : ends[j] \in 1..Params
      /\ Len(ends) >= size - 1
  BY ParamsType DEF Keys, Cuts
<1>2. CASE i = 1 /\ i = size
  BY <1>1, <1>2 DEF Submodel, Keys
<1>3. CASE i = 1 /\ i # size
  <2>1. ends[i] \in 1..Params
    BY <1>1, <1>3
  <2> QED BY <1>1, <1>3, <2>1 DEF Submodel, Keys
<1>4. CASE i # 1 /\ i = size
  <2>1. ends[i - 1] \in 1..Params
    BY <1>1, <1>4
  <2> QED BY <1>1, <1>4, <2>1 DEF Submodel, Keys
<1>5. CASE i # 1 /\ i # size
  <2>1. ends[i - 1] \in 1..Params /\ ends[i] \in 1..Params
    BY <1>1, <1>5
  <2> QED BY <1>1, <1>5, <2>1 DEF Submodel, Keys
<1> QED BY <1>2, <1>3, <1>4, <1>5

(* The parameters of a submodel come before those of the next one. *)
LEMMA SubmodelsAscend ==
  ASSUME NEW ends, NEW size, Cuts(ends, size), NEW i \in 1..size, NEW j \in 1..size, i < j,
         NEW k \in Submodel(ends, size, i), NEW m \in Submodel(ends, size, j)
  PROVE  k < m
<1>1. /\ size \in Nat /\ Params \in Nat /\ Len(ends) \in Nat /\ DOMAIN ends = 1..Len(ends)
      /\ \A d \in DOMAIN ends : ends[d] \in Nat
      /\ Len(ends) >= size - 1
      /\ \A c, d \in DOMAIN ends : c < d => ends[c] < ends[d]
  BY ParamsType DEF Keys, Cuts
<1>2. /\ i \in DOMAIN ends /\ j - 1 \in DOMAIN ends /\ i # size /\ j # 1
      /\ i = j - 1 \/ i < j - 1
  BY <1>1
<1>3. k \in Nat /\ m \in Nat /\ k <= ends[i] /\ ends[j - 1] < m
  <2>1. k \in Keys /\ (i # size => k <= ends[i])
    BY SubmodelOf
  <2>2. m \in Keys /\ (j # 1 => ends[j - 1] < m)
    BY SubmodelOf
  <2>3. Keys \subseteq Nat
    BY <1>1 DEF Keys
  <2> QED BY <1>2, <2>1, <2>2, <2>3
<1>4. ends[i] <= ends[j - 1] /\ ends[i] \in Nat /\ ends[j - 1] \in Nat
  BY <1>1, <1>2
<1> QED BY <1>3, <1>4

(* Every parameter is in exactly one submodel, and not in one with a       *)
(* greater number.                                                         *)
LEMMA SubmodelsTile ==
  ASSUME NEW ends, NEW size, Cuts(ends, size), NEW k \in Keys
  PROVE  \E i \in 1..size : /\ k \in Submodel(ends, size, i) /\ i <= k
                            /\ \A j \in 1..size : k \in Submodel(ends, size, j) => j = i
<1>1. /\ size \in Nat \ {0} /\ Params \in Nat /\ Len(ends) \in Nat /\ DOMAIN ends = 1..Len(ends)
      /\ \A d \in DOMAIN ends : ends[d] \in Nat /\ d <= ends[d]
      /\ Len(ends) >= size - 1
      /\ k \in Nat \ {0}
  <2>1. ends \in Seq(Keys) /\ \A i, j \in DOMAIN ends : i < j => ends[i] < ends[j]
    BY DEF Cuts
  <2>2. \A d \in DOMAIN ends : d <= ends[d]
    BY <2>1, EndsAtLeast
  <2> QED BY <2>1, <2>2, ParamsType DEF Keys, Cuts
<1> DEFINE S == {i \in 1..size : i = size \/ k <= ends[i]}
<1>2. S \subseteq Nat /\ size \in S
  BY <1>1
<1>3. PICK i \in S : \A m \in S : i <= m
  <2> HIDE DEF S
  <2> QED BY <1>2, Least
<1>4. i \in 1..size /\ (i # size => k <= ends[i])
  BY <1>3
<1>5. i # 1 => ends[i - 1] < k /\ i - 1 < k
  <2> SUFFICES ASSUME i # 1 PROVE ends[i - 1] < k /\ i - 1 < k
    OBVIOUS
  <2>1. i - 1 \in 1..size /\ i - 1 # size /\ i - 1 < i /\ i - 1 \in DOMAIN ends
    BY <1>1, <1>4
  <2>2. i - 1 \notin S
    BY <1>1, <1>3, <1>4, <2>1
  <2>3. ~(k <= ends[i - 1]) /\ ends[i - 1] \in Nat /\ i - 1 <= ends[i - 1]
    BY <1>1, <2>1, <2>2
  <2> QED BY <1>1, <2>1, <2>3
<1>6. i <= k
  BY <1>1, <1>4, <1>5
<1>7. k \in Submodel(ends, size, i)
  BY <1>4, <1>5, SubmodelOf
<1>8. ASSUME NEW j \in 1..size, k \in Submodel(ends, size, j)
      PROVE  j = i
  <2>1. k \in Nat /\ ~(k < k) /\ i \in Nat /\ j \in Nat
    BY <1>1, <1>4
  <2>2. ~(i < j) /\ ~(j < i)
    BY <1>4, <1>7, <1>8, <2>1, SubmodelsAscend
  <2> QED BY <2>1, <2>2
<1> QED BY <1>4, <1>6, <1>7, <1>8

-----------------------------------------------------------------------------
(* The clusters of an individual. *)

(* A sequence that has each element of a set at one position. *)
Lists(q, S) ==
  /\ q \in Seq(S)
  /\ \A x \in S : \E i \in DOMAIN q : q[i] = x /\ \A j \in DOMAIN q : q[j] = x => j = i

LEMMA SortedLists ==
  ASSUME NEW S \in SUBSET Int, IsFiniteSet(S)
  PROVE  Lists(Sorted(S), S) /\ Len(Sorted(S)) = Cardinality(S)
<1> DEFINE below(x) == {y \in S : y < x}
           n == Cardinality(S)
           rank == [x \in S |-> Cardinality(below(x))]
           T == 0..(n - 1)
<1>1. n \in Nat
  BY FS_CardinalityType
<1>2. \A x \in S : below(x) \in SUBSET S /\ x \notin below(x)
  OBVIOUS
<1>3. ASSUME NEW x \in S
      PROVE  IsFiniteSet(below(x)) /\ rank[x] \in T
  <2>1. below(x) \in SUBSET S /\ below(x) # S
    BY <1>2
  <2> HIDE DEF below
  <2>2. /\ IsFiniteSet(below(x)) /\ Cardinality(below(x)) <= n /\ n # Cardinality(below(x))
    BY <2>1, FS_Subset
  <2>3. Cardinality(below(x)) \in Nat
    BY <2>2, FS_CardinalityType
  <2> QED BY <1>1, <2>2, <2>3
<1>4. ASSUME NEW x \in S, NEW y \in S, x < y
      PROVE  rank[x] # rank[y]
  <2>1. below(x) \in SUBSET below(y) /\ x \in below(y) /\ x \notin below(x)
    <3>1. \A z \in S : z < x => z < y
      BY <1>4
    <3>2. \A z : z \in below(x) => z \in below(y)
      BY <3>1
    <3>3. x \in below(y)
      BY <1>4
    <3> HIDE DEF below
    <3> QED BY <1>2, <3>2, <3>3
  <2>2. IsFiniteSet(below(y)) /\ below(x) # below(y)
    BY <1>3, <2>1
  <2>3. Cardinality(below(y)) # Cardinality(below(x))
    <3> HIDE DEF below
    <3> QED BY <2>1, <2>2, FS_Subset
  <2> QED BY <2>3
<1>5. rank \in Injection(S, T)
  <2>1. rank \in [S -> T]
    BY <1>3
  <2>2. \A x, y \in S : rank[x] = rank[y] => x = y
    <3> SUFFICES ASSUME NEW x \in S, NEW y \in S, rank[x] = rank[y], x # y PROVE FALSE
      OBVIOUS
    <3>1. x < y \/ y < x
      OBVIOUS
    <3> HIDE DEF rank
    <3> QED BY <1>4, <3>1
  <2> HIDE DEF rank, T
  <2> QED BY <2>1, <2>2 DEF Injection, IsInjective
<1>6. rank \in Surjection(S, T)
  <2>1. IsFiniteSet(T) /\ Cardinality(T) = n
    BY <1>1, FS_Interval
  <2> HIDE DEF rank, T
  <2> QED BY <1>5, <2>1, FS_Injection
<1>7. ASSUME NEW i \in 1..n
      PROVE  Sorted(S)[i] \in S /\ rank[Sorted(S)[i]] = i - 1
  <2>1. i - 1 \in T
    BY <1>1
  <2>2. \E x \in S : rank[x] = i - 1
    <3> HIDE DEF rank, T
    <3> QED BY <1>6, <2>1 DEF Surjection
  <2>3. Sorted(S)[i] = CHOOSE x \in S : Cardinality(below(x)) = i - 1
    BY DEF Sorted
  <2>4. \E x \in S : Cardinality(below(x)) = i - 1
    BY <2>2
  <2> HIDE DEF below
  <2> QED BY <2>3, <2>4
<1>8. Sorted(S) \in Seq(S) /\ Len(Sorted(S)) = n
  <2> DEFINE c(i) == CHOOSE x \in S : Cardinality(below(x)) = i - 1
  <2>1. Sorted(S) = [i \in 1..n |-> c(i)]
    BY DEF Sorted
  <2> HIDE DEF n, c
  <2>2. Sorted(S) \in [1..n -> S]
    BY <1>7, <2>1
  <2> QED BY <1>1, <2>2
<1>9. ASSUME NEW x \in S
      PROVE  \E i \in DOMAIN Sorted(S) : Sorted(S)[i] = x /\ \A j \in DOMAIN Sorted(S) : Sorted(S)[j] = x => j = i
  <2> DEFINE i == rank[x] + 1
  <2>1. rank[x] \in T
    BY <1>3
  <2>2. DOMAIN Sorted(S) = 1..n
    <3> HIDE DEF n
    <3> QED BY <1>8
  <2> HIDE DEF rank
  <2>3. i \in 1..n /\ i - 1 = rank[x]
    BY <1>1, <2>1
  <2>4. Sorted(S)[i] \in S /\ rank[Sorted(S)[i]] = rank[x]
    BY <1>7, <2>3
  <2>5. Sorted(S)[i] = x
    BY <1>5, <2>4 DEF Injection, IsInjective
  <2>6. \A j \in 1..n : Sorted(S)[j] = x => j = i
    BY <1>1, <1>7, <2>3
  <2> QED BY <2>2, <2>3, <2>5, <2>6
<1> QED BY <1>8, <1>9 DEF Lists

(* Every provider is at exactly one position of one cluster, and no        *)
(* cluster is empty.                                                       *)
Groups(m) ==
  /\ m \in Seq(Seq(Providers)) /\ Len(m) > 0
  /\ \A c \in DOMAIN m : Len(m[c]) > 0
  /\ \A n \in Providers : \E c \in DOMAIN m : \E i \in DOMAIN m[c] :
       /\ m[c][i] = n
       /\ \A d \in DOMAIN m : \A j \in DOMAIN m[d] : m[d][j] = n => d = c /\ j = i

LEMMA ProvidersFinite ==
  /\ Providers = 1..Len(Ram) /\ Len(Ram) \in Nat \ {0} /\ 1 \in Providers
  /\ IsFiniteSet(Providers)
<1>1. Ram \in Seq(Nat \ {0}) /\ Len(Ram) > 0
  BY FormationAssumption
<1>2. Providers = 1..Len(Ram) /\ Len(Ram) \in Nat \ {0}
  BY <1>1 DEF Providers
<1>3. 1 \in Int /\ Len(Ram) \in Int
  BY <1>2
<1> QED BY <1>2, <1>3, FS_Interval

LEMMA DecodeGroups ==
  ASSUME NEW individual \in Individuals
  PROVE  Groups(Decode(individual))
<1> DEFINE used == {individual[n] : n \in Providers}
           ids == Sorted(used)
           m == Decode(individual)
<1>1. \A n \in Providers : individual[n] \in 0..(MaxClusters - 1)
  BY DEF Individuals
<1>2. used \in SUBSET Int /\ IsFiniteSet(used)
  <2>1. 0 \in Int /\ MaxClusters - 1 \in Int
    BY ParamsType
  <2>2. IsFiniteSet(0..(MaxClusters - 1))
    BY <2>1, FS_Interval
  <2>3. used \in SUBSET (0..(MaxClusters - 1))
    BY <1>1
  <2> HIDE DEF used
  <2>4. used \in SUBSET Int
    BY <2>1, <2>3
  <2> QED BY <2>2, <2>3, <2>4, FS_Subset
<1>3. Lists(ids, used)
  <2> HIDE DEF used
  <2> QED BY <1>2, SortedLists
<1>4. ASSUME NEW c
      PROVE  Lists(Sorted(InCluster(individual, c)), InCluster(individual, c))
  <2>1. InCluster(individual, c) \in SUBSET Providers /\ Providers \in SUBSET Int
    BY ProvidersFinite DEF InCluster
  <2>2. InCluster(individual, c) \in SUBSET Int /\ IsFiniteSet(InCluster(individual, c))
    BY <2>1, ProvidersFinite, FS_Subset
  <2> QED BY <2>2, SortedLists
<1>5. DOMAIN m = DOMAIN ids /\ \A c \in DOMAIN ids : m[c] = Sorted(InCluster(individual, ids[c]))
  BY DEF Decode
<1>6. ids \in Seq(used) /\ Len(ids) \in Nat /\ DOMAIN ids = 1..Len(ids)
  BY <1>3 DEF Lists
<1>7. \A c \in DOMAIN ids : ids[c] \in used
  <2> HIDE DEF used, ids
  <2> QED BY <1>6
<1>8. \A c \in DOMAIN m : \A i \in DOMAIN m[c] : m[c][i] \in Providers /\ individual[m[c][i]] = ids[c]
  <2> SUFFICES ASSUME NEW c \in DOMAIN m, NEW i \in DOMAIN m[c]
               PROVE  m[c][i] \in Providers /\ individual[m[c][i]] = ids[c]
    OBVIOUS
  <2> DEFINE S == InCluster(individual, ids[c])
  <2>1. m[c] \in Seq(S)
    BY <1>4, <1>5 DEF Lists
  <2>2. m[c][i] \in S
    <3> HIDE DEF S, m
    <3> QED BY <2>1
  <2> QED BY <2>2 DEF InCluster
<1>9. \A c \in DOMAIN m : m[c] \in Seq(Providers) /\ Len(m[c]) > 0
  <2> SUFFICES ASSUME NEW c \in DOMAIN m PROVE m[c] \in Seq(Providers) /\ Len(m[c]) > 0
    OBVIOUS
  <2> DEFINE S == InCluster(individual, ids[c])
  <2>1. Lists(m[c], S)
    BY <1>4, <1>5
  <2>2. PICK n \in Providers : individual[n] = ids[c]
    BY <1>5, <1>7
  <2>3. n \in S
    BY <2>2 DEF InCluster
  <2>4. m[c] \in Seq(S) /\ \E i \in DOMAIN m[c] : m[c][i] = n
    <3> HIDE DEF S, m
    <3> QED BY <2>1, <2>3 DEF Lists
  <2>5. S \subseteq Providers
    BY DEF InCluster
  <2> HIDE DEF S, m
  <2> QED BY <2>4, <2>5
<1>10. m \in Seq(Seq(Providers))
  <2>1. m = [c \in 1..Len(ids) |-> m[c]]
    BY <1>6 DEF Decode
  <2> HIDE DEF m, ids
  <2>2. m \in [1..Len(ids) -> Seq(Providers)]
    BY <1>5, <1>6, <1>9, <2>1
  <2> QED BY <1>6, <2>2
<1>11. Len(m) > 0
  <2>1. individual[1] \in used
    BY ProvidersFinite
  <2>2. \E c \in DOMAIN ids : ids[c] = individual[1]
    <3> HIDE DEF used, ids
    <3> QED BY <1>3, <2>1 DEF Lists
  <2> HIDE DEF m, ids
  <2> QED BY <1>5, <1>10, <2>2
<1>12. ASSUME NEW n \in Providers
       PROVE  \E c \in DOMAIN m : \E i \in DOMAIN m[c] :
                /\ m[c][i] = n
                /\ \A d \in DOMAIN m : \A j \in DOMAIN m[d] : m[d][j] = n => d = c /\ j = i
  <2>1. individual[n] \in used
    OBVIOUS
  <2>2. PICK c \in DOMAIN ids : ids[c] = individual[n] /\ \A d \in DOMAIN ids : ids[d] = individual[n] => d = c
    <3> HIDE DEF used, ids
    <3> QED BY <1>3, <2>1 DEF Lists
  <2> DEFINE S == InCluster(individual, ids[c])
  <2>3. Lists(m[c], S)
    BY <1>4, <1>5
  <2>4. n \in S
    BY <2>2 DEF InCluster
  <2> HIDE DEF S, m, ids
  <2>5. PICK i \in DOMAIN m[c] : m[c][i] = n /\ \A j \in DOMAIN m[c] : m[c][j] = n => j = i
    BY <2>3, <2>4 DEF Lists
  <2>6. \A d \in DOMAIN m : \A j \in DOMAIN m[d] : m[d][j] = n => d = c /\ j = i
    BY <1>5, <1>8, <2>2, <2>5
  <2> QED BY <1>5, <2>5, <2>6
<1>13. Groups(m)
  <2> HIDE DEF m
  <2> QED BY <1>9, <1>10, <1>11, <1>12 DEF Groups
<1> QED BY <1>13

(* The cluster and the position of a provider. *)
LEMMA PlaceOf ==
  ASSUME Groups(members), NEW n \in Providers
  PROVE  /\ ClusterOf(n) \in DOMAIN members
         /\ Position(n, members[ClusterOf(n)]) \in DOMAIN members[ClusterOf(n)]
         /\ members[ClusterOf(n)][Position(n, members[ClusterOf(n)])] = n
<1>1. PICK c \in DOMAIN members : \E i \in DOMAIN members[c] :
        /\ members[c][i] = n
        /\ \A d \in DOMAIN members : \A j \in DOMAIN members[d] : members[d][j] = n => d = c /\ j = i
  BY DEF Groups
<1>2. PICK i \in DOMAIN members[c] :
        /\ members[c][i] = n
        /\ \A d \in DOMAIN members : \A j \in DOMAIN members[d] : members[d][j] = n => d = c /\ j = i
  BY <1>1
<1>3. n \in Range(members[c])
  BY <1>2 DEF Range
<1>4. ClusterOf(n) \in DOMAIN members /\ n \in Range(members[ClusterOf(n)])
  BY <1>3 DEF ClusterOf
<1>5. \E j \in DOMAIN members[ClusterOf(n)] : members[ClusterOf(n)][j] = n
  BY <1>4 DEF Range
<1> QED BY <1>4, <1>5 DEF Position

LEMMA PlaceIs ==
  ASSUME Groups(members), NEW c \in DOMAIN members, NEW i \in DOMAIN members[c]
  PROVE  /\ members[c][i] \in Providers
         /\ ClusterOf(members[c][i]) = c
         /\ Position(members[c][i], members[c]) = i
<1> DEFINE n == members[c][i]
<1>1. n \in Providers
  <2>1. members[c] \in Seq(Providers)
    BY DEF Groups
  <2> QED BY <2>1
<1>2. /\ ClusterOf(n) \in DOMAIN members
      /\ Position(n, members[ClusterOf(n)]) \in DOMAIN members[ClusterOf(n)]
      /\ members[ClusterOf(n)][Position(n, members[ClusterOf(n)])] = n
  BY <1>1, PlaceOf
<1>3. ClusterOf(n) = c /\ Position(n, members[ClusterOf(n)]) = i
  BY <1>1, <1>2 DEF Groups
<1> QED BY <1>1, <1>3

LEMMA InRange ==
  ASSUME Groups(members), NEW c \in DOMAIN members, NEW n
  PROVE  n \in Range(members[c]) <=> n \in Providers /\ ClusterOf(n) = c
<1>1. n \in Range(members[c]) => n \in Providers /\ ClusterOf(n) = c
  BY PlaceIs DEF Range
<1>2. n \in Providers /\ ClusterOf(n) = c => n \in Range(members[c])
  BY PlaceOf DEF Range
<1> QED BY <1>1, <1>2

-----------------------------------------------------------------------------
(* The submodels and rings of the formed clusters. *)

Size(c) == Len(members[c])

(* What the last step leaves. *)
FormedFrom(ends) ==
  /\ \A c \in DOMAIN members : Cuts(ends[c], Size(c))
  /\ keys = [n \in Providers |->
               Submodel(ends[ClusterOf(n)], Size(ClusterOf(n)), Position(n, members[ClusterOf(n)]))]
  /\ \A n \in Range(members[MaxCluster]) : keys[n] # {}
  /\ ringKeys = [n \in Providers |-> RingParamKeys(keys[n], RingIds(keys, n))]
  /\ address = [n \in Providers |-> ParamAddressMapping(keys[n], AddressToParam(keys, n))]

Formed == Groups(members) /\ \E ends : FormedFrom(ends)

LEMMA SizeType ==
  ASSUME Groups(members), NEW c \in DOMAIN members
  PROVE  Size(c) \in Nat \ {0} /\ DOMAIN members[c] = 1..Size(c)
<1>1. members[c] \in Seq(Providers) /\ Len(members[c]) > 0
  BY DEF Groups
<1> QED BY <1>1 DEF Size

LEMMA KeysAt ==
  ASSUME Groups(members), NEW ends, FormedFrom(ends), NEW c \in DOMAIN members, NEW i \in 1..Size(c)
  PROVE  keys[members[c][i]] = Submodel(ends[c], Size(c), i)
<1>1. i \in DOMAIN members[c]
  BY SizeType
<1> QED BY <1>1, PlaceIs DEF FormedFrom

LEMMA KeysType ==
  ASSUME Formed, NEW n \in Providers
  PROVE  keys[n] \subseteq Keys
<1>1. PICK ends : FormedFrom(ends)
  BY DEF Formed
<1> DEFINE c == ClusterOf(n)
           i == Position(n, members[c])
<1>2. c \in DOMAIN members /\ i \in 1..Size(c) /\ members[c][i] = n
  BY PlaceOf, SizeType DEF Formed
<1> HIDE DEF c, i
<1>3. keys[n] = Submodel(ends[c], Size(c), i) /\ Cuts(ends[c], Size(c))
  BY <1>1, <1>2, KeysAt DEF Formed, FormedFrom
<1> QED BY <1>2, <1>3, SubmodelOf

(* Each parameter has one holder in every cluster. *)
LEMMA Holder ==
  ASSUME Formed, NEW c \in DOMAIN members, NEW k \in Keys
  PROVE  \E i \in 1..Size(c) : /\ k \in keys[members[c][i]] /\ i <= k
                               /\ \A j \in 1..Size(c) : k \in keys[members[c][j]] => j = i
<1>1. PICK ends : FormedFrom(ends)
  BY DEF Formed
<1>2. Cuts(ends[c], Size(c)) /\ \A i \in 1..Size(c) : keys[members[c][i]] = Submodel(ends[c], Size(c), i)
  BY <1>1, KeysAt DEF Formed, FormedFrom
<1>3. \E i \in 1..Size(c) : /\ k \in Submodel(ends[c], Size(c), i) /\ i <= k
                            /\ \A j \in 1..Size(c) : k \in Submodel(ends[c], Size(c), j) => j = i
  BY <1>2, SubmodelsTile
<1> QED BY <1>2, <1>3

LEMMA Ascending ==
  ASSUME Formed, NEW c \in DOMAIN members, NEW i \in 1..Size(c), NEW j \in 1..Size(c), i < j,
         NEW k \in keys[members[c][i]], NEW m \in keys[members[c][j]]
  PROVE  k < m
<1>1. PICK ends : FormedFrom(ends)
  BY DEF Formed
<1>2. Cuts(ends[c], Size(c)) /\ \A d \in 1..Size(c) : keys[members[c][d]] = Submodel(ends[c], Size(c), d)
  BY <1>1, KeysAt DEF Formed, FormedFrom
<1> QED BY <1>2, SubmodelsAscend

(* The parameters of a provider follow one another. *)
LEMMA Contiguous ==
  ASSUME Formed, NEW n \in Providers, NEW k \in keys[n], NEW l \in keys[n], NEW m \in Keys, k <= m, m <= l
  PROVE  m \in keys[n]
<1>1. PICK ends : FormedFrom(ends)
  BY DEF Formed
<1> DEFINE c == ClusterOf(n)
           i == Position(n, members[c])
           e == ends[c]
<1>2. c \in DOMAIN members /\ i \in 1..Size(c) /\ members[c][i] = n
  BY PlaceOf, SizeType DEF Formed
<1> HIDE DEF c, i
<1>3. keys[n] = Submodel(e, Size(c), i) /\ Cuts(e, Size(c))
  BY <1>1, <1>2, KeysAt DEF Formed, FormedFrom
<1>4. /\ k \in Keys /\ (i # 1 => e[i - 1] < k)
      /\ l \in Keys /\ (i # Size(c) => l <= e[i])
  BY <1>2, <1>3, SubmodelOf
<1>5. /\ Params \in Nat /\ Size(c) \in Nat /\ \A d \in DOMAIN e : e[d] \in Nat
      /\ DOMAIN e = 1..Len(e) /\ Len(e) \in Nat /\ Len(e) >= Size(c) - 1
  BY <1>3, ParamsType DEF Cuts, Keys
<1>6. i # 1 => e[i - 1] < m
  <2> SUFFICES ASSUME i # 1 PROVE e[i - 1] < m
    OBVIOUS
  <2>1. i - 1 \in DOMAIN e
    BY <1>2, <1>5
  <2>2. e[i - 1] \in Nat /\ e[i - 1] < k /\ k \in Nat /\ m \in Nat
    BY <1>4, <1>5, <2>1 DEF Keys
  <2> QED BY <2>2
<1>7. i # Size(c) => m <= e[i]
  <2> SUFFICES ASSUME i # Size(c) PROVE m <= e[i]
    OBVIOUS
  <2>1. i \in DOMAIN e
    BY <1>2, <1>5
  <2>2. e[i] \in Nat /\ l <= e[i] /\ l \in Nat /\ m \in Nat
    BY <1>4, <1>5, <2>1 DEF Keys
  <2> QED BY <2>2
<1> QED BY <1>2, <1>3, <1>6, <1>7, SubmodelOf

LEMMA MaxClusterType ==
  ASSUME Groups(members)
  PROVE  MaxCluster \in DOMAIN members
<1> DEFINE S == {c \in DOMAIN members : \A d \in DOMAIN members : Len(members[d]) <= Len(members[c])}
           N == Len(members)
           f == [c \in 1..N |-> Len(members[c])]
<1>1. N \in Nat \ {0} /\ DOMAIN members = 1..N
  BY DEF Groups
<1>2. f \in [1..N -> Nat]
  <2>1. \A c \in 1..N : Len(members[c]) \in Nat
    BY <1>1, SizeType DEF Size
  <2> HIDE DEF N
  <2> QED BY <2>1
<1>3. \E c \in 1..N : \A d \in 1..N : f[d] <= f[c]
  <2> HIDE DEF N, f
  <2> QED BY <1>1, <1>2, LargestOf
<1>4. S # {} /\ S \subseteq Nat
  BY <1>1, <1>3
<1>5. Min(S) \in S
  <2> HIDE DEF S
  <2> QED BY <1>4, MinIsLeast
<1> QED BY <1>5 DEF MaxCluster

(* The ring of a parameter is the position of its holder in the largest    *)
(* cluster.                                                                *)
Ring(k) == ParamToRing(keys, k)

LEMMA RingIs ==
  ASSUME Formed, NEW k \in Keys
  PROVE  /\ Ring(k) \in 0..(k - 1) /\ Ring(k) + 1 \in 1..Size(MaxCluster)
         /\ k \in keys[members[MaxCluster][Ring(k) + 1]]
         /\ \A j \in 1..Size(MaxCluster) : k \in keys[members[MaxCluster][j]] => j = Ring(k) + 1
<1> DEFINE M == MaxCluster
<1>1. M \in DOMAIN members /\ Size(M) \in Nat /\ DOMAIN members[M] = 1..Size(M)
  BY MaxClusterType, SizeType DEF Formed
<1> DEFINE p == CHOOSE j \in 1..Size(M) : k \in keys[members[M][j]]
<1>2. Ring(k) = p - 1
  BY <1>1 DEF Ring, ParamToRing
<1> HIDE DEF M
<1>3. PICK i \in 1..Size(M) : /\ k \in keys[members[M][i]] /\ i <= k
                              /\ \A j \in 1..Size(M) : k \in keys[members[M][j]] => j = i
  BY <1>1, Holder
<1>4. p = i
  BY <1>3
<1> HIDE DEF p
<1>5. Ring(k) = i - 1 /\ i \in Nat /\ k \in Nat
  BY <1>1, <1>2, <1>4, ParamsType DEF Keys
<1>6. Ring(k) + 1 = i /\ Ring(k) \in 0..(k - 1)
  BY <1>1, <1>3, <1>5
<1> QED BY <1>3, <1>6 DEF M

LEMMA RingsAscend ==
  ASSUME Formed, NEW k \in Keys, NEW l \in Keys, k <= l
  PROVE  Ring(k) <= Ring(l)
<1> DEFINE i == Ring(k) + 1
           j == Ring(l) + 1
<1>1. /\ i \in 1..Size(MaxCluster) /\ j \in 1..Size(MaxCluster) /\ k \in Nat /\ l \in Nat
      /\ Ring(k) \in Nat /\ Ring(l) \in Nat
      /\ k \in keys[members[MaxCluster][i]] /\ l \in keys[members[MaxCluster][j]]
  BY RingIs, ParamsType DEF Keys
<1> HIDE DEF i, j
<1>2. ~(j < i)
  <2> SUFFICES ASSUME j < i PROVE FALSE
    OBVIOUS
  <2>1. MaxCluster \in DOMAIN members
    BY MaxClusterType DEF Formed
  <2>2. l < k
    BY <1>1, <2>1, Ascending
  <2> QED BY <1>1, <2>2
<1>3. Size(MaxCluster) \in Nat
  BY MaxClusterType, SizeType DEF Formed
<1> QED BY <1>1, <1>2, <1>3 DEF i, j

LEMMA RingHasKeys ==
  ASSUME Formed, NEW r \in 0..(Size(MaxCluster) - 1)
  PROVE  \E k \in Keys : Ring(k) = r
<1> DEFINE M == MaxCluster
           n == members[M][r + 1]
<1>1. M \in DOMAIN members /\ Size(M) \in Nat /\ DOMAIN members[M] = 1..Size(M)
  BY MaxClusterType, SizeType DEF Formed
<1>2. r + 1 \in 1..Size(M) /\ r \in Nat
  BY <1>1
<1>3. n \in Providers /\ n \in Range(members[M])
  BY <1>1, <1>2, PlaceIs DEF Formed, Range
<1>4. keys[n] # {} /\ keys[n] \subseteq Keys
  BY <1>3, KeysType DEF Formed, FormedFrom
<1>5. PICK k \in Keys : k \in keys[n]
  BY <1>4
<1>6. r + 1 = Ring(k) + 1 /\ Ring(k) \in Nat
  BY <1>2, <1>5, RingIs
<1> QED BY <1>2, <1>6

(* The rings of a provider, with the first parameter of each. *)
LEMMA RingIdsAre ==
  ASSUME Formed, NEW n \in Providers
  PROVE  LET ids == RingIds(keys, n)
         IN /\ \A k \in keys[n] : Ring(k) \in DOMAIN ids
            /\ \A r \in DOMAIN ids : /\ ids[r] \in keys[n] /\ Ring(ids[r]) = r
                                     /\ \A k \in keys[n] : Ring(k) = r => ids[r] <= k
<1> DEFINE ids == RingIds(keys, n)
           own(r) == {k \in keys[n] : Ring(k) = r}
<1>1. keys[n] \subseteq Keys /\ Keys \subseteq Nat
  BY KeysType, ParamsType DEF Keys
<1>2. ids = [r \in {Ring(k) : k \in keys[n]} |-> Min(own(r))]
  BY DEF RingIds, Ring
<1>3. \A k \in keys[n] : Ring(k) \in DOMAIN ids
  BY <1>2
<1>4. ASSUME NEW r \in DOMAIN ids
      PROVE  /\ ids[r] \in keys[n] /\ Ring(ids[r]) = r
             /\ \A k \in keys[n] : Ring(k) = r => ids[r] <= k
  <2>1. own(r) # {} /\ own(r) \subseteq Nat /\ ids[r] = Min(own(r))
    BY <1>1, <1>2, <1>4
  <2> HIDE DEF own, ids
  <2>2. ids[r] \in own(r) /\ \A k \in own(r) : ids[r] <= k
    BY <2>1, MinIsLeast
  <2> QED BY <2>2 DEF own
<1> HIDE DEF ids
<1>5. /\ \A k \in keys[n] : Ring(k) \in DOMAIN ids
      /\ \A r \in DOMAIN ids : /\ ids[r] \in keys[n] /\ Ring(ids[r]) = r
                               /\ \A k \in keys[n] : Ring(k) = r => ids[r] <= k
  BY <1>3, <1>4
<1> QED BY <1>5 DEF ids

(* The slices of node.py are the rings. *)
LEMMA RingSlices ==
  ASSUME Formed, NEW n \in Providers, NEW k \in keys[n]
  PROVE  /\ Ring(k) \in DOMAIN ringKeys[n]
         /\ \A r \in DOMAIN ringKeys[n] : k \in ringKeys[n][r] <=> Ring(k) = r
<1> DEFINE ids == RingIds(keys, n)
           D == DOMAIN ids
<1>1. ringKeys[n] = RingParamKeys(keys[n], ids)
  BY DEF Formed, FormedFrom
<1>2. /\ Ring(k) \in D
      /\ \A l \in keys[n] : Ring(l) \in D
      /\ \A r \in D : /\ ids[r] \in keys[n] /\ Ring(ids[r]) = r
                      /\ \A l \in keys[n] : Ring(l) = r => ids[r] <= l
  BY RingIdsAre
<1> HIDE DEF ids
<1>3. /\ DOMAIN ringKeys[n] = D
      /\ \A r \in D : ringKeys[n][r] = {l \in keys[n] : l >= ids[r] /\ (r = Max(D) \/ l < ids[r + 1])}
  BY <1>1 DEF RingParamKeys
<1>4. /\ keys[n] \subseteq Keys /\ Keys \subseteq Nat
      /\ \A l \in Keys : Ring(l) \in Nat /\ Ring(l) \in 0..(Size(MaxCluster) - 1)
  <2>1. keys[n] \subseteq Keys /\ Keys \subseteq Nat
    BY KeysType, ParamsType DEF Keys
  <2>2. Size(MaxCluster) \in Nat
    BY MaxClusterType, SizeType DEF Formed
  <2>3. ASSUME NEW l \in Keys
        PROVE  Ring(l) \in Nat /\ Ring(l) \in 0..(Size(MaxCluster) - 1)
    <3>1. Ring(l) \in Nat /\ Ring(l) + 1 \in 1..Size(MaxCluster)
      BY RingIs
    <3> QED BY <2>2, <3>1
  <2> QED BY <2>1, <2>3
<1>5. Size(MaxCluster) - 1 \in Nat /\ Size(MaxCluster) \in Nat
  BY MaxClusterType, SizeType DEF Formed
<1>6. D # {} /\ D \subseteq 0..(Size(MaxCluster) - 1)
  BY <1>2, <1>4
<1> HIDE DEF D
<1>7. Max(D) \in D /\ \A r \in D : r <= Max(D)
  BY <1>5, <1>6, MaxIsGreatest
<1>8. ASSUME NEW r \in D, r # Max(D)
      PROVE  r + 1 \in D
  <2> DEFINE t == Max(D)
  <2>1. t \in D /\ r < t /\ r \in Nat /\ t \in 0..(Size(MaxCluster) - 1)
    BY <1>5, <1>6, <1>7, <1>8
  <2> HIDE DEF t
  <2>2. CASE r + 1 = t
    BY <2>1, <2>2
  <2>3. CASE r + 1 # t
    <3>1. r + 1 \in 0..(Size(MaxCluster) - 1) /\ r + 1 < t
      BY <1>5, <2>1, <2>3
    <3>2. PICK m \in Keys : Ring(m) = r + 1
      BY <3>1, RingHasKeys
    <3> DEFINE a == ids[r]
               b == ids[t]
    <3>3. a \in keys[n] /\ Ring(a) = r /\ b \in keys[n] /\ Ring(b) = t
      BY <1>2, <2>1
    <3> HIDE DEF a, b
    <3>4. a \in Keys /\ b \in Keys /\ a \in Nat /\ b \in Nat /\ m \in Nat
      BY <1>4, <3>3
    <3>5. ~(m <= a) /\ ~(b <= m)
      BY <2>1, <3>1, <3>2, <3>3, <3>4, RingsAscend
    <3>6. m \in keys[n]
      BY <3>3, <3>4, <3>5, Contiguous
    <3> QED BY <1>2, <3>2, <3>6
  <2> QED BY <2>2, <2>3
<1>9. ASSUME NEW r \in D, k \in ringKeys[n][r]
      PROVE  Ring(k) = r
  <2>1. k >= ids[r] /\ (r = Max(D) \/ k < ids[r + 1])
    BY <1>3, <1>9
  <2>2. ids[r] \in Keys /\ Ring(ids[r]) = r /\ k \in Keys /\ ids[r] \in Nat /\ k \in Nat
    BY <1>2, <1>4
  <2>3. r <= Ring(k) /\ r \in Nat /\ Ring(k) \in Nat
    BY <1>4, <2>1, <2>2, RingsAscend
  <2>4. CASE r = Max(D)
    BY <1>2, <1>7, <2>3, <2>4
  <2>5. CASE r # Max(D)
    <3>1. r + 1 \in D
      BY <1>8, <2>5
    <3> DEFINE a == ids[r + 1]
    <3>2. k < a /\ a \in keys[n] /\ Ring(a) = r + 1 /\ (Ring(k) = r + 1 => a <= k)
      BY <1>2, <2>1, <2>5, <3>1
    <3> HIDE DEF a
    <3>3. a \in Keys /\ a \in Nat
      BY <1>4, <3>2
    <3>4. Ring(k) <= Ring(a)
      BY <2>2, <3>2, <3>3, RingsAscend
    <3>5. Ring(k) # r + 1
      BY <2>2, <3>2, <3>3
    <3> QED BY <2>3, <3>2, <3>4, <3>5
  <2> QED BY <2>4, <2>5
<1>10. ASSUME NEW r \in D, Ring(k) = r
       PROVE  k \in ringKeys[n][r]
  <2>1. ids[r] <= k /\ ids[r] \in Nat /\ k \in Nat /\ k \in Keys
    BY <1>2, <1>4, <1>10
  <2>2. r # Max(D) => k < ids[r + 1]
    <3> SUFFICES ASSUME r # Max(D) PROVE k < ids[r + 1]
      OBVIOUS
    <3> DEFINE a == ids[r + 1]
    <3>1. a \in keys[n] /\ Ring(a) = r + 1
      BY <1>2, <1>8
    <3> HIDE DEF a
    <3>2. a \in Keys /\ a \in Nat /\ r \in Nat
      <4>1. a \in Keys /\ a \in Nat
        BY <1>4, <3>1
      <4>2. r \in Nat
        BY <1>5, <1>6
      <4> QED BY <4>1, <4>2
    <3>3. ~(a <= k)
      BY <1>10, <2>1, <3>1, <3>2, RingsAscend
    <3>4. k < a
      BY <2>1, <3>2, <3>3
    <3> QED BY <3>4 DEF a
  <2>3. k >= ids[r]
    BY <2>1
  <2> QED BY <1>3, <2>2, <2>3
<1> QED BY <1>2, <1>3, <1>9, <1>10

LEMMA NextClusterType ==
  ASSUME Groups(members), NEW c \in DOMAIN members
  PROVE  NextCluster(c) \in DOMAIN members
BY DEF Groups, NextCluster, RingSize

(* A parameter is sent to its holder in the next cluster. *)
LEMMA AddressIsHolder ==
  ASSUME Formed, NEW n \in Providers, NEW k \in keys[n]
  PROVE  /\ address[n][k] \in Providers
         /\ address[n][k] \in Range(members[NextCluster(ClusterOf(n))])
         /\ k \in keys[address[n][k]]
         /\ DOMAIN address[n] = keys[n]
<1> DEFINE c == NextCluster(ClusterOf(n))
           next == Range(members[c])
           targets == AddressToParam(keys, n)
<1>1. c \in DOMAIN members /\ k \in Keys /\ Groups(members)
  BY PlaceOf, NextClusterType, KeysType DEF Formed
<1>2. targets = [m \in {o \in next : keys[n] \intersect keys[o] # {}} |-> Min(keys[n] \intersect keys[m])]
  BY DEF AddressToParam
<1> HIDE DEF c
<1>3. \A i \in 1..Size(c) : members[c][i] \in next /\ members[c][i] \in Providers
  BY <1>1, SizeType, PlaceIs DEF Range
<1>4. \A o \in next : \E i \in 1..Size(c) : o = members[c][i]
  BY <1>1, SizeType DEF Range
<1>5. address[n] = [l \in keys[n] |-> CHOOSE m \in DOMAIN targets :
                      targets[m] <= l /\ \A o \in DOMAIN targets : targets[o] <= l => targets[o] <= targets[m]]
  BY DEF Formed, FormedFrom, ParamAddressMapping
<1> HIDE DEF next
<1>6. ASSUME NEW o \in DOMAIN targets
      PROVE  o \in next /\ targets[o] \in keys[o] /\ targets[o] \in Nat
             /\ \A l \in keys[n] \intersect keys[o] : targets[o] <= l
  <2> DEFINE S == keys[n] \intersect keys[o]
  <2>1. o \in next /\ S # {} /\ targets[o] = Min(S) /\ S \subseteq Nat
    BY <1>2, <1>6, KeysType, ParamsType DEF Keys
  <2>2. Min(S) \in S /\ \A l \in S : Min(S) <= l
    <3> HIDE DEF S
    <3> QED BY <2>1, MinIsLeast
  <2> QED BY <2>1, <2>2
<1>7. \A o \in next : (keys[n] \intersect keys[o] # {}) => o \in DOMAIN targets
  BY <1>2
<1> HIDE DEF targets
<1>8. PICK i \in 1..Size(c) : k \in keys[members[c][i]]
  BY <1>1, Holder
<1> DEFINE h == members[c][i]
<1>9. h \in next /\ h \in Providers /\ k \in keys[h]
  BY <1>3, <1>8
<1>10. h \in DOMAIN targets /\ targets[h] \in keys[h] /\ targets[h] <= k /\ targets[h] \in Nat
  BY <1>6, <1>7, <1>9
<1>11. ASSUME NEW o \in DOMAIN targets, targets[o] <= k, o # h
       PROVE  targets[o] < targets[h]
  <2>1. PICK j \in 1..Size(c) : o = members[c][j]
    BY <1>4, <1>6
  <2>2. i \in Nat /\ j \in Nat /\ i # j
    BY <1>1, <1>11, <2>1, SizeType
  <2>3. targets[o] \in keys[members[c][j]] /\ targets[o] \in Nat /\ k \in Nat
    BY <1>1, <1>6, <2>1, ParamsType DEF Keys
  <2>4. ~(i < j)
    <3> SUFFICES ASSUME i < j PROVE FALSE
      OBVIOUS
    <3>1. k < targets[o]
      BY <1>1, <1>8, <2>3, Ascending
    <3> QED BY <1>11, <2>3, <3>1
  <2>5. j < i
    BY <2>2, <2>4
  <2> QED BY <1>1, <1>10, <2>3, <2>5, Ascending
<1> HIDE DEF h
<1>12. \A o \in DOMAIN targets : targets[o] <= k => targets[o] <= targets[h]
  BY <1>6, <1>10, <1>11
<1> DEFINE a == CHOOSE m \in DOMAIN targets :
                  targets[m] <= k /\ \A o \in DOMAIN targets : targets[o] <= k => targets[o] <= targets[m]
<1>13. a \in DOMAIN targets /\ targets[a] <= k /\ \A o \in DOMAIN targets : targets[o] <= k => targets[o] <= targets[a]
  BY <1>10, <1>12
<1>14. address[n][k] = a
  BY <1>5
<1> HIDE DEF a
<1>15. a = h
  <2> SUFFICES ASSUME a # h PROVE FALSE
    OBVIOUS
  <2>1. targets[a] < targets[h] /\ targets[h] <= targets[a] /\ targets[a] \in Nat
    BY <1>6, <1>10, <1>11, <1>13
  <2> QED BY <1>10, <2>1
<1>16. DOMAIN address[n] = keys[n]
  BY <1>5
<1> QED BY <1>9, <1>14, <1>15, <1>16 DEF c, next

-----------------------------------------------------------------------------
(* The fitness of an individual. *)

LEMMA RamType ==
  ASSUME NEW n \in Providers
  PROVE  Ram[n] \in Nat \ {0} /\ Bandwidth[n] \in Nat \ {0}
<1>1. /\ Ram \in Seq(Nat \ {0}) /\ Bandwidth \in Seq(Nat \ {0}) /\ Len(Ram) = Len(Bandwidth)
  BY FormationAssumption
<1>2. n \in 1..Len(Ram)
  BY ProvidersFinite
<1> QED BY <1>1, <1>2

LEMMA ClusterFinite ==
  ASSUME NEW individual, NEW c
  PROVE  IsFiniteSet(InCluster(individual, c)) /\ InCluster(individual, c) \in SUBSET Providers
<1>1. InCluster(individual, c) \in SUBSET Providers
  BY DEF InCluster
<1> QED BY <1>1, ProvidersFinite, FS_Subset

LEMMA SpeedNat ==
  ASSUME NEW individual, NEW c
  PROVE  SpeedOf(InCluster(individual, c)) \in Nat /\ RamOf(InCluster(individual, c)) \in Nat
<1> DEFINE f == [n \in Providers |-> Ram[n] \div Bandwidth[n]]
           S == InCluster(individual, c)
<1>1. IsFiniteSet(S) /\ S \in SUBSET Providers
  BY ClusterFinite
<1>2. \A n \in S : f[n] \in Nat /\ Ram[n] \in Nat
  <2> SUFFICES ASSUME NEW n \in S PROVE f[n] \in Nat /\ Ram[n] \in Nat
    OBVIOUS
  <2>1. n \in Providers /\ Ram[n] \in Nat \ {0} /\ Bandwidth[n] \in Nat \ {0}
    BY <1>1, RamType
  <2>2. Ram[n] \div Bandwidth[n] \in Nat
    BY <2>1
  <2> QED BY <2>1, <2>2
<1>3. SumOver(f, S) \in Nat /\ SumOver(Ram, S) \in Nat
  <2> HIDE DEF f, S
  <2> QED BY <1>1, <1>2, SumNat
<1> QED BY <1>3 DEF SpeedOf, RamOf

LEMMA FitnessNat ==
  ASSUME NEW individual \in Individuals
  PROVE  Fitness(individual) \in Nat
<1> DEFINE ids == {individual[n] : n \in Providers}
           ram(c) == RamOf(InCluster(individual, c))
           speed(c) == SpeedOf(InCluster(individual, c))
           lack == [c \in ids |-> IF ram(c) <= ModelSize THEN ModelSize - ram(c) ELSE 0]
           speeds == {speed(c) : c \in ids}
<1>1. Fitness(individual) = 100 * SumOver(lack, ids) + Max(speeds) - Min(speeds)
  BY DEF Fitness
<1>2. \A c : ram(c) \in Nat /\ speed(c) \in Nat
  BY SpeedNat
<1> HIDE DEF ram, speed
<1>3. IsFiniteSet(ids) /\ ids # {}
  <2>1. ids \in SUBSET (0..(MaxClusters - 1))
    BY DEF Individuals
  <2>2. IsFiniteSet(0..(MaxClusters - 1))
    <3>1. 0 \in Int /\ MaxClusters - 1 \in Int
      BY ParamsType
    <3> QED BY <3>1, FS_Interval
  <2>3. individual[1] \in ids
    BY ProvidersFinite
  <2> HIDE DEF ids
  <2> QED BY <2>1, <2>2, <2>3, FS_Subset
<1> HIDE DEF ids
<1>4. SumOver(lack, ids) \in Nat
  <2>1. \A c \in ids : lack[c] \in Nat
    BY <1>2, ParamsType
  <2> HIDE DEF lack
  <2> QED BY <1>3, <2>1, SumNat
<1>5. \E N \in Nat : \A c \in ids : speed(c) <= N
  <2> DEFINE B == {T \in SUBSET ids : \E N \in Nat : \A c \in T : speed(c) <= N}
  <2>1. \A T \in SUBSET ids : (\A x \in T : T \ {x} \in B) => T \in B
    <3> SUFFICES ASSUME NEW T \in SUBSET ids, \A x \in T : T \ {x} \in B
                 PROVE  \E N \in Nat : \A c \in T : speed(c) <= N
      OBVIOUS
    <3>1. CASE T = {}
      <4>1. 0 \in Nat
        OBVIOUS
      <4> QED BY <3>1, <4>1
    <3>2. CASE T # {}
      <4>1. PICK x : x \in T
        BY <3>2
      <4>2. PICK N \in Nat : \A c \in T \ {x} : speed(c) <= N
        BY <4>1
      <4>3. N + speed(x) \in Nat
        BY <1>2
      <4>4. \A c \in T : speed(c) <= N + speed(x)
        <5> SUFFICES ASSUME NEW c \in T PROVE speed(c) <= N + speed(x)
          OBVIOUS
        <5>1. speed(c) \in Nat /\ speed(x) \in Nat /\ (c = x \/ speed(c) <= N)
          BY <1>2, <4>2
        <5> QED BY <5>1
      <4> QED BY <4>3, <4>4
    <3> QED BY <3>1, <3>2
  <2>2. \A T \in SUBSET ids : T \in B
    <3> HIDE DEF B
    <3> QED BY <1>3, <2>1, ByRemoval
  <2>3. ids \in B
    <3> HIDE DEF B
    <3> QED BY <2>2
  <2> QED BY <2>3
<1>6. PICK N \in Nat : \A c \in ids : speed(c) <= N
  BY <1>5
<1>7. speeds # {} /\ speeds \subseteq 0..N /\ speeds \subseteq Nat
  BY <1>2, <1>3, <1>6
<1> HIDE DEF speeds
<1>8. Max(speeds) \in Nat /\ Min(speeds) \in Nat /\ Min(speeds) <= Max(speeds)
  BY <1>6, <1>7, MaxIsGreatest, MinIsLeast
<1> HIDE DEF lack
<1> QED BY <1>1, <1>4, <1>8

-----------------------------------------------------------------------------
(* Quotas. *)

Gifts(D) == [parts : [D -> Nat], rest : [D -> Nat]]

(* One unit is given to the largest remainder. *)
GiveStep(b) ==
  [parts |-> [b.parts EXCEPT ![Largest(b.rest)] = @ + 1],
   rest |-> [b.rest EXCEPT ![Largest(b.rest)] = 0]]

IsGiving(give, N, first) ==
  give = [m \in 0..N |-> IF m = 0 THEN first ELSE GiveStep(give[m - 1])]

LEMMA LargestIs ==
  ASSUME NEW L \in Nat \ {0}, NEW r \in [1..L -> Nat]
  PROVE  Largest(r) \in 1..L /\ \A j \in 1..L : r[j] <= r[Largest(r)]
<1> DEFINE S == {i \in 1..L : \A j \in 1..L : r[j] <= r[i]}
<1>1. S # {} /\ S \subseteq Nat
  <2>1. PICK i \in 1..L : \A j \in 1..L : r[j] <= r[i]
    BY LargestOf
  <2>2. i \in S
    BY <2>1
  <2>3. \A k \in S : k \in Nat
    OBVIOUS
  <2> HIDE DEF S
  <2> QED BY <2>2, <2>3
<1>2. Largest(r) = Min(S)
  BY DEF Largest
<1>3. Min(S) \in S
  <2> HIDE DEF S
  <2> QED BY <1>1, MinIsLeast
<1> QED BY <1>2, <1>3

LEMMA GiveStepType ==
  ASSUME NEW L \in Nat \ {0}, NEW b \in Gifts(1..L)
  PROVE  GiveStep(b) \in Gifts(1..L)
<1>1. b.parts \in [1..L -> Nat] /\ b.rest \in [1..L -> Nat]
  BY DEF Gifts
<1>2. Largest(b.rest) \in 1..L
  BY <1>1, LargestIs
<1>3. /\ [b.parts EXCEPT ![Largest(b.rest)] = @ + 1] \in [1..L -> Nat]
      /\ [b.rest EXCEPT ![Largest(b.rest)] = 0] \in [1..L -> Nat]
  BY <1>1, <1>2
<1> QED BY <1>3 DEF GiveStep, Gifts

LEMMA GivingExists ==
  ASSUME NEW L \in Nat \ {0}, NEW N \in Nat, NEW first \in Gifts(1..L)
  PROVE  \E give : IsGiving(give, N, first)
<1> DEFINE A == Gifts(1..L)
           s == [x \in (1..N) \X A |-> GiveStep(x[2])]
<1>1. s \in [(1..N) \X A -> A]
  BY GiveStepType
<1>2. PICK f : f \in [0..N -> A] /\ f[0] = first /\ \A k \in 1..N : f[k] = s[<<k, f[k - 1]>>]
  <2> HIDE DEF s
  <2>1. \E f : Recurs(f, N, A, first, s)
    BY <1>1, Recursion
  <2> QED BY <2>1 DEF Recurs
<1>3. ASSUME NEW k \in 0..N
      PROVE  f[k] = IF k = 0 THEN first ELSE GiveStep(f[k - 1])
  <2>1. CASE k = 0
    BY <1>2, <2>1
  <2>2. CASE k # 0
    <3>1. k \in 1..N /\ k - 1 \in 0..N
      BY <2>2
    <3>2. f[k - 1] \in A
      BY <1>2, <3>1
    <3> QED BY <1>2, <2>2, <3>1, <3>2
  <2> QED BY <2>1, <2>2
<1>4. IsGiving(f, N, first)
  BY <1>2, <1>3 DEF IsGiving
<1> QED BY <1>4

LEMMA PercentagesOfGiving ==
  ASSUME NEW rams, NEW h,
         LET total == FoldSeq(+, 0, rams)
             floor == [i \in DOMAIN rams |-> (100 * rams[i]) \div total]
             rest == [i \in DOMAIN rams |-> (100 * rams[i]) % total]
         IN IsGiving(h, 100 - FoldSeq(+, 0, floor), [parts |-> floor, rest |-> rest])
  PROVE  LET total == FoldSeq(+, 0, rams)
             floor == [i \in DOMAIN rams |-> (100 * rams[i]) \div total]
             rest == [i \in DOMAIN rams |-> (100 * rams[i]) % total]
             missing == 100 - FoldSeq(+, 0, floor)
         IN \E give : IsGiving(give, missing, [parts |-> floor, rest |-> rest])
                      /\ RoundPercentages(rams) = give[missing].parts
BY DEF RoundPercentages, IsGiving, GiveStep

(* After m units are given: nobody has got two, and the remainders are     *)
(* enough for those that are still missing.                                *)
GiveInv(L, total, floor, missing, m, b) ==
  /\ b \in Gifts(1..L)
  /\ SumOver(b.parts, 1..L) = SumOver(floor, 1..L) + m
  /\ SumOver(b.rest, 1..L) >= total * (missing - m)
  /\ \A i \in 1..L : /\ b.rest[i] < total
                     /\ \/ b.parts[i] = floor[i]
                        \/ b.parts[i] = floor[i] + 1 /\ b.rest[i] = 0

LEMMA GiveKeeps ==
  ASSUME NEW L \in Nat \ {0}, NEW total \in Nat \ {0}, NEW floor \in [1..L -> Nat],
         NEW missing \in Nat, NEW m \in Nat, m < missing,
         NEW b, GiveInv(L, total, floor, missing, m, b)
  PROVE  GiveInv(L, total, floor, missing, m + 1, GiveStep(b))
<1> DEFINE D == 1..L
           z == Largest(b.rest)
           c == GiveStep(b)
           sf == SumOver(floor, D)
           sp == SumOver(b.parts, D)
           sr == SumOver(b.rest, D)
           tp == SumOver(c.parts, D)
           tr == SumOver(c.rest, D)
<1>1. /\ b \in Gifts(D) /\ b.parts \in [D -> Nat] /\ b.rest \in [D -> Nat]
      /\ IsFiniteSet(D) /\ Cardinality(D) = L
  BY RangeFinite DEF GiveInv, Gifts
<1>2. z \in D /\ \A j \in D : b.rest[j] <= b.rest[z]
  BY <1>1, LargestIs
<1>3. c \in Gifts(D) /\ c.parts \in [D -> Nat] /\ c.rest \in [D -> Nat]
  BY <1>1, GiveStepType DEF Gifts
<1>4. c.parts = [b.parts EXCEPT ![z] = @ + 1] /\ c.rest = [b.rest EXCEPT ![z] = 0]
  BY DEF GiveStep
<1> HIDE DEF c, z, D
<1>5. sp = sf + m /\ sr >= total * (missing - m)
  BY DEF GiveInv, D
<1> DEFINE bp == b.parts
           br == b.rest
           cp == c.parts
           cr == c.rest
<1>0. \A x \in D : /\ bp[x] \in Int /\ br[x] \in Int /\ cp[x] \in Int /\ cr[x] \in Int
                   /\ floor[x] \in Int
  <2>1. /\ bp \in [D -> Nat] /\ br \in [D -> Nat] /\ cp \in [D -> Nat] /\ cr \in [D -> Nat]
        /\ floor \in [D -> Nat]
    BY <1>1, <1>3 DEF D
  <2> HIDE DEF bp, br, cp, cr
  <2> QED BY <2>1
<1>6. sp \in Int /\ sr \in Int /\ tp \in Int /\ tr \in Int /\ sf \in Int
  <2> HIDE DEF bp, br, cp, cr
  <2>1. /\ SumOver(bp, D) \in Int /\ SumOver(br, D) \in Int /\ SumOver(cp, D) \in Int
        /\ SumOver(cr, D) \in Int /\ SumOver(floor, D) \in Int
    BY <1>0, <1>1, SumInt
  <2> QED BY <2>1 DEF bp, br, cp, cr
<1>7. tp - c.parts[z] = sp - b.parts[z]
  <2>1. \A x \in D : x # z => cp[x] = bp[x]
    BY <1>1, <1>4
  <2> HIDE DEF bp, cp
  <2>2. SumOver(cp, D) - cp[z] = SumOver(bp, D) - bp[z]
    BY <1>0, <1>1, <1>2, <2>1, SumChange
  <2> QED BY <2>2 DEF bp, cp
<1>8. tr - c.rest[z] = sr - b.rest[z]
  <2>1. \A x \in D : x # z => cr[x] = br[x]
    BY <1>1, <1>4
  <2> HIDE DEF br, cr
  <2>2. SumOver(cr, D) - cr[z] = SumOver(br, D) - br[z]
    BY <1>0, <1>1, <1>2, <2>1, SumChange
  <2> QED BY <2>2 DEF br, cr
<1>9. c.parts[z] = b.parts[z] + 1 /\ c.rest[z] = 0 /\ b.parts[z] \in Nat /\ b.rest[z] \in Nat
  BY <1>1, <1>2, <1>4
<1>10. b.rest[z] < total /\ (b.parts[z] = floor[z] \/ (b.parts[z] = floor[z] + 1 /\ b.rest[z] = 0))
  BY <1>2 DEF GiveInv, D
<1> HIDE DEF sf, sp, sr, tp, tr, bp, br, cp, cr
<1>11. tp = sf + (m + 1)
  BY <1>5, <1>6, <1>7, <1>9
<1>12. tr >= total * (missing - (m + 1))
  <2> DEFINE now == total * (missing - m)
             then == total * (missing - (m + 1))
  <2>1. now = then + total /\ now \in Int /\ then \in Int
    <3>1. missing - m = (missing - (m + 1)) + 1
      OBVIOUS
    <3>2. now = then + total * 1
      BY <3>1, Distribute
    <3> QED BY <3>2
  <2> HIDE DEF now, then
  <2>2. sr >= now
    BY <1>5 DEF now
  <2>3. tr >= then
    BY <1>6, <1>8, <1>9, <1>10, <2>1, <2>2
  <2> QED BY <2>3 DEF then
<1>13. b.rest[z] > 0
  <2> SUFFICES ASSUME ~(b.rest[z] > 0) PROVE FALSE
    OBVIOUS
  <2>1. \A x \in D : b.rest[x] \in Int /\ b.rest[x] <= 0
    BY <1>1, <1>2, <1>9
  <2>2. sr <= 0 * Cardinality(D)
    BY <1>1, <2>1, SumBound DEF sr
  <2>3. sr <= 0
    BY <1>1, <2>2
  <2>4. total * 1 <= total * (missing - m)
    <3>1. 1 <= missing - m
      OBVIOUS
    <3> QED BY <3>1, Monotone
  <2> DEFINE now == total * (missing - m)
  <2>5. now \in Int /\ total <= now /\ sr >= now
    BY <1>5, <2>4
  <2> HIDE DEF now
  <2> QED BY <1>6, <2>3, <2>5
<1>14. ASSUME NEW i \in D
       PROVE  /\ c.rest[i] < total
              /\ \/ c.parts[i] = floor[i]
                 \/ c.parts[i] = floor[i] + 1 /\ c.rest[i] = 0
  <2>1. CASE i = z
    BY <1>9, <1>10, <1>13, <2>1
  <2>2. CASE i # z
    <3>1. c.rest[i] = b.rest[i] /\ c.parts[i] = b.parts[i]
      BY <1>1, <1>4, <2>2
    <3> QED BY <3>1 DEF GiveInv, D
  <2> QED BY <2>1, <2>2
<1> QED BY <1>3, <1>11, <1>12, <1>14 DEF GiveInv, sf, tp, tr, D, c

(* Percentages for the memories rams: they add up to 100, and none is more *)
(* than one above its share.                                               *)
ArePercentages(parts, rams, L) ==
  /\ SumOver(rams, 1..L) \in Nat \ {0}
  /\ parts \in [1..L -> Nat] /\ SumOver(parts, 1..L) = 100
  /\ \A i \in 1..L : SumOver(rams, 1..L) * parts[i] <= 100 * rams[i] + SumOver(rams, 1..L)

LEMMA RoundedPercentages ==
  ASSUME NEW rams \in Seq(Nat \ {0}), Len(rams) > 0
  PROVE  ArePercentages(RoundPercentages(rams), rams, Len(rams))
<1> DEFINE L == Len(rams)
           D == 1..L
           total == SumOver(rams, D)
           floor == [i \in D |-> (100 * rams[i]) \div total]
           rest == [i \in D |-> (100 * rams[i]) % total]
           F == SumOver(floor, D)
           R == SumOver(rest, D)
           missing == 100 - F
           first == [parts |-> floor, rest |-> rest]
<1>1. /\ L \in Nat \ {0} /\ DOMAIN rams = D /\ IsFiniteSet(D) /\ Cardinality(D) = L /\ 1 \in D
      /\ \A i \in D : rams[i] \in Nat \ {0}
  BY RangeFinite
<1>2. total \in Nat \ {0}
  <2>1. SumOver(rams, D) = rams[1] + SumOver(rams, D \ {1})
    <3>1. IsFiniteSet(D) /\ 1 \in D /\ \A x \in D : rams[x] \in Int
      BY <1>1
    <3> HIDE DEF D
    <3> QED BY <3>1, SumRemove
  <2>2. SumOver(rams, D \ {1}) \in Nat
    <3>1. IsFiniteSet(D \ {1}) /\ \A i \in D \ {1} : rams[i] \in Nat
      BY <1>1, FS_RemoveElement
    <3> HIDE DEF D
    <3> QED BY <3>1, SumNat
  <2>3. rams[1] \in Nat \ {0}
    BY <1>1
  <2> HIDE DEF D
  <2> QED BY <2>1, <2>2, <2>3
<1> HIDE DEF L, D, total
<1>3. \A i \in D : /\ floor[i] \in Nat /\ rest[i] \in Nat /\ rest[i] < total
                   /\ 100 * rams[i] = total * floor[i] + rest[i]
  <2> SUFFICES ASSUME NEW i \in D
               PROVE  /\ floor[i] \in Nat /\ rest[i] \in Nat /\ rest[i] < total
                      /\ 100 * rams[i] = total * floor[i] + rest[i]
    OBVIOUS
  <2>1. 100 * rams[i] \in Nat
    BY <1>1
  <2>2. floor[i] = (100 * rams[i]) \div total /\ rest[i] = (100 * rams[i]) % total
    OBVIOUS
  <2> DEFINE a == 100 * rams[i]
  <2> HIDE DEF a, floor, rest
  <2>3. a \in Nat /\ floor[i] = a \div total /\ rest[i] = a % total
    BY <2>1, <2>2 DEF a
  <2>4. /\ a \div total \in Nat /\ a % total \in Nat /\ a % total < total
        /\ a = total * (a \div total) + (a % total)
    BY <1>2, <2>3, DivMod
  <2>5. /\ floor[i] \in Nat /\ rest[i] \in Nat /\ rest[i] < total
        /\ a = total * floor[i] + rest[i]
    BY <2>3, <2>4
  <2> QED BY <2>5 DEF a
<1>4. floor \in [D -> Nat] /\ rest \in [D -> Nat]
  BY <1>3
<1> HIDE DEF floor, rest
<1>5. 100 * total = total * F + R /\ F \in Nat /\ R \in Nat
  <2>1. \A i \in D : rams[i] \in Int /\ floor[i] \in Int /\ rest[i] \in Int
    BY <1>1, <1>3
  <2>2. 100 * SumOver(rams, D) = total * SumOver(floor, D) + SumOver(rest, D)
    BY <1>1, <1>2, <1>3, <2>1, SumLinear
  <2>3. F \in Nat /\ R \in Nat
    BY <1>1, <1>3, SumNat
  <2> QED BY <2>2, <2>3 DEF total
<1> HIDE DEF F, R
<1>6. missing \in Nat /\ F + missing = 100 /\ R = total * missing
  <2>1. total * F <= total * 100
    <3> DEFINE p == total * F
    <3>1. p \in Int /\ 100 * total = p + R /\ total * 100 = 100 * total
      BY <1>2, <1>5
    <3> HIDE DEF p
    <3>2. p <= 100 * total
      BY <1>2, <1>5, <3>1
    <3> QED BY <3>1, <3>2 DEF p
  <2>2. F <= 100
    BY <1>2, <1>5, <2>1, Cancel
  <2>3. missing \in Nat /\ F + missing = 100
    BY <1>5, <2>2
  <2> HIDE DEF missing
  <2>4. total * (F + missing) = total * F + total * missing
    BY <1>2, <1>5, <2>3, Distribute
  <2> DEFINE p == total * F
             q == total * missing
  <2>5. p \in Int /\ q \in Int /\ p + q = total * 100 /\ 100 * total = p + R /\ total * 100 = 100 * total
    BY <1>2, <1>5, <2>3, <2>4
  <2> HIDE DEF p, q
  <2>6. R = q
    BY <1>2, <1>5, <2>5
  <2> QED BY <2>3, <2>6 DEF q
<1> HIDE DEF missing
<1>7. first \in Gifts(1..L) /\ first.parts = floor /\ first.rest = rest
  BY <1>4 DEF Gifts, D
<1> HIDE DEF first
<1>8. PICK give : IsGiving(give, missing, first) /\ RoundPercentages(rams) = give[missing].parts
  <2>1. \E h : IsGiving(h, missing, first)
    BY <1>1, <1>6, <1>7, GivingExists
  <2>2. /\ FoldSeq(+, 0, rams) = total /\ FoldSeq(+, 0, floor) = F
        /\ floor = [i \in DOMAIN rams |-> (100 * rams[i]) \div total]
        /\ rest = [i \in DOMAIN rams |-> (100 * rams[i]) % total]
    <3>1. DOMAIN floor = D
      BY <1>4
    <3>2. FoldSeq(+, 0, rams) = total /\ FoldSeq(+, 0, floor) = F
      BY <1>1, <3>1, FoldSeqIsSum DEF total, F
    <3> QED BY <1>1, <3>2 DEF floor, rest
  <2>3. ASSUME NEW h, IsGiving(h, missing, first)
        PROVE  \E give : IsGiving(give, missing, first) /\ RoundPercentages(rams) = give[missing].parts
    <3> DEFINE T == FoldSeq(+, 0, rams)
               fl == [i \in DOMAIN rams |-> (100 * rams[i]) \div T]
               re == [i \in DOMAIN rams |-> (100 * rams[i]) % T]
               mi == 100 - FoldSeq(+, 0, fl)
    <3>1. T = total /\ fl = floor /\ re = rest
      BY <2>2
    <3>2. missing = mi /\ first = [parts |-> fl, rest |-> re]
      BY <2>2, <3>1 DEF missing, first
    <3>3. IsGiving(h, mi, [parts |-> fl, rest |-> re])
      BY <2>3, <3>2
    <3>4. \E give : IsGiving(give, mi, [parts |-> fl, rest |-> re])
                    /\ RoundPercentages(rams) = give[mi].parts
      BY <3>3, PercentagesOfGiving
    <3> HIDE DEF T, fl, re, mi
    <3> QED BY <3>2, <3>4
  <2> QED BY <2>1, <2>3
<1> DEFINE Bad == {m \in 0..missing : ~GiveInv(L, total, floor, missing, m, give[m])}
<1>9. Bad = {}
  <2> SUFFICES ASSUME Bad # {} PROVE FALSE
    OBVIOUS
  <2>1. PICK m \in Bad : \A j \in Bad : m <= j
    <3>1. Bad \subseteq Nat
      BY <1>6
    <3> HIDE DEF Bad
    <3> QED BY <3>1, Least
  <2>2. m \in 0..missing /\ ~GiveInv(L, total, floor, missing, m, give[m])
    BY <2>1
  <2>3. m # 0
    <3>1. give[0] = first
      BY <1>6, <1>8 DEF IsGiving
    <3>2. /\ SumOver(give[0].parts, 1..L) = F /\ SumOver(give[0].rest, 1..L) = R
          /\ give[0] \in Gifts(1..L) /\ give[0].parts = floor /\ give[0].rest = rest
      BY <1>7, <3>1 DEF F, R, D
    <3>3. \A i \in 1..L : give[0].rest[i] < total /\ give[0].parts[i] = floor[i]
      BY <1>3, <3>2 DEF D
    <3>4. R >= total * (missing - 0) /\ F = SumOver(floor, 1..L) + 0
      <4>1. missing - 0 = missing /\ F + 0 = F /\ R \in Int
        BY <1>5, <1>6
      <4> QED BY <1>6, <4>1 DEF F, D
    <3>5. GiveInv(L, total, floor, missing, 0, give[0])
      BY <3>2, <3>3, <3>4 DEF GiveInv
    <3> QED BY <2>2, <3>5
  <2>4. m - 1 \in 0..missing /\ m - 1 \in Nat /\ m - 1 < missing /\ (m - 1) + 1 = m /\ ~(m <= m - 1)
    BY <1>6, <2>2, <2>3
  <2>5. m - 1 \notin Bad
    <3> HIDE DEF Bad
    <3> QED BY <2>1, <2>4
  <2>6. GiveInv(L, total, floor, missing, m - 1, give[m - 1])
    BY <2>4, <2>5
  <2>7. give[m] = GiveStep(give[m - 1])
    BY <1>8, <2>2, <2>3 DEF IsGiving
  <2>8. floor \in [1..L -> Nat]
    BY <1>4 DEF D
  <2>9. GiveInv(L, total, floor, missing, (m - 1) + 1, GiveStep(give[m - 1]))
    <3> DEFINE n == m - 1
    <3>1. n \in Nat /\ n < missing /\ GiveInv(L, total, floor, missing, n, give[n])
      BY <2>4, <2>6
    <3> HIDE DEF n
    <3> DEFINE b == give[n]
    <3> HIDE DEF b
    <3>2. GiveInv(L, total, floor, missing, n, b) /\ n \in Nat /\ n < missing
      BY <3>1 DEF b
    <3>3. L \in Nat \ {0} /\ total \in Nat \ {0} /\ missing \in Nat
      BY <1>1, <1>2, <1>6
    <3>4. GiveInv(L, total, floor, missing, n + 1, GiveStep(b))
      BY <2>8, <3>2, <3>3, GiveKeeps
    <3>5. GiveInv(L, total, floor, missing, n + 1, GiveStep(give[n]))
      BY <3>4 DEF b
    <3> QED BY <3>5 DEF n
  <2> QED BY <2>2, <2>4, <2>7, <2>9
<1>10. GiveInv(L, total, floor, missing, missing, give[missing])
  BY <1>6, <1>9
<1> DEFINE parts == give[missing].parts
<1>11. parts \in [1..L -> Nat] /\ SumOver(parts, 1..L) = 100
  BY <1>6, <1>10 DEF GiveInv, Gifts, F, D
<1>12. ASSUME NEW i \in 1..L
       PROVE  total * parts[i] <= 100 * rams[i] + total
  <2>1. parts[i] \in Nat /\ floor[i] \in Nat /\ parts[i] <= floor[i] + 1
    <3>1. parts[i] \in Nat
      <4> HIDE DEF parts, Bad
      <4> QED BY <1>11
    <3>2. floor[i] \in Nat
      BY <1>3 DEF D
    <3>3. parts[i] = floor[i] \/ parts[i] = floor[i] + 1
      BY <1>10 DEF GiveInv
    <3> HIDE DEF parts
    <3> QED BY <3>1, <3>2, <3>3
  <2>2. total * parts[i] <= total * (floor[i] + 1)
    <3> DEFINE b == parts[i]
               c == floor[i] + 1
    <3>1. b \in Int /\ c \in Int /\ b <= c /\ total \in Nat
      <4> HIDE DEF parts
      <4> QED BY <1>2, <2>1
    <3> HIDE DEF b, c
    <3>2. total * b <= total * c
      BY <3>1, Monotone
    <3> QED BY <3>2 DEF b, c
  <2>3. total * (floor[i] + 1) = total * floor[i] + total * 1
    BY <1>2, <2>1, Distribute
  <2>4. 100 * rams[i] = total * floor[i] + rest[i] /\ rest[i] \in Nat
    BY <1>3 DEF D
  <2> DEFINE p == total * floor[i]
             q == total * parts[i]
             s == 100 * rams[i]
  <2>5. /\ p \in Int /\ q \in Int /\ s \in Int /\ total * 1 = total
        /\ q <= p + total /\ s = p + rest[i]
    <3>1. s \in Int
      BY <1>1 DEF D
    <3>2. p \in Int /\ q \in Int /\ total * 1 = total
      BY <1>2, <2>1
    <3>3. s = p + rest[i]
      BY <2>4
    <3>4. q <= p + total * 1
      BY <2>2, <2>3
    <3> QED BY <3>1, <3>2, <3>3, <3>4
  <2> HIDE DEF p, q, s
  <2>6. q <= s + total
    BY <1>2, <2>4, <2>5
  <2> QED BY <2>6 DEF q, s
<1> HIDE DEF parts
<1>13. /\ total \in Nat \ {0}
       /\ RoundPercentages(rams) \in [1..L -> Nat] /\ SumOver(RoundPercentages(rams), 1..L) = 100
       /\ \A i \in 1..L : total * RoundPercentages(rams)[i] <= 100 * rams[i] + total
  BY <1>2, <1>8, <1>11, <1>12 DEF parts
<1> QED BY <1>13 DEF total, D, L, ArePercentages

-----------------------------------------------------------------------------
(* The quotas of a cluster. *)

(* Fewer units than providers are left over: each of the first providers   *)
(* gets one.                                                               *)
Share(i, L, N) == Cardinality({u \in 0..(N - 1) : u % L = i - 1})

LEMMA HandedOut ==
  ASSUME NEW L \in Nat \ {0}, NEW N \in Nat, N < L, NEW i \in 1..L
  PROVE  Share(i, L, N) = IF i <= N THEN 1 ELSE 0
<1> DEFINE U == {u \in 0..(N - 1) : u % L = i - 1}
<1>1. \A u \in 0..(N - 1) : u % L = u
  <2> SUFFICES ASSUME NEW u \in 0..(N - 1) PROVE u % L = u
    OBVIOUS
  <2>1. u \in Nat /\ u < L
    OBVIOUS
  <2> DEFINE q == u \div L
             r == u % L
             p == L * q
  <2>2. q \in Nat /\ r \in Nat /\ r < L /\ u = p + r
    BY <2>1, DivMod
  <2>3. p \in Int
    BY <2>2
  <2>4. q = 0
    <3> SUFFICES ASSUME q # 0 PROVE FALSE
      OBVIOUS
    <3> HIDE DEF q, r
    <3>1. 1 <= q
      BY <2>2
    <3>2. L * 1 <= p
      BY <2>2, <3>1, Monotone
    <3> HIDE DEF p
    <3> QED BY <2>1, <2>2, <2>3, <3>2
  <2>5. p = 0
    BY <2>4
  <2> HIDE DEF p, r, q
  <2> QED BY <2>2, <2>5 DEF r
<1>2. CASE i <= N
  <2>1. U = {i - 1}
    BY <1>1, <1>2
  <2> QED BY <1>2, <2>1, FS_Singleton DEF Share
<1>3. CASE ~(i <= N)
  <2>1. U = {}
    BY <1>1, <1>3
  <2> QED BY <1>3, <2>1, FS_EmptySet DEF Share
<1> QED BY <1>2, <1>3

(* What calculate_split_percentages makes of the percentages P. *)
SplitsOf(P) ==
  LET floor == [i \in DOMAIN P |-> (ModelSize * P[i]) \div 100]
      missing == ModelSize - FoldSeq(+, 0, floor)
  IN [i \in DOMAIN P |-> floor[i] + Share(i, Len(P), missing)]

(* Quotas S for percentages P. *)
AreQuotas(S, P, L) ==
  /\ S \in [1..L -> Int] /\ SumOver(S, 1..L) = ModelSize
  /\ \A i \in 1..L : 100 * (S[i] - 1) <= ModelSize * P[i]

LEMMA SplitsOfParts ==
  ASSUME NEW L \in Nat \ {0}, NEW P \in [1..L -> Nat], SumOver(P, 1..L) = 100
  PROVE  AreQuotas(SplitsOf(P), P, L)
<1> DEFINE D == 1..L
           floor == [i \in DOMAIN P |-> (ModelSize * P[i]) \div 100]
           rest == [i \in D |-> (ModelSize * P[i]) % 100]
           F == SumOver(floor, D)
           R == SumOver(rest, D)
           missing == ModelSize - F
           ones == [i \in D |-> IF i <= missing THEN 1 ELSE 0]
           splits == [i \in D |-> floor[i] + ones[i]]
           left == ModelSize - FoldSeq(+, 0, floor)
<1>1. /\ IsFiniteSet(D) /\ Cardinality(D) = L /\ ModelSize \in Nat \ {0} /\ \A i \in D : P[i] \in Nat
      /\ DOMAIN P = D /\ Len(P) = L
  <2>1. P \in Seq(Nat)
    OBVIOUS
  <2> QED BY <2>1, RangeFinite, ParamsType
<1>0. SplitsOf(P) = [i \in DOMAIN P |-> floor[i] + Share(i, Len(P), left)]
  BY DEF SplitsOf
<1>2. SumOver(P, D) = 100
  OBVIOUS
<1> HIDE DEF D
<1>3. \A i \in D : /\ floor[i] \in Nat /\ rest[i] \in Nat /\ rest[i] <= 99
                   /\ ModelSize * P[i] = 100 * floor[i] + rest[i]
  <2> SUFFICES ASSUME NEW i \in D
               PROVE  /\ floor[i] \in Nat /\ rest[i] \in Nat /\ rest[i] <= 99
                      /\ ModelSize * P[i] = 100 * floor[i] + rest[i]
    OBVIOUS
  <2> DEFINE a == ModelSize * P[i]
  <2>1. a \in Nat
    BY <1>1
  <2>2. floor[i] = a \div 100 /\ rest[i] = a % 100
    BY <1>1
  <2> HIDE DEF a, floor, rest
  <2>3. /\ floor[i] \in Nat /\ rest[i] \in Nat /\ rest[i] <= 99
        /\ a = 100 * floor[i] + rest[i]
    BY <2>1, <2>2
  <2> QED BY <2>3 DEF a
<1>4. DOMAIN floor = D
  BY <1>1
<1> HIDE DEF floor, rest
<1>5. F \in Nat /\ R \in Nat /\ R <= 99 * L /\ ModelSize * 100 = 100 * F + R
  <2>1. \A i \in D : /\ P[i] \in Int /\ floor[i] \in Int /\ rest[i] \in Int /\ ModelSize * P[i] = 100 * floor[i] + rest[i]
    BY <1>1, <1>3
  <2>2. ModelSize * SumOver(P, D) = 100 * SumOver(floor, D) + SumOver(rest, D)
    <3>1. IsFiniteSet(D) /\ ModelSize \in Int
      BY <1>1
    <3> HIDE DEF R, F
    <3> QED BY <2>1, <3>1, SumLinear
  <2>3. R <= 99 * Cardinality(D)
    BY <1>1, <1>3, <2>1, SumBound
  <2>4. F \in Nat /\ R \in Nat
    BY <1>1, <1>3, SumNat
  <2> QED BY <1>1, <1>2, <2>2, <2>3, <2>4
<1> HIDE DEF F, R
<1>6. missing \in Nat /\ missing < L /\ missing \in 0..L /\ ModelSize = F + missing
  BY <1>1, <1>5
<1>7. missing = left
  BY <1>4, FoldSeqIsSum DEF F
<1> HIDE DEF missing, left
<1>8. \A i \in D : ones[i] \in {0, 1}
  OBVIOUS
<1>9. SumOver(ones, D) = missing
  BY <1>6, FirstOnes DEF D
<1>10. SplitsOf(P) = splits
  <2>1. \A i \in D : Share(i, L, missing) = ones[i]
    <3> SUFFICES ASSUME NEW i \in D PROVE Share(i, L, missing) = ones[i]
      OBVIOUS
    <3>1. Share(i, L, missing) = IF i <= missing THEN 1 ELSE 0
      BY <1>6, HandedOut DEF D
    <3> QED BY <3>1
  <2> HIDE DEF ones
  <2>2. DOMAIN SplitsOf(P) = D /\ SplitsOf(P) = [i \in D |-> SplitsOf(P)[i]]
    BY <1>0, <1>1
  <2>3. \A i \in D : SplitsOf(P)[i] = floor[i] + Share(i, Len(P), left)
    BY <1>0, <1>1
  <2>4. \A i \in D : SplitsOf(P)[i] = floor[i] + ones[i]
    BY <1>1, <1>7, <2>1, <2>3
  <2> QED BY <2>2, <2>4
<1> HIDE DEF ones
<1>11. \A i \in D : splits[i] = floor[i] + ones[i] /\ splits[i] \in Int
  BY <1>3, <1>8
<1>12. DOMAIN splits = D
  OBVIOUS
<1>13. splits \in [D -> Int]
  BY <1>11
<1> HIDE DEF splits
<1>14. SumOver(splits, D) = ModelSize
  <2>1. \A i \in D : /\ splits[i] \in Int /\ floor[i] \in Int /\ ones[i] \in Int /\ 1 * splits[i] = 1 * floor[i] + ones[i]
    BY <1>3, <1>8, <1>11
  <2>2. 1 * SumOver(splits, D) = 1 * SumOver(floor, D) + SumOver(ones, D)
    BY <1>1, <2>1, SumLinear
  <2>3. SumOver(splits, D) \in Int
    BY <1>1, <2>1, SumInt
  <2> QED BY <1>5, <1>6, <1>9, <2>2, <2>3 DEF F
<1>15. ASSUME NEW i \in D
       PROVE  100 * (splits[i] - 1) <= ModelSize * P[i]
  <2>1. splits[i] - 1 <= floor[i] /\ splits[i] \in Int
    BY <1>3, <1>8, <1>11
  <2> DEFINE q == ModelSize * P[i]
  <2>2. q = 100 * floor[i] + rest[i] /\ floor[i] \in Nat /\ rest[i] \in Nat
    BY <1>3
  <2> HIDE DEF q
  <2>3. 100 * (splits[i] - 1) <= q
    BY <2>1, <2>2
  <2> QED BY <2>3 DEF q
<1> QED BY <1>10, <1>13, <1>14, <1>15 DEF D, AreQuotas

-----------------------------------------------------------------------------
(* The invariant. *)

FormationInv ==
  /\ stage \in {"search", "cut", "formed", "failed"}
  /\ best \in Individuals \union {NoIndividual}
  /\ bestFitness \in 0..WorstFitness
  /\ members \in Seq(Seq(Providers))
  /\ stage \in {"cut", "formed"} => Groups(members)
  /\ stage = "formed" => Formed

LEMMA InitiallyNoClusters == FormationInit => FormationInv
<1> SUFFICES ASSUME FormationInit PROVE FormationInv
  OBVIOUS
<1>1. stage \in {"search", "failed"} /\ best = NoIndividual /\ bestFitness = WorstFitness /\ members = <<>>
  BY DEF FormationInit
<1>2. <<>> \in Seq(Seq(Providers)) /\ WorstFitness \in 0..WorstFitness
  BY ParamsType
<1> QED BY <1>1, <1>2 DEF FormationInv

LEMMA FormGroups ==
  ASSUME FormationInv, Form
  PROVE  FormationInv'
<1>1. /\ best' = NoIndividual /\ bestFitness' = 0 /\ stage' \in {"cut", "failed"}
      /\ stage' # "cut" => members' = members
  BY DEF Form
<1>2. stage' = "cut" => Groups(members)'
  <2> SUFFICES ASSUME stage' = "cut" PROVE Groups(members)'
    OBVIOUS
  <2>1. best \in Individuals /\ members' = Decode(best)
    BY DEF Form, FormationInv
  <2>2. Groups(Decode(best))
    BY <2>1, DecodeGroups
  <2> QED BY <2>1, <2>2 DEF Groups
<1>3. members' \in Seq(Seq(Providers)) /\ 0 \in 0..WorstFitness
  BY <1>1, <1>2, ParamsType DEF FormationInv, Groups
<1> QED BY <1>1, <1>2, <1>3 DEF FormationInv

(* What the choice of sizes and of the clusters with other proportions     *)
(* makes of the submodels.                                                 *)
Tenths(remade, c) == IF c \in remade THEN Remade(Proportions(Len(members[c])))
                     ELSE Proportions(Len(members[c]))

LEMMA CutForms ==
  ASSUME FormationInv, CutModel
  PROVE  FormationInv'
<1>1. /\ stage = "cut" /\ members' = members /\ best' = best /\ bestFitness' = bestFitness /\ Groups(members)
      /\ stage' \in {"formed", "failed"}
  BY DEF CutModel, FormationInv, formationVars
<1>2. stage' = "formed" => Formed'
  <2> SUFFICES ASSUME stage' = "formed" PROVE Formed'
    OBVIOUS
  <2>1. PICK sizes \in Models, remade \in SUBSET DOMAIN members :
          LET tenths(c) == Tenths(remade, c)
              ends == [c \in DOMAIN members |-> Ends(sizes, tenths(c))]
              own(n) == LET c == ClusterOf(n)
                        IN Submodel(ends[c], Len(members[c]), Position(n, members[c]))
              enough == \A c \in DOMAIN members : Len(ends[c]) >= Len(members[c]) - 1
              K == [n \in Providers |-> IF enough THEN own(n) ELSE {}]
          IN /\ enough /\ \A n \in Range(members[MaxCluster]) : K[n] # {}
             /\ keys' = K
             /\ ringKeys' = [n \in Providers |-> RingParamKeys(K[n], RingIds(K, n))]
             /\ address' = [n \in Providers |-> ParamAddressMapping(K[n], AddressToParam(K, n))]
    BY DEF CutModel, Tenths
  <2> DEFINE ends == [c \in DOMAIN members |-> Ends(sizes, Tenths(remade, c))]
             own(n) == Submodel(ends[ClusterOf(n)], Len(members[ClusterOf(n)]), Position(n, members[ClusterOf(n)]))
             enough == \A c \in DOMAIN members : Len(ends[c]) >= Len(members[c]) - 1
             K == [n \in Providers |-> IF enough THEN own(n) ELSE {}]
  <2>2. PICK e : e = ends
    OBVIOUS
  <2>3. /\ \A c \in DOMAIN members : Len(e[c]) >= Len(members[c]) - 1
        /\ keys' = [n \in Providers |->
                      Submodel(e[ClusterOf(n)], Len(members[ClusterOf(n)]), Position(n, members[ClusterOf(n)]))]
        /\ \A n \in Range(members[MaxCluster]) : keys'[n] # {}
        /\ ringKeys' = [n \in Providers |-> RingParamKeys(keys'[n], RingIds(keys', n))]
        /\ address' = [n \in Providers |-> ParamAddressMapping(keys'[n], AddressToParam(keys', n))]
    <3>1. /\ enough /\ \A n \in Range(members[MaxCluster]) : K[n] # {}
          /\ keys' = K
          /\ ringKeys' = [n \in Providers |-> RingParamKeys(K[n], RingIds(K, n))]
          /\ address' = [n \in Providers |-> ParamAddressMapping(K[n], AddressToParam(K, n))]
      BY <2>1
    <3>2. K = [n \in Providers |-> own(n)]
      BY <3>1
    <3>3. K = [n \in Providers |->
                 Submodel(e[ClusterOf(n)], Len(members[ClusterOf(n)]), Position(n, members[ClusterOf(n)]))]
      BY <2>2, <3>2
    <3>4. \A c \in DOMAIN members : Len(e[c]) >= Len(members[c]) - 1
      BY <2>2, <3>1
    <3> HIDE DEF K
    <3> QED BY <3>1, <3>3, <3>4
  <2>4. ASSUME NEW c \in DOMAIN members
        PROVE  Cuts(e[c], Size(c))
    <3>1. sizes \in [Keys -> Nat \ {0}]
      BY ParamsType
    <3>2. e[c] \in Seq(Keys) /\ \A i, j \in DOMAIN e[c] : i < j => e[c][i] < e[c][j]
      BY <2>2, <3>1, EndsIncrease
    <3> QED BY <1>1, <2>3, <3>2, SizeType DEF Cuts, Size
  <2>5. /\ \A c : ClusterOf(c)' = ClusterOf(c)
        /\ \A c : Size(c)' = Size(c)
        /\ MaxCluster' = MaxCluster
    BY <1>1 DEF ClusterOf, Size, MaxCluster
  <2>6. \A n : (RingIds(keys, n))' = RingIds(keys', n)
    BY <1>1, <2>5 DEF RingIds, ParamToRing
  <2>7. \A n : (AddressToParam(keys, n))' = AddressToParam(keys', n)
    BY <1>1, <2>5 DEF AddressToParam, NextCluster, RingSize
  <2>8. FormedFrom(e)'
    BY <1>1, <2>3, <2>4, <2>5, <2>6, <2>7 DEF FormedFrom, Size
  <2>9. Groups(members)'
    BY <1>1 DEF Groups
  <2> QED BY <2>8, <2>9 DEF Formed
<1> QED BY <1>1, <1>2 DEF FormationInv, Groups

LEMMA FormationInvStep == FormationInv /\ [FormationNext]_formationVars => FormationInv'
<1> SUFFICES ASSUME FormationInv, [FormationNext]_formationVars PROVE FormationInv'
  OBVIOUS
<1>1. ASSUME Evaluate PROVE FormationInv'
  <2>1. PICK individual \in Individuals :
          Fitness(individual) < bestFitness /\ best' = individual /\ bestFitness' = Fitness(individual)
    BY <1>1 DEF Evaluate
  <2>2. bestFitness' \in 0..WorstFitness
    BY <2>1, FitnessNat, ParamsType DEF FormationInv
  <2> QED BY <1>1, <2>1, <2>2 DEF Evaluate, FormationInv
<1>2. ASSUME UNCHANGED formationVars PROVE FormationInv'
  <2>1. /\ stage' = stage /\ best' = best /\ bestFitness' = bestFitness /\ members' = members /\ keys' = keys
        /\ ringKeys' = ringKeys /\ address' = address
    BY <1>2 DEF formationVars
  <2>2. /\ \A c : ClusterOf(c)' = ClusterOf(c)
        /\ \A c : Size(c)' = Size(c)
        /\ MaxCluster' = MaxCluster
    BY <2>1 DEF ClusterOf, Size, MaxCluster
  <2>3. \A n : (RingIds(keys, n))' = RingIds(keys, n)
    BY <2>1, <2>2 DEF RingIds, ParamToRing
  <2>4. \A n : (AddressToParam(keys, n))' = AddressToParam(keys, n)
    BY <2>1, <2>2 DEF AddressToParam, NextCluster, RingSize
  <2>5. \A e : FormedFrom(e) => FormedFrom(e)'
    BY <2>1, <2>2, <2>3, <2>4 DEF FormedFrom
  <2> QED BY <2>1, <2>5 DEF FormationInv, Formed, Groups
<1> QED BY <1>1, <1>2, FormGroups, CutForms DEF FormationNext

-----------------------------------------------------------------------------
(* What the invariant implies. *)

LEMMA FormationTyped == FormationInv => FormationTypeOK
<1> SUFFICES ASSUME FormationInv PROVE FormationTypeOK
  OBVIOUS
<1>1. ASSUME stage = "formed"
      PROVE  /\ keys \in [Providers -> SUBSET Keys]
             /\ \A n \in Providers : address[n] \in [keys[n] -> Providers]
  <2>1. Formed
    BY <1>1 DEF FormationInv
  <2>2. \A n \in Providers : keys[n] \in SUBSET Keys
    BY <2>1, KeysType
  <2>3. /\ keys = [n \in Providers |-> keys[n]]
        /\ \A n \in Providers : address[n] = [k \in keys[n] |-> address[n][k]]
    BY <2>1 DEF Formed, FormedFrom, ParamAddressMapping
  <2>4. \A n \in Providers : \A k \in keys[n] : address[n][k] \in Providers
    BY <2>1, AddressIsHolder
  <2>5. \A n \in Providers : address[n] \in [keys[n] -> Providers]
    BY <2>3, <2>4
  <2> QED BY <2>2, <2>3, <2>5
<1> QED BY <1>1 DEF FormationInv, FormationTypeOK

LEMMA FormedRingsAgree == FormationInv => RingsAgree
<1> SUFFICES ASSUME FormationInv, stage = "formed" PROVE RingsAgree
  BY DEF RingsAgree
<1>1. Formed /\ Groups(members)
  BY DEF FormationInv
<1>2. ASSUME NEW c \in DOMAIN members, NEW k \in Keys
      PROVE  \E n \in Range(members[c]) : {m \in Range(members[c]) : k \in keys[m]} = {n}
  <2>1. DOMAIN members[c] = 1..Size(c)
    BY <1>1, SizeType
  <2>2. PICK i \in 1..Size(c) : k \in keys[members[c][i]] /\ \A j \in 1..Size(c) : k \in keys[members[c][j]] => j = i
    BY <1>1, Holder
  <2>3. members[c][i] \in Range(members[c])
    BY <2>1 DEF Range
  <2>4. \A m \in Range(members[c]) : k \in keys[m] => m = members[c][i]
    BY <2>1, <2>2 DEF Range
  <2> QED BY <2>2, <2>3, <2>4
<1>3. ASSUME NEW n \in Providers, NEW k \in keys[n]
      PROVE  /\ {r \in DOMAIN ringKeys[n] : k \in ringKeys[n][r]} = {ParamToRing(keys, k)}
             /\ address[n][k] \in Range(members[NextCluster(ClusterOf(n))])
             /\ k \in keys[address[n][k]]
  <2>1. Ring(k) \in DOMAIN ringKeys[n] /\ \A r \in DOMAIN ringKeys[n] : k \in ringKeys[n][r] <=> Ring(k) = r
    BY <1>1, RingSlices
  <2>2. {r \in DOMAIN ringKeys[n] : k \in ringKeys[n][r]} = {Ring(k)}
    BY <2>1
  <2> QED BY <1>1, <2>2, AddressIsHolder DEF Ring
<1> QED BY <1>2, <1>3 DEF RingsAgree

LEMMA FormationQuotas == FormationInv => QuotasCoverTheModel
<1> SUFFICES ASSUME FormationInv, stage = "cut", NEW c \in DOMAIN members
             PROVE  LET rams == RamsOf(members[c])
                        total == FoldSeq(+, 0, rams)
                    IN /\ FoldSeq(+, 0, RoundPercentages(rams)) = 100
                       /\ FoldSeq(+, 0, Splits(rams)) = ModelSize
                       /\ \A i \in DOMAIN rams :
                            100 * total * (Splits(rams)[i] - 1) <= ModelSize * (100 * rams[i] + total)
  BY DEF QuotasCoverTheModel
<1> DEFINE rams == RamsOf(members[c])
           L == Len(members[c])
           total == FoldSeq(+, 0, rams)
           P == RoundPercentages(rams)
           S == Splits(rams)
<1> SUFFICES /\ FoldSeq(+, 0, P) = 100 /\ FoldSeq(+, 0, S) = ModelSize
             /\ \A i \in DOMAIN rams : 100 * total * (S[i] - 1) <= ModelSize * (100 * rams[i] + total)
  OBVIOUS
<1>1. Groups(members)
  BY DEF FormationInv
<1>2. L \in Nat \ {0} /\ DOMAIN members[c] = 1..L /\ \A i \in 1..L : members[c][i] \in Providers
  BY <1>1 DEF Groups
<1>3. \A n \in Providers : Ram[n] \in Nat \ {0}
  BY RamType
<1>4. rams \in [1..L -> Nat \ {0}]
  BY <1>2, <1>3 DEF RamsOf
<1>0. DOMAIN rams = 1..L
  BY <1>4
<1>5. rams \in Seq(Nat \ {0}) /\ Len(rams) = L /\ DOMAIN rams = 1..L /\ \A i \in 1..L : rams[i] \in Nat \ {0}
  BY <1>2, <1>4
<1> HIDE DEF rams, L
<1>6. total = SumOver(rams, 1..L)
  BY <1>5, FoldSeqIsSum
<1>7. /\ SumOver(rams, 1..L) \in Nat \ {0}
      /\ P \in [1..L -> Nat] /\ SumOver(P, 1..L) = 100
      /\ \A i \in 1..L : SumOver(rams, 1..L) * P[i] <= 100 * rams[i] + SumOver(rams, 1..L)
  <2>1. ArePercentages(P, rams, L)
    BY <1>2, <1>5, RoundedPercentages
  <2> HIDE DEF P
  <2> QED BY <2>1 DEF ArePercentages
<1>8. S = SplitsOf(P)
  <2>1. DOMAIN P = 1..L /\ Len(P) = L
    BY <1>2, <1>7
  <2> QED BY <1>5, <2>1 DEF Splits, SplitsOf, Share
<1> HIDE DEF P, S, total
<1>9. /\ S \in [1..L -> Int] /\ SumOver(S, 1..L) = ModelSize
      /\ \A i \in 1..L : 100 * (S[i] - 1) <= ModelSize * P[i]
  <2>1. AreQuotas(S, P, L)
    <3>1. SumOver(P, 1..L) = 100 /\ P \in [1..L -> Nat] /\ L \in Nat \ {0}
      BY <1>2, <1>7
    <3> QED BY <1>8, <3>1, SplitsOfParts
  <2> QED BY <2>1 DEF AreQuotas
<1>10. FoldSeq(+, 0, P) = 100 /\ FoldSeq(+, 0, S) = ModelSize
  <2>1. DOMAIN P = 1..L /\ DOMAIN S = 1..L
    BY <1>7, <1>9
  <2> QED BY <1>7, <1>9, <2>1, FoldSeqIsSum
<1>11. ASSUME NEW i \in 1..L
       PROVE  100 * total * (S[i] - 1) <= ModelSize * (100 * rams[i] + total)
  <2> DEFINE s == S[i] - 1
             p == P[i]
             t == 100 * rams[i] + total
  <2>1. total \in Nat \ {0} /\ p \in Nat /\ s \in Int /\ t \in Int /\ ModelSize \in Nat
    <3>1. total \in Nat \ {0} /\ p \in Nat /\ S[i] \in Int /\ rams[i] \in Nat /\ ModelSize \in Nat
      BY <1>5, <1>6, <1>7, <1>9, ParamsType
    <3> HIDE DEF p
    <3> QED BY <3>1
  <2>2. 100 * s <= ModelSize * p /\ total * p <= t
    BY <1>6, <1>7, <1>9
  <2> HIDE DEF s, p, t
  <2>3. 100 * s \in Int /\ ModelSize * p \in Int /\ total * p \in Int
    BY <2>1
  <2>4. total * (100 * s) <= total * (ModelSize * p)
    BY <2>1, <2>2, <2>3, Monotone
  <2>5. ModelSize * (total * p) <= ModelSize * t
    BY <2>1, <2>2, <2>3, Monotone
  <2>6. (100 * total) * s = total * (100 * s) /\ total * (ModelSize * p) = ModelSize * (total * p)
    BY <2>1, Regroup
  <2>7. 100 * total * s <= ModelSize * t
    <3> DEFINE w == (100 * total) * s
               x == total * (100 * s)
               y == total * (ModelSize * p)
               z == ModelSize * t
    <3>1. w \in Int /\ x \in Int /\ y \in Int /\ z \in Int
      BY <2>1
    <3>2. w = x /\ x <= y /\ y <= z
      BY <2>4, <2>5, <2>6
    <3> HIDE DEF w, x, y, z
    <3>3. w <= z
      BY <3>1, <3>2
    <3> QED BY <3>3 DEF w, z
  <2> QED BY <2>7 DEF s, t
<1>12. ASSUME NEW i \in DOMAIN rams
       PROVE  100 * total * (S[i] - 1) <= ModelSize * (100 * rams[i] + total)
  <2>1. i \in 1..L
    BY <1>5
  <2> QED BY <1>11, <2>1, Zenon
<1> QED BY <1>10, <1>12, Zenon

(* FormationInv holds whatever comes after the formation. *)
THEOREM FormationInvariant == FormationSpec => []FormationInv
<1>1. FormationInit => FormationInv
  BY InitiallyNoClusters
<1>2. FormationInv /\ [FormationNext]_formationVars => FormationInv'
  BY FormationInvStep
<1> QED BY <1>1, <1>2, PTL DEF FormationSpec

-----------------------------------------------------------------------------
(* What the averaging needs of the formation: every cluster has exactly    *)
(* one holder of each parameter, which sends it to the one in the next     *)
(* cluster, in the same ring.                                              *)

RankAfter(c) == IF c = RingSize - 1 THEN 0 ELSE c + 1

Rings ==
  /\ RingSize \in Nat \ {0}
  /\ \A n \in Providers : NodeRank(n) \in Positions /\ keys[n] \subseteq Keys
  /\ \A c \in Positions : \A k \in Keys : \E n \in Providers :
       /\ NodeRank(n) = c /\ k \in keys[n]
       /\ \A m \in Providers : NodeRank(m) = c /\ k \in keys[m] => m = n
  /\ \A n \in Providers : \A r \in DOMAIN ringKeys[n] : ringKeys[n][r] \subseteq keys[n]
  /\ \A k \in Keys : \E r \in 0..(Params - 1) : \A n \in Providers : k \in keys[n] =>
       {q \in DOMAIN ringKeys[n] : k \in ringKeys[n][q]} = {r}
  /\ \A n \in Providers : \A k \in keys[n] :
       /\ address[n][k] \in Providers
       /\ NodeRank(address[n][k]) = RankAfter(NodeRank(n))
       /\ k \in keys[address[n][k]]

(* The rings.  KeysOf are the parameters of a thread; along parameter k    *)
(* thread p sends to thread t.                                             *)

KeysOf(t) == ringKeys[t[1]][t[2]]
RankOf(t) == NodeRank(t[1])
Edge(p, t, k) ==
  /\ p \in Threads /\ t \in Threads
  /\ k \in KeysOf(p) /\ k \in KeysOf(t)
  /\ p[2] = t[2] /\ address[p[1]][k] = t[1]

(* How far it is from position p to position q, in the direction of the    *)
(* messages.                                                               *)
Distance(p, q) == IF p <= q THEN q - p ELSE q - p + RingSize

(* The phases of all rounds, numbered; a thread that is done stands before *)
(* the first iteration of the next round.  Along with the iterations that  *)
(* it has completed in a phase this is how far a thread is.                *)
Half(t) == CASE phase[t] = "reduce" -> 2 * round[t[1]] - 2
             [] phase[t] = "gather" -> 2 * round[t[1]] - 1
             [] phase[t] = "done" -> 2 * round[t[1]]
Step(t) == IF phase[t] \in Phases THEN iteration[phase[t]][t] ELSE 0

(* The phase of kind f that thread t is in or will be in next.             *)
NextHalf(f, t) ==
  IF phase[t] = f \/ (phase[t] = "done" /\ f = "reduce") THEN Half(t) ELSE Half(t) + 1
NextRound(f, t) ==
  IF phase[t] = "done" \/ (phase[t] = "gather" /\ f = "reduce") THEN round[t[1]] + 1 ELSE round[t[1]]

(* p has sent t the chunks that t takes next in a phase of kind f.         *)
Sent(p, t, f) ==
  \/ Half(p) > NextHalf(f, t)
  \/ /\ Half(p) = NextHalf(f, t)
     /\ \/ Step(p) > iteration[f][t]
        \/ Step(p) = iteration[f][t] /\ t[1] \in sent[p]

InBuffer(f, t, k) == \E i \in DOMAIN buffer[f][t] : k \in DOMAIN buffer[f][t][i]

(* The parameters of which t has this iteration's chunk. *)
Received(t) == {k \in KeysOf(t) :
  ~InBuffer(phase[t], t, k) /\ \E p \in Threads : Edge(p, t, k) /\ Sent(p, t, phase[t])}

(* The values.  A chunk on its way to be complete has the clusters from    *)
(* that of its position on.                                                *)
All(r) == {<<c, r>> : c \in Positions}
Arc(p, c, r) == {<<x, r>> : x \in {y \in Positions : Distance(p, y) <= Distance(p, c)}}
Reduced(c, p, i, r) == IF Distance(p, c) <= i THEN Arc(p, c, r) ELSE {<<c, r>>}
Gathered(c, p, i, r) ==
  IF Distance(p, c) < i \/ Distance(p, c) = RingSize - 1 THEN All(r) ELSE Arc(p, c, r)
Value(f, c, p, i, r) == IF f = "reduce" THEN Reduced(c, p, i, r) ELSE Gathered(c, p, i, r)

(* The distance of the position that is sent in iteration i. *)
SendDistance(f, i) == IF f = "reduce" THEN i ELSE IF i = 0 THEN RingSize - 1 ELSE i - 1

-----------------------------------------------------------------------------
(* The inductive invariant. *)

Chunk == [pos : Positions, value : SUBSET (Positions \X Nat)]
Messages == UNION {[S -> Chunk] : S \in SUBSET Keys}

RingTypes ==
  /\ Threads = IF stage = "formed" THEN {t \in Providers \X (0..(Params - 1)) : t[2] \in DOMAIN ringKeys[t[1]]}
                                   ELSE {}
  /\ round \in [Providers -> Nat]
  /\ phase \in [Threads -> {"reduce", "gather", "done"}]
  /\ stage = "formed" =>
       /\ iteration \in [Phases -> [Threads -> Nat]]
       /\ buffer \in [Phases -> [Threads -> Seq(Messages)]]
       /\ sendPos \in [Threads -> Int]
       /\ sent \in [Threads -> SUBSET Providers]
       /\ got \in [Threads -> Nat]
       /\ chunks = [t \in Threads |-> chunks[t]]

ThreadInv(t) ==
  /\ phase[t] \in Phases => round[t[1]] > 0 /\ iteration[phase[t]][t] < RingSize - 1
  /\ \A f \in Phases \ {phase[t]} : iteration[f][t] = 0
  /\ sent[t] \subseteq Dests(t)
  /\ phase[t] = "done" => sent[t] = {} /\ got[t] = 0

(* t has begun the iterations that p has sent to it, and p has sent those  *)
(* that t has completed.                                                   *)
NotOvertaken(p, t) ==
  /\ Half(p) <= Half(t) + 1
  /\ Half(p) = Half(t) + 1 => /\ Step(t) = RingSize - 2 /\ Step(p) <= 1
                              /\ Step(p) = 1 => t[1] \notin sent[p]
  /\ Half(p) = Half(t) => /\ Step(p) <= Step(t) + 1
                          /\ Step(p) = Step(t) + 1 => t[1] \notin sent[p]
Follows(p, t) ==
  \/ Half(t) < Half(p)
  \/ Half(t) = Half(p) /\ Step(t) <= Step(p)
  \/ /\ t[1] \in sent[p]
     /\ \/ Half(t) = Half(p) /\ Step(t) = Step(p) + 1
        \/ Half(t) = Half(p) + 1 /\ Step(t) = 0 /\ Step(p) = RingSize - 2

EdgeInv == \A p, t \in Threads : \A k \in Keys : Edge(p, t, k) => NotOvertaken(p, t) /\ Follows(p, t)

(* A buffer has the chunks of one iteration, each once. *)
ChunkFits(f, t, c) ==
  \E s \in Positions :
    /\ RankOf(t) = IF s = RingSize - 1 THEN 0 ELSE s + 1
    /\ c.pos \in Positions /\ Distance(c.pos, s) = SendDistance(f, iteration[f][t])
    /\ c.value = IF f = "reduce" THEN Arc(c.pos, s, NextRound(f, t)) ELSE All(NextRound(f, t))
BufferInv(f, t) ==
  /\ \A i \in DOMAIN buffer[f][t] :
       /\ DOMAIN buffer[f][t][i] # {} /\ DOMAIN buffer[f][t][i] \subseteq KeysOf(t)
       /\ \A k \in DOMAIN buffer[f][t][i] : ChunkFits(f, t, buffer[f][t][i][k])
  /\ \A i, j \in DOMAIN buffer[f][t] : \A k \in Keys :
       k \in DOMAIN buffer[f][t][i] /\ k \in DOMAIN buffer[f][t][j] => i = j
  /\ \A p \in Threads : \A k \in Keys : Edge(p, t, k) =>
       /\ InBuffer(f, t, k) => Sent(p, t, f)
       /\ phase[t] # f /\ Sent(p, t, f) => InBuffer(f, t, k)

GotInv(t) == phase[t] \in Phases => got[t] = Cardinality(Received(t))

(* The chunks of a thread. *)
ChunkInv(t) ==
  /\ phase[t] \in Phases =>
       /\ sendPos[t] \in Positions
       /\ Distance(sendPos[t], RankOf(t)) = SendDistance(phase[t], Step(t))
       /\ chunks[t] = [k \in KeysOf(t) |-> [p \in Positions |->
            Value(phase[t], RankOf(t), p, IF k \in Received(t) THEN Step(t) + 1 ELSE Step(t), round[t[1]])]]
  /\ phase[t] = "done" /\ round[t[1]] > 0 =>
       chunks[t] = [k \in KeysOf(t) |-> [p \in Positions |-> All(round[t[1]])]]

RingInv ==
  /\ RingTypes
  /\ stage # "formed" \/ RingSize < 2 => /\ round = [n \in Providers |-> 0]
                                        /\ \A t \in Threads : phase[t] = "done"
  /\ (stage = "formed" /\ RingSize > 1) =>
       /\ \A t \in Threads : ThreadInv(t) /\ GotInv(t) /\ ChunkInv(t)
       /\ EdgeInv
       /\ \A f \in Phases : \A t \in Threads : BufferInv(f, t)

-----------------------------------------------------------------------------
(* The geometry of a ring. *)

LEMMA BackIsOneLess ==
  ASSUME RingSize \in Nat \ {0}, NEW p \in Positions
  PROVE  Back(p) = IF p = 0 THEN RingSize - 1 ELSE p - 1
<1> DEFINE n == RingSize
<1>1. n \in Nat \ {0} /\ p \in 0..(n - 1)
  BY DEF Positions
<1> HIDE DEF n
<1>2. CASE p = 0
  <2>1. (p - 1 + n) % n = n - 1
    BY <1>1, <1>2
  <2> QED BY <2>1, <1>2 DEF Back, n
<1>3. CASE p # 0
  <2>1. (p - 1 + n) % n = p - 1
    BY <1>1, <1>3
  <2> QED BY <2>1, <1>3 DEF Back, n
<1> QED BY <1>2, <1>3

(* Distances, from what is ahead of a rank and behind a position. *)
LEMMA Distances ==
  ASSUME RingSize \in Nat \ {0}
  PROVE  /\ RingSize \in Int /\ RingSize > 0
         /\ \A p \in Positions : p \in Int /\ p >= 0 /\ p <= RingSize - 1
         /\ \A p, q \in Positions : Distance(p, q) \in 0..(RingSize - 1)
         /\ \A p, q \in Positions : Distance(p, q) = 0 <=> p = q
         /\ \A p, q \in Positions : Distance(p, RankAfter(q)) =
              IF Distance(p, q) = RingSize - 1 THEN 0 ELSE Distance(p, q) + 1
         /\ \A p, q, s \in Positions : Distance(p, q) = Distance(p, s) => q = s
         /\ \A p, q, s \in Positions : Distance(q, p) = Distance(s, p) => q = s
         /\ \A c \in Positions : RankAfter(c) \in Positions
         /\ \A p, c \in Positions : Back(p) \in Positions
              /\ Distance(Back(p), c) = IF Distance(p, c) = RingSize - 1 THEN 0 ELSE Distance(p, c) + 1
<1> DEFINE n == RingSize
<1>1. n \in Nat \ {0} /\ Positions = 0..(n - 1)
  BY DEF Positions
<1>2. \A p, q : Distance(p, q) = IF p <= q THEN q - p ELSE q - p + n
  BY DEF Distance
<1>3. \A c : RankAfter(c) = IF c = n - 1 THEN 0 ELSE c + 1
  BY DEF RankAfter
<1>4. \A p \in Positions : Back(p) = IF p = 0 THEN n - 1 ELSE p - 1
  BY BackIsOneLess
<1> HIDE DEF n
<1>5. /\ n \in Int /\ n > 0
      /\ \A p \in Positions : p \in Int /\ p >= 0 /\ p <= n - 1
      /\ \A p, q \in Positions : Distance(p, q) \in 0..(n - 1)
      /\ \A p, q \in Positions : Distance(p, q) = 0 <=> p = q
  BY <1>1, <1>2
<1>6. \A p, q \in Positions : Distance(p, RankAfter(q)) =
              IF Distance(p, q) = n - 1 THEN 0 ELSE Distance(p, q) + 1
  BY <1>1, <1>2, <1>3
<1>7. /\ \A p, q, s \in Positions : Distance(p, q) = Distance(p, s) => q = s
      /\ \A p, q, s \in Positions : Distance(q, p) = Distance(s, p) => q = s
  <2> SUFFICES ASSUME NEW p \in Positions, NEW q \in Positions, NEW s \in Positions
               PROVE  /\ Distance(p, q) = Distance(p, s) => q = s
                      /\ Distance(q, p) = Distance(s, p) => q = s
    OBVIOUS
  <2>1. p \in 0..(n - 1) /\ q \in 0..(n - 1) /\ s \in 0..(n - 1)
    BY <1>1
  <2>2. Distance(p, q) = Distance(p, s) => q = s
    BY <1>1, <1>2, <2>1
  <2>3. Distance(q, p) = Distance(s, p) => q = s
    BY <1>1, <1>2, <2>1
  <2> QED BY <2>2, <2>3
<1>8. \A c \in Positions : RankAfter(c) \in Positions
  BY <1>1, <1>3
<1>9. \A p, c \in Positions : Back(p) \in Positions
              /\ Distance(Back(p), c) = IF Distance(p, c) = n - 1 THEN 0 ELSE Distance(p, c) + 1
  <2> SUFFICES ASSUME NEW p \in Positions, NEW c \in Positions
               PROVE  /\ Back(p) \in Positions
                      /\ Distance(Back(p), c) = IF Distance(p, c) = n - 1 THEN 0 ELSE Distance(p, c) + 1
    OBVIOUS
  <2>1. /\ Distance(p, c) = IF p <= c THEN c - p ELSE c - p + n
        /\ Distance(Back(p), c) = IF Back(p) <= c THEN c - Back(p) ELSE c - Back(p) + n
    BY <1>2
  <2>2. Back(p) = IF p = 0 THEN n - 1 ELSE p - 1
    BY <1>4
  <2> HIDE DEF Distance
  <2>3. CASE p = 0
    <3>1. Back(p) = n - 1
      BY <2>2, <2>3
    <3> QED BY <3>1, <2>1, <2>3, <1>1
  <2>4. CASE p # 0
    <3>1. Back(p) = p - 1
      BY <2>2, <2>4
    <3> QED BY <3>1, <2>1, <2>4, <1>1
  <2> QED BY <2>3, <2>4
<1> QED BY <1>5, <1>6, <1>7, <1>8, <1>9 DEF n

(* RankAfter is the only step of a ring; with two clusters it leads back.  *)
LEMMA RanksAround ==
  ASSUME RingSize \in Nat \ {0}
  PROVE  /\ \A c, d \in Positions : RankAfter(c) = RankAfter(d) => c = d
         /\ \A c \in Positions : \E b \in Positions : RankAfter(b) = c
         /\ RingSize > 1 => \A c \in Positions : RankAfter(c) # c
         /\ RingSize = 2 => \A c \in Positions : RankAfter(RankAfter(c)) = c
<1> DEFINE n == RingSize
<1>1. n \in Nat \ {0} /\ Positions = 0..(n - 1)
  BY DEF Positions
<1>2. \A c : RankAfter(c) = IF c = n - 1 THEN 0 ELSE c + 1
  BY DEF RankAfter
<1> HIDE DEF n
<1>3. \A c, d \in Positions : RankAfter(c) = RankAfter(d) => c = d
  BY <1>1, <1>2
<1>4. ASSUME NEW c \in Positions
      PROVE  \E b \in Positions : RankAfter(b) = c
  <2> DEFINE b == IF c = 0 THEN n - 1 ELSE c - 1
  <2>1. b \in Positions /\ RankAfter(b) = c
    BY <1>1, <1>2
  <2> QED BY <2>1
<1>5. n > 1 => \A c \in Positions : RankAfter(c) # c
  BY <1>1, <1>2
<1>6. n = 2 => \A c \in Positions : RankAfter(RankAfter(c)) = c
  BY <1>1, <1>2
<1> QED BY <1>3, <1>4, <1>5, <1>6 DEF n

-----------------------------------------------------------------------------
(* Sequences: what Append and Tail do with the elements. *)

LEMMA Appended ==
  ASSUME NEW S, NEW b \in Seq(S), NEW m \in S
  PROVE  /\ Append(b, m) \in Seq(S)
         /\ Len(b) \in Nat /\ DOMAIN b = 1..Len(b)
         /\ DOMAIN Append(b, m) = 1..(Len(b) + 1)
         /\ \A i \in DOMAIN b : Append(b, m)[i] = b[i]
         /\ Append(b, m)[Len(b) + 1] = m
<1>1. Len(b) \in Nat /\ DOMAIN b = 1..Len(b)
  OBVIOUS
<1>2. DOMAIN Append(b, m) = 1..(Len(b) + 1) /\ Append(b, m) \in Seq(S)
  OBVIOUS
<1>3. \A i \in DOMAIN b : Append(b, m)[i] = b[i]
  BY <1>1
<1>4. Append(b, m)[Len(b) + 1] = m
  BY <1>1
<1> QED BY <1>1, <1>2, <1>3, <1>4

LEMMA TailOf ==
  ASSUME NEW S, NEW b \in Seq(S), b # <<>>
  PROVE  /\ Tail(b) \in Seq(S) /\ Head(b) \in S
         /\ Len(b) \in Nat /\ Len(b) > 0 /\ DOMAIN b = 1..Len(b) /\ Head(b) = b[1]
         /\ DOMAIN Tail(b) = 1..(Len(b) - 1)
         /\ \A i \in DOMAIN Tail(b) : Tail(b)[i] = b[i + 1]
<1>1. Len(b) \in Nat /\ DOMAIN b = 1..Len(b) /\ Head(b) = b[1]
  OBVIOUS
<1>2. Len(b) > 0
  BY <1>1
<1>3. Tail(b) \in Seq(S) /\ Head(b) \in S
  OBVIOUS
<1>4. DOMAIN Tail(b) = 1..(Len(b) - 1)
  BY <1>2
<1>5. \A i \in DOMAIN Tail(b) : Tail(b)[i] = b[i + 1]
  BY <1>1, <1>2, <1>4
<1> QED BY <1>1, <1>2, <1>3, <1>4, <1>5

-----------------------------------------------------------------------------
(* The threads of a ring. *)

ThreadSet ==
  Threads = {t \in Providers \X (0..(Params - 1)) : t[2] \in DOMAIN ringKeys[t[1]]}

(* A holder of a parameter has a thread for it, in the parameter's ring.   *)
LEMMA HoldersHaveThreads ==
  ASSUME Rings, ThreadSet
  PROVE  /\ \A t \in Threads : /\ t[1] \in Providers /\ t = <<t[1], t[2]>>
                               /\ RankOf(t) \in Positions /\ KeysOf(t) \subseteq keys[t[1]]
                               /\ KeysOf(t) \subseteq Keys
         /\ \A t \in Threads : \A k \in KeysOf(t) : \A n \in Providers :
              k \in keys[n] => <<n, t[2]>> \in Threads /\ k \in KeysOf(<<n, t[2]>>)
         /\ \A t, u \in Threads : \A k \in KeysOf(t) : k \in KeysOf(u) => t[2] = u[2]
<1>1. \A t \in Threads : /\ t[1] \in Providers /\ t = <<t[1], t[2]>>
                         /\ RankOf(t) \in Positions /\ KeysOf(t) \subseteq keys[t[1]]
                         /\ KeysOf(t) \subseteq Keys
  <2> SUFFICES ASSUME NEW t \in Threads
               PROVE  /\ t[1] \in Providers /\ t = <<t[1], t[2]>>
                      /\ RankOf(t) \in Positions /\ KeysOf(t) \subseteq keys[t[1]]
                      /\ KeysOf(t) \subseteq Keys
    OBVIOUS
  <2>1. t \in Providers \X (0..(Params - 1)) /\ t[2] \in DOMAIN ringKeys[t[1]]
    BY DEF ThreadSet
  <2>2. t[1] \in Providers /\ t = <<t[1], t[2]>>
    BY <2>1
  <2> QED BY <2>1, <2>2 DEF Rings, RankOf, KeysOf
<1>2. ASSUME NEW t \in Threads, NEW k \in KeysOf(t), NEW n \in Providers, k \in keys[n]
      PROVE  <<n, t[2]>> \in Threads /\ k \in KeysOf(<<n, t[2]>>)
  <2>1. k \in Keys /\ k \in keys[t[1]] /\ t[1] \in Providers
    BY <1>1
  <2>2. PICK r \in 0..(Params - 1) : \A m \in Providers : k \in keys[m] =>
           {q \in DOMAIN ringKeys[m] : k \in ringKeys[m][q]} = {r}
    BY <2>1 DEF Rings
  <2>3. t[2] = r
    BY <2>1, <2>2 DEF ThreadSet, KeysOf
  <2>4. r \in DOMAIN ringKeys[n] /\ k \in ringKeys[n][r]
    BY <1>2, <2>2
  <2> QED BY <2>3, <2>4 DEF ThreadSet, KeysOf
<1>3. ASSUME NEW t \in Threads, NEW u \in Threads, NEW k \in KeysOf(t), k \in KeysOf(u)
      PROVE  t[2] = u[2]
  <2>1. /\ k \in Keys /\ k \in keys[t[1]] /\ t[1] \in Providers
        /\ k \in keys[u[1]] /\ u[1] \in Providers
    BY <1>1, <1>3
  <2>2. PICK r \in 0..(Params - 1) : \A m \in Providers : k \in keys[m] =>
           {q \in DOMAIN ringKeys[m] : k \in ringKeys[m][q]} = {r}
    BY <2>1 DEF Rings
  <2> QED BY <1>3, <2>1, <2>2 DEF ThreadSet, KeysOf
<1> QED BY <1>1, <1>2, <1>3

LEMMA EdgeFacts ==
  ASSUME Rings, ThreadSet
  PROVE  /\ \A t \in Threads : \A k \in KeysOf(t) : Edge(t, <<address[t[1]][k], t[2]>>, k)
         /\ \A t \in Threads : \A k \in KeysOf(t) : \E p \in Threads : Edge(p, t, k)
         /\ \A p, q, t \in Threads : \A k \in Keys : Edge(p, t, k) /\ Edge(q, t, k) => p = q
         /\ \A p, t \in Threads : \A k \in Keys : Edge(p, t, k) =>
              /\ RankOf(t) = RankAfter(RankOf(p))
              /\ RingSize > 1 => p # t
              /\ RingSize = 2 => Edge(t, p, k)
         /\ \A p, t, u \in Threads : \A k, l \in Keys :
              Edge(p, t, k) /\ Edge(p, u, l) /\ t[1] = u[1] => t = u
<1>1. ASSUME NEW t \in Threads, NEW k \in KeysOf(t)
      PROVE  Edge(t, <<address[t[1]][k], t[2]>>, k)
  <2>1. t[1] \in Providers /\ k \in keys[t[1]]
    BY HoldersHaveThreads
  <2>2. address[t[1]][k] \in Providers /\ k \in keys[address[t[1]][k]]
    BY <2>1 DEF Rings
  <2> DEFINE u == <<address[t[1]][k], t[2]>>
  <2>3. u \in Threads /\ k \in KeysOf(u)
    BY <2>2, HoldersHaveThreads
  <2>4. u[1] = address[t[1]][k] /\ u[2] = t[2]
    OBVIOUS
  <2> HIDE DEF u
  <2>5. Edge(t, u, k)
    BY <2>3, <2>4 DEF Edge
  <2> QED BY <2>5 DEF u
<1>2. ASSUME NEW p \in Threads, NEW t \in Threads, NEW k \in Keys, Edge(p, t, k)
      PROVE  RankOf(t) = RankAfter(RankOf(p))
  <2>1. p[1] \in Providers /\ k \in keys[p[1]] /\ address[p[1]][k] = t[1]
    BY <1>2, HoldersHaveThreads DEF Edge
  <2> QED BY <2>1 DEF Rings, RankOf
<1>3. ASSUME NEW p \in Threads, NEW t \in Threads, NEW k \in Keys,
             k \in KeysOf(p), k \in KeysOf(t), RankOf(p) = RankOf(t)
      PROVE  p = t
  <2>1. /\ p[1] \in Providers /\ t[1] \in Providers
        /\ k \in keys[p[1]] /\ k \in keys[t[1]] /\ RankOf(p) \in Positions
    BY <1>3, HoldersHaveThreads
  <2>2. PICK n \in Providers : \A m \in Providers : NodeRank(m) = RankOf(p) /\ k \in keys[m] => m = n
    BY <2>1 DEF Rings
  <2>3. p[1] = n /\ t[1] = n
    BY <1>3, <2>1, <2>2 DEF RankOf
  <2>4. p[2] = t[2]
    BY <1>3, HoldersHaveThreads
  <2>5. p = <<p[1], p[2]>> /\ t = <<t[1], t[2]>>
    BY HoldersHaveThreads
  <2> QED BY <2>3, <2>4, <2>5
<1>4. ASSUME NEW t \in Threads, NEW k \in KeysOf(t)
      PROVE  \E p \in Threads : Edge(p, t, k)
  <2>1. t[1] \in Providers /\ k \in keys[t[1]] /\ k \in Keys /\ RankOf(t) \in Positions
    BY HoldersHaveThreads
  <2>2. PICK b \in Positions : RankAfter(b) = RankOf(t)
    BY <2>1, RanksAround DEF Rings
  <2>3. PICK n \in Providers : NodeRank(n) = b /\ k \in keys[n]
    BY <2>1 DEF Rings
  <2> DEFINE p == <<n, t[2]>>
  <2>4. p \in Threads /\ k \in KeysOf(p)
    BY <2>3, HoldersHaveThreads
  <2>5. p[1] = n /\ p[2] = t[2]
    OBVIOUS
  <2> HIDE DEF p
  <2> DEFINE u == <<address[p[1]][k], p[2]>>
  <2>6. Edge(p, u, k)
    BY <1>1, <2>4
  <2>7. u \in Threads /\ k \in KeysOf(u)
    BY <2>6 DEF Edge
  <2> HIDE DEF u
  <2>8. RankOf(u) = RankOf(t)
    BY <1>2, <2>1, <2>2, <2>3, <2>4, <2>5, <2>6, <2>7 DEF RankOf
  <2>9. u = t
    BY <1>3, <2>1, <2>7, <2>8
  <2> QED BY <2>4, <2>6, <2>9
<1>5. ASSUME NEW p \in Threads, NEW q \in Threads, NEW t \in Threads, NEW k \in Keys,
             Edge(p, t, k), Edge(q, t, k)
      PROVE  p = q
  <2>1. RankAfter(RankOf(p)) = RankAfter(RankOf(q))
    BY <1>2, <1>5
  <2>2. RankOf(p) \in Positions /\ RankOf(q) \in Positions
    BY HoldersHaveThreads
  <2>3. RankOf(p) = RankOf(q)
    BY <2>1, <2>2, RanksAround DEF Rings
  <2>4. k \in KeysOf(p) /\ k \in KeysOf(q)
    BY <1>5 DEF Edge
  <2> QED BY <1>3, <2>3, <2>4
<1>6. ASSUME NEW p \in Threads, NEW t \in Threads, NEW k \in Keys, Edge(p, t, k), RingSize > 1
      PROVE  p # t
  <2>1. RankOf(p) \in Positions /\ RankOf(t) = RankAfter(RankOf(p))
    BY <1>2, <1>6, HoldersHaveThreads
  <2> QED BY <1>6, <2>1, RanksAround DEF Rings
<1>7. ASSUME NEW p \in Threads, NEW t \in Threads, NEW k \in Keys, Edge(p, t, k), RingSize = 2
      PROVE  Edge(t, p, k)
  <2>1. k \in KeysOf(p) /\ k \in KeysOf(t) /\ RankOf(p) \in Positions
    BY <1>7, HoldersHaveThreads DEF Edge
  <2> DEFINE u == <<address[t[1]][k], t[2]>>
  <2>2. Edge(t, u, k)
    BY <1>1, <2>1
  <2>3. u \in Threads /\ k \in KeysOf(u)
    BY <2>2 DEF Edge
  <2> HIDE DEF u
  <2>4. RankOf(u) = RankAfter(RankAfter(RankOf(p)))
    BY <1>2, <1>7, <2>2, <2>3
  <2>5. RankOf(u) = RankOf(p)
    BY <1>7, <2>1, <2>4, RanksAround DEF Rings
  <2>6. u = p
    BY <1>3, <2>1, <2>3, <2>5
  <2> QED BY <2>2, <2>6
<1>8. ASSUME NEW p \in Threads, NEW t \in Threads, NEW u \in Threads, NEW k \in Keys, NEW l \in Keys,
             Edge(p, t, k), Edge(p, u, l), t[1] = u[1]
      PROVE  t = u
  <2>1. t[2] = u[2]
    BY <1>8 DEF Edge
  <2>2. t = <<t[1], t[2]>> /\ u = <<u[1], u[2]>>
    BY HoldersHaveThreads
  <2> QED BY <1>8, <2>1, <2>2
<1>9. \A p, t \in Threads : \A k \in Keys : Edge(p, t, k) =>
              /\ RankOf(t) = RankAfter(RankOf(p))
              /\ RingSize > 1 => p # t
              /\ RingSize = 2 => Edge(t, p, k)
  BY <1>2, <1>6, <1>7
<1>10. \A p, t, u \in Threads : \A k, l \in Keys :
              Edge(p, t, k) /\ Edge(p, u, l) /\ t[1] = u[1] => t = u
  BY <1>8
<1>11. \A p, q, t \in Threads : \A k \in Keys : Edge(p, t, k) /\ Edge(q, t, k) => p = q
  BY <1>5
<1> HIDE DEF Edge
<1>12. \A t \in Threads : \A k \in KeysOf(t) : Edge(t, <<address[t[1]][k], t[2]>>, k)
  BY <1>1
<1>13. \A t \in Threads : \A k \in KeysOf(t) : \E p \in Threads : Edge(p, t, k)
  BY <1>4
<1> QED BY <1>9, <1>10, <1>11, <1>12, <1>13

-----------------------------------------------------------------------------
(* The values of the chunks. *)

LEMMA Arcs ==
  ASSUME RingSize \in Nat \ {0}
  PROVE  /\ \A p, c \in Positions : \A r : Distance(p, c) = RingSize - 1 => Arc(p, c, r) = All(r)
         /\ \A c \in Positions : \A r : Arc(c, c, r) = {<<c, r>>}
         /\ \A p, c \in Positions : \A r : Distance(p, c) # RingSize - 1 =>
              Add({<<RankAfter(c), r>>}, Arc(p, c, r)) = Arc(p, RankAfter(c), r)
<1> DEFINE n == RingSize
<1>1. /\ n \in Int
      /\ \A p, q \in Positions : Distance(p, q) \in 0..(n - 1)
      /\ \A p, q \in Positions : Distance(p, q) = 0 <=> p = q
      /\ \A p, q \in Positions : Distance(p, RankAfter(q)) =
           IF Distance(p, q) = n - 1 THEN 0 ELSE Distance(p, q) + 1
      /\ \A p, q, s \in Positions : Distance(p, q) = Distance(p, s) => q = s
      /\ \A c \in Positions : RankAfter(c) \in Positions
  BY Distances
<1> HIDE DEF n
<1>2. ASSUME NEW p \in Positions, NEW c \in Positions, NEW r, Distance(p, c) = n - 1
      PROVE  Arc(p, c, r) = All(r)
  <2>1. \A y \in Positions : Distance(p, y) <= Distance(p, c)
    BY <1>1, <1>2
  <2> QED BY <2>1 DEF Arc, All
<1>3. ASSUME NEW c \in Positions, NEW r
      PROVE  Arc(c, c, r) = {<<c, r>>}
  <2>1. \A y \in Positions : Distance(c, y) <= Distance(c, c) <=> y = c
    BY <1>1
  <2> QED BY <2>1 DEF Arc
<1>4. ASSUME NEW p \in Positions, NEW c \in Positions, NEW r, Distance(p, c) # n - 1
      PROVE  Add({<<RankAfter(c), r>>}, Arc(p, c, r)) = Arc(p, RankAfter(c), r)
  <2> DEFINE h == RankAfter(c)
  <2>1. h \in Positions /\ Distance(p, h) = Distance(p, c) + 1
    BY <1>1, <1>4
  <2> HIDE DEF h
  <2>2. \A y \in Positions : Distance(p, y) <= Distance(p, h) <=> Distance(p, y) <= Distance(p, c) \/ y = h
    <3> SUFFICES ASSUME NEW y \in Positions
                 PROVE  Distance(p, y) <= Distance(p, h) <=> Distance(p, y) <= Distance(p, c) \/ y = h
      OBVIOUS
    <3>1. Distance(p, y) \in Int /\ Distance(p, c) \in Int
      BY <1>1
    <3>2. Distance(p, y) = Distance(p, h) => y = h
      BY <1>1, <2>1
    <3> QED BY <2>1, <3>1, <3>2
  <2>3. ~(Distance(p, h) <= Distance(p, c))
    BY <1>1, <2>1
  <2>4. Arc(p, h, r) = {<<h, r>>} \union Arc(p, c, r)
    BY <2>1, <2>2 DEF Arc
  <2>5. {<<h, r>>} \intersect Arc(p, c, r) = {}
    BY <2>3 DEF Arc
  <2>6. Add({<<h, r>>}, Arc(p, c, r)) = Arc(p, h, r)
    BY <2>4, <2>5 DEF Add
  <2> QED BY <2>6 DEF h
<1> QED BY <1>2, <1>3, <1>4 DEF n

(* The value that is sent in iteration i of a phase of kind f. *)
Message(f, p, c, r) == IF f = "reduce" THEN Arc(p, c, r) ELSE All(r)
Taken(f, x, y) == IF f = "reduce" THEN Add(x, y) ELSE y

LEMMA Values ==
  ASSUME RingSize \in Nat \ {0}
  PROVE  /\ \A f \in Phases : \A c, p \in Positions : \A i \in 0..(RingSize - 2) : \A r :
              Distance(p, c) = SendDistance(f, i) =>
                /\ Value(f, c, p, i, r) = Message(f, p, c, r)
                /\ Value(f, c, p, i + 1, r) = Message(f, p, c, r)
         /\ \A f \in Phases : \A c, q \in Positions : \A i \in 0..(RingSize - 2) : \A r :
              Distance(q, c) = SendDistance(f, i) =>
                /\ Taken(f, Value(f, RankAfter(c), q, i, r), Message(f, q, c, r))
                     = Value(f, RankAfter(c), q, i + 1, r)
                /\ \A p \in Positions \ {q} :
                     Value(f, RankAfter(c), p, i, r) = Value(f, RankAfter(c), p, i + 1, r)
         /\ \A c, p \in Positions : \A r :
              /\ Value("reduce", c, p, 0, r) = {<<c, r>>}
              /\ Value("reduce", c, p, RingSize - 1, r) = Value("gather", c, p, 0, r)
              /\ Value("gather", c, p, RingSize - 1, r) = All(r)
         /\ \A f \in Phases : \A c, p \in Positions : \A i \in 0..(RingSize - 2) :
              Distance(p, c) = SendDistance(f, i) =>
                /\ i + 1 < RingSize - 1 => Distance(Back(p), c) = SendDistance(f, i + 1)
                /\ f = "reduce" /\ i + 1 = RingSize - 1 =>
                     Distance(Back(p), c) = SendDistance("gather", 0)
<1> DEFINE n == RingSize
<1>1. /\ n \in Int /\ n > 0
      /\ \A p, q \in Positions : Distance(p, q) \in 0..(n - 1)
      /\ \A p, q \in Positions : Distance(p, q) = 0 <=> p = q
      /\ \A p, q \in Positions : Distance(p, RankAfter(q)) =
           IF Distance(p, q) = n - 1 THEN 0 ELSE Distance(p, q) + 1
      /\ \A p, q, s \in Positions : Distance(q, p) = Distance(s, p) => q = s
      /\ \A c \in Positions : RankAfter(c) \in Positions
      /\ \A p, c \in Positions :
           Distance(Back(p), c) = IF Distance(p, c) = n - 1 THEN 0 ELSE Distance(p, c) + 1
  BY Distances
<1>2. /\ \A p, c \in Positions : \A r : Distance(p, c) = n - 1 => Arc(p, c, r) = All(r)
      /\ \A c \in Positions : \A r : Arc(c, c, r) = {<<c, r>>}
      /\ \A p, c \in Positions : \A r : Distance(p, c) # n - 1 =>
           Add({<<RankAfter(c), r>>}, Arc(p, c, r)) = Arc(p, RankAfter(c), r)
  BY Arcs
<1>3. \A f, i : SendDistance(f, i) = IF f = "reduce" THEN i ELSE IF i = 0 THEN n - 1 ELSE i - 1
  BY DEF SendDistance
<1>4. /\ \A c, p, i, r : Value("reduce", c, p, i, r) = IF Distance(p, c) <= i THEN Arc(p, c, r) ELSE {<<c, r>>}
      /\ \A c, p, i, r : Value("gather", c, p, i, r) =
           IF Distance(p, c) < i \/ Distance(p, c) = n - 1 THEN All(r) ELSE Arc(p, c, r)
  BY DEF Value, Reduced, Gathered
<1> HIDE DEF n
<1>5. ASSUME NEW f \in Phases, NEW c \in Positions, NEW p \in Positions, NEW i \in 0..(n - 2), NEW r,
             Distance(p, c) = SendDistance(f, i)
      PROVE  /\ Value(f, c, p, i, r) = Message(f, p, c, r)
             /\ Value(f, c, p, i + 1, r) = Message(f, p, c, r)
  <2>1. CASE f = "reduce"
    <3>1. Distance(p, c) = i /\ Message(f, p, c, r) = Arc(p, c, r)
      BY <1>3, <1>5, <2>1 DEF Message
    <3>2. i <= i /\ i <= i + 1
      BY <1>1
    <3> QED BY <1>4, <2>1, <3>1, <3>2
  <2>2. CASE f = "gather"
    <3>1. Message(f, p, c, r) = All(r)
      BY <2>2 DEF Message
    <3>2. Distance(p, c) = n - 1 \/ (Distance(p, c) < i /\ Distance(p, c) < i + 1)
      BY <1>1, <1>3, <1>5, <2>2
    <3> QED BY <1>4, <2>2, <3>1, <3>2
  <2> QED BY <2>1, <2>2 DEF Phases
<1>6. ASSUME NEW f \in Phases, NEW c \in Positions, NEW q \in Positions, NEW i \in 0..(n - 2), NEW r,
             Distance(q, c) = SendDistance(f, i)
      PROVE  /\ Taken(f, Value(f, RankAfter(c), q, i, r), Message(f, q, c, r))
                     = Value(f, RankAfter(c), q, i + 1, r)
             /\ \A p \in Positions \ {q} :
                  Value(f, RankAfter(c), p, i, r) = Value(f, RankAfter(c), p, i + 1, r)
  <2> DEFINE h == RankAfter(c)
  <2>1. h \in Positions /\ Distance(q, h) = IF Distance(q, c) = n - 1 THEN 0 ELSE Distance(q, c) + 1
    BY <1>1
  <2>2. Distance(q, c) # n - 1 => Add({<<h, r>>}, Arc(q, c, r)) = Arc(q, h, r)
    BY <1>2
  <2> HIDE DEF h
  <2>3. i \in Int /\ i >= 0 /\ i < n - 1 /\ Distance(q, c) \in Int
    BY <1>1
  <2>4. \A p \in Positions : Distance(p, h) \in Int
    BY <1>1, <2>1
  <2>5. CASE f = "reduce"
    <3>1. Distance(q, c) = i /\ Distance(q, h) = i + 1 /\ Distance(q, c) # n - 1
      BY <1>1, <1>3, <1>6, <2>1, <2>3, <2>5
    <3>2. /\ Value(f, h, q, i, r) = {<<h, r>>}
          /\ Value(f, h, q, i + 1, r) = Arc(q, h, r)
      <4>1. ~(Distance(q, h) <= i) /\ Distance(q, h) <= i + 1
        BY <2>3, <3>1
      <4> QED BY <1>4, <2>5, <4>1
    <3>3. Taken(f, Value(f, h, q, i, r), Message(f, q, c, r)) = Value(f, h, q, i + 1, r)
      BY <2>2, <2>5, <3>1, <3>2 DEF Taken, Message
    <3>4. ASSUME NEW p \in Positions \ {q}
          PROVE  Value(f, h, p, i, r) = Value(f, h, p, i + 1, r)
      <4>1. Distance(p, h) # Distance(q, h)
        BY <1>1, <2>1
      <4>2. Distance(p, h) <= i <=> Distance(p, h) <= i + 1
        BY <2>3, <2>4, <3>1, <4>1
      <4>3. /\ Value("reduce", h, p, i, r) =
                 IF Distance(p, h) <= i THEN Arc(p, h, r) ELSE {<<h, r>>}
            /\ Value("reduce", h, p, i + 1, r) =
                 IF Distance(p, h) <= i + 1 THEN Arc(p, h, r) ELSE {<<h, r>>}
        BY <1>4
      <4>4. Value("reduce", h, p, i, r) = Value("reduce", h, p, i + 1, r)
        <5>1. CASE Distance(p, h) <= i
          BY <4>2, <4>3, <5>1
        <5>2. CASE ~(Distance(p, h) <= i)
          BY <4>2, <4>3, <5>2
        <5> QED BY <5>1, <5>2
      <4> QED BY <2>5, <4>4
    <3> QED BY <3>3, <3>4 DEF h
  <2>6. CASE f = "gather"
    <3>1. Distance(q, h) = i
      BY <1>1, <1>3, <1>6, <2>1, <2>3, <2>6
    <3>2. Value(f, h, q, i + 1, r) = All(r)
      <4>1. Distance(q, h) < i + 1
        BY <2>3, <3>1
      <4> QED BY <1>4, <2>6, <4>1
    <3>3. Taken(f, Value(f, h, q, i, r), Message(f, q, c, r)) = Value(f, h, q, i + 1, r)
      BY <2>6, <3>2 DEF Taken, Message
    <3>4. ASSUME NEW p \in Positions \ {q}
          PROVE  Value(f, h, p, i, r) = Value(f, h, p, i + 1, r)
      <4>1. Distance(p, h) # Distance(q, h)
        BY <1>1, <2>1
      <4>2. Distance(p, h) < i <=> Distance(p, h) < i + 1
        BY <2>3, <2>4, <3>1, <4>1
      <4>3. /\ Value("gather", h, p, i, r) =
                 IF Distance(p, h) < i \/ Distance(p, h) = n - 1 THEN All(r) ELSE Arc(p, h, r)
            /\ Value("gather", h, p, i + 1, r) =
                 IF Distance(p, h) < i + 1 \/ Distance(p, h) = n - 1 THEN All(r) ELSE Arc(p, h, r)
        BY <1>4
      <4>4. Value("gather", h, p, i, r) = Value("gather", h, p, i + 1, r)
        <5> HIDE DEF Value
        <5>1. CASE Distance(p, h) < i \/ Distance(p, h) = n - 1
          BY <4>2, <4>3, <5>1
        <5>2. CASE ~(Distance(p, h) < i \/ Distance(p, h) = n - 1)
          BY <4>2, <4>3, <5>2
        <5> QED BY <5>1, <5>2
      <4> QED BY <2>6, <4>4
    <3> QED BY <3>3, <3>4 DEF h
  <2> QED BY <2>5, <2>6 DEF Phases
<1>7. ASSUME NEW c \in Positions, NEW p \in Positions, NEW r
      PROVE  /\ Value("reduce", c, p, 0, r) = {<<c, r>>}
             /\ Value("reduce", c, p, n - 1, r) = Value("gather", c, p, 0, r)
             /\ Value("gather", c, p, n - 1, r) = All(r)
  <2>1. Distance(p, c) \in Int /\ Distance(p, c) >= 0 /\ Distance(p, c) <= n - 1
    BY <1>1
  <2>2. Value("reduce", c, p, 0, r) = {<<c, r>>}
    <3>1. Distance(p, c) <= 0 => p = c
      BY <1>1, <2>1
    <3> QED BY <1>2, <1>4, <3>1
  <2>3. ~(Distance(p, c) < 0)
    BY <2>1
  <2>4. Value("reduce", c, p, n - 1, r) = Value("gather", c, p, 0, r)
    BY <1>2, <1>4, <2>1, <2>3
  <2>5. Distance(p, c) < n - 1 \/ Distance(p, c) = n - 1
    BY <1>1, <2>1
  <2> QED BY <1>4, <2>2, <2>4, <2>5
<1>8. ASSUME NEW f \in Phases, NEW c \in Positions, NEW p \in Positions, NEW i \in 0..(n - 2),
             Distance(p, c) = SendDistance(f, i)
      PROVE  /\ i + 1 < n - 1 => Distance(Back(p), c) = SendDistance(f, i + 1)
             /\ f = "reduce" /\ i + 1 = n - 1 => Distance(Back(p), c) = SendDistance("gather", 0)
  <2>1. Distance(Back(p), c) = IF Distance(p, c) = n - 1 THEN 0 ELSE Distance(p, c) + 1
    BY <1>1
  <2>2. i \in Int /\ i >= 0 /\ i + 1 # 0 /\ n \in Int
    BY <1>1
  <2>3. CASE f = "reduce"
    <3>1. Distance(p, c) = i
      BY <1>3, <1>8, <2>3
    <3> QED BY <1>1, <1>3, <2>1, <2>2, <2>3, <3>1
  <2>4. CASE f # "reduce"
    <3>1. Distance(p, c) = IF i = 0 THEN n - 1 ELSE i - 1
      BY <1>3, <1>8, <2>4
    <3>2. i < n - 1 /\ SendDistance(f, i + 1) = i
      BY <1>1, <1>3, <2>2, <2>4
    <3> QED BY <1>1, <2>1, <2>2, <2>4, <3>1, <3>2
  <2> QED BY <2>3, <2>4
<1> QED
  <2>1. \A f \in Phases : \A c, p \in Positions : \A i \in 0..(n - 2) : \A r :
              Distance(p, c) = SendDistance(f, i) =>
                /\ Value(f, c, p, i, r) = Message(f, p, c, r)
                /\ Value(f, c, p, i + 1, r) = Message(f, p, c, r)
    BY <1>5
  <2>2. \A f \in Phases : \A c, q \in Positions : \A i \in 0..(n - 2) : \A r :
              Distance(q, c) = SendDistance(f, i) =>
                /\ Taken(f, Value(f, RankAfter(c), q, i, r), Message(f, q, c, r))
                     = Value(f, RankAfter(c), q, i + 1, r)
                /\ \A p \in Positions \ {q} :
                     Value(f, RankAfter(c), p, i, r) = Value(f, RankAfter(c), p, i + 1, r)
    BY <1>6
  <2>3. \A f \in Phases : \A c, p \in Positions : \A i \in 0..(n - 2) :
              Distance(p, c) = SendDistance(f, i) =>
                /\ i + 1 < n - 1 => Distance(Back(p), c) = SendDistance(f, i + 1)
                /\ f = "reduce" /\ i + 1 = n - 1 =>
                     Distance(Back(p), c) = SendDistance("gather", 0)
    BY <1>8
  <2>4. \A c, p \in Positions : \A r :
              /\ Value("reduce", c, p, 0, r) = {<<c, r>>}
              /\ Value("reduce", c, p, n - 1, r) = Value("gather", c, p, 0, r)
              /\ Value("gather", c, p, n - 1, r) = All(r)
    BY <1>7
  <2> QED BY <2>1, <2>2, <2>3, <2>4 DEF n

-----------------------------------------------------------------------------
(* How far the threads are, as numbers. *)

Placed(t) ==
  /\ phase[t] \in {"reduce", "gather", "done"} /\ round[t[1]] \in Int /\ round[t[1]] >= 0
  /\ Half(t) \in Int
  /\ phase[t] = "reduce" => Half(t) = 2 * round[t[1]] - 2
  /\ phase[t] = "gather" => Half(t) = 2 * round[t[1]] - 1
  /\ phase[t] = "done" => Half(t) = 2 * round[t[1]] /\ Step(t) = 0
  /\ phase[t] \in Phases => Step(t) = iteration[phase[t]][t]
  /\ \A f \in Phases : iteration[f][t] \in Int /\ iteration[f][t] >= 0
  /\ Step(t) \in Int /\ Step(t) >= 0

LEMMA Halves == RingTypes /\ stage = "formed" => \A t \in Threads : Placed(t)
<1> SUFFICES ASSUME RingTypes, stage = "formed", NEW t \in Threads
             PROVE  Placed(t)
  OBVIOUS
<1>1. t[1] \in Providers /\ phase[t] \in {"reduce", "gather", "done"}
  BY DEF RingTypes
<1>2. round[t[1]] \in Int /\ round[t[1]] >= 0
  BY <1>1 DEF RingTypes
<1>3. /\ phase[t] = "reduce" => Half(t) = 2 * round[t[1]] - 2
      /\ phase[t] = "gather" => Half(t) = 2 * round[t[1]] - 1
      /\ phase[t] = "done" => Half(t) = 2 * round[t[1]]
  BY DEF Half
<1>4. Half(t) \in Int
  <2>1. CASE phase[t] = "reduce"
    BY <1>2, <1>3, <2>1
  <2>2. CASE phase[t] = "gather"
    BY <1>2, <1>3, <2>2
  <2>3. CASE phase[t] = "done"
    BY <1>2, <1>3, <2>3
  <2> QED BY <1>1, <2>1, <2>2, <2>3
<1>5. \A f \in Phases : iteration[f][t] \in Int /\ iteration[f][t] >= 0
  <2>1. iteration \in [Phases -> [Threads -> Nat]]
    BY DEF RingTypes
  <2> QED BY <2>1
<1>6. /\ phase[t] = "done" => Step(t) = 0
      /\ phase[t] \in Phases => Step(t) = iteration[phase[t]][t]
  BY DEF Step, Phases
<1>7. Step(t) \in Int /\ Step(t) >= 0
  BY <1>1, <1>5, <1>6 DEF Phases
<1> QED BY <1>1, <1>2, <1>3, <1>4, <1>5, <1>6, <1>7 DEF Placed

(* The rings stay as they are while the providers average. *)
Still == UNCHANGED formationVars /\ Threads' = Threads

LEMMA Frozen ==
  ASSUME Still
  PROVE  /\ RingSize' = RingSize /\ Positions' = Positions
         /\ \A t : KeysOf(t)' = KeysOf(t) /\ RankOf(t)' = RankOf(t) /\ Dests(t)' = Dests(t)
         /\ \A p, t, k : Edge(p, t, k)' <=> Edge(p, t, k)
         /\ \A p, q : Distance(p, q)' = Distance(p, q)
         /\ \A f, i : SendDistance(f, i)' = SendDistance(f, i)
         /\ \A p, c, r : Arc(p, c, r)' = Arc(p, c, r)
         /\ \A r : All(r)' = All(r)
         /\ \A f, c, p, i, r : Value(f, c, p, i, r)' = Value(f, c, p, i, r)
         /\ (stage = "formed")' <=> stage = "formed"
         /\ Rings' <=> Rings
<1>1. /\ members' = members /\ keys' = keys /\ ringKeys' = ringKeys /\ address' = address
      /\ Threads' = Threads
  BY DEF Still, formationVars
<1>2. RingSize' = RingSize /\ Positions' = Positions
  BY <1>1 DEF RingSize, Positions
<1>3. \A t : KeysOf(t)' = KeysOf(t) /\ RankOf(t)' = RankOf(t) /\ Dests(t)' = Dests(t)
  BY <1>1 DEF KeysOf, RankOf, Dests, NodeRank, ClusterOf
<1>4. \A p, t, k : Edge(p, t, k)' <=> Edge(p, t, k)
  BY <1>1 DEF Edge, KeysOf
<1>5. \A p, q : Distance(p, q)' = Distance(p, q)
  BY <1>2 DEF Distance
<1>6. \A f, i : SendDistance(f, i)' = SendDistance(f, i)
  BY <1>2 DEF SendDistance
<1>7. \A p, c, r : Arc(p, c, r)' = Arc(p, c, r)
  BY <1>2 DEF Arc, Distance
<1>8. \A r : All(r)' = All(r)
  BY <1>2 DEF All
<1>9. \A f, c, p, i, r : Value(f, c, p, i, r)' = Value(f, c, p, i, r)
  BY <1>2 DEF Value, Reduced, Gathered, Arc, All, Distance, Positions
<1>10. (stage = "formed")' <=> stage = "formed"
  BY DEF Still, formationVars
<1>11. Rings' <=> Rings
  BY <1>1, <1>2 DEF Rings, RankAfter, NodeRank, ClusterOf
<1> QED BY <1>2, <1>3, <1>4, <1>5, <1>6, <1>7, <1>8, <1>9, <1>10, <1>11

(* What the invariant says while the providers average. *)
Averaging ==
  /\ stage = "formed" /\ RingSize > 1 /\ Rings
  /\ RingTypes
  /\ \A t \in Threads : ThreadInv(t) /\ GotInv(t) /\ ChunkInv(t)
  /\ EdgeInv
  /\ \A f \in Phases : \A t \in Threads : BufferInv(f, t)

LEMMA InAveraging ==
  ASSUME Averaging
  PROVE  /\ stage = "formed" /\ RingSize \in Int /\ RingSize > 1 /\ RingSize \in Nat \ {0}
         /\ Rings /\ ThreadSet /\ RingTypes
         /\ \A t \in Threads : /\ Placed(t) /\ ThreadInv(t) /\ RankOf(t) \in Positions
                               /\ t[1] \in Providers /\ KeysOf(t) \subseteq Keys
         /\ \A p, t \in Threads : \A k \in Keys : Edge(p, t, k) => NotOvertaken(p, t) /\ Follows(p, t)
<1>1. Rings /\ RingTypes /\ stage = "formed" /\ RingSize > 1
  BY DEF Averaging
<1>2. RingSize \in Nat \ {0}
  BY <1>1 DEF Rings
<1>3. ThreadSet
  BY <1>1 DEF RingTypes, ThreadSet
<1>4. \A t \in Threads : Placed(t)
  BY <1>1, Halves
<1>5. \A t \in Threads : ThreadInv(t)
  BY DEF Averaging
<1>6. \A t \in Threads : RankOf(t) \in Positions /\ t[1] \in Providers /\ KeysOf(t) \subseteq Keys
  BY <1>1, <1>3, HoldersHaveThreads
<1>7. \A p, t \in Threads : \A k \in Keys : Edge(p, t, k) => NotOvertaken(p, t) /\ Follows(p, t)
  BY DEF Averaging, EdgeInv
<1>8. RingSize \in Int
  BY <1>2
<1> QED BY <1>1, <1>2, <1>3, <1>4, <1>5, <1>6, <1>7, <1>8

-----------------------------------------------------------------------------
(* Sending.  When the receiver's iteration equals the sender's, it is that *)
(* of the same phase of the same round.                                    *)

LEMMA SendIsExact ==
  ASSUME Averaging, NEW t \in Threads, NEW u \in Threads, NEW k \in Keys, Edge(t, u, k),
         phase[t] \in Phases, u[1] \notin sent[t],
         iteration[phase[t]][u] = iteration[phase[t]][t]
  PROVE  /\ NextHalf(phase[t], u) = Half(t)
         /\ NextRound(phase[t], u) = round[t[1]]
         /\ ~Sent(t, u, phase[t])
         /\ ~(Half(t) = Half(u) /\ Step(t) = Step(u) + 1)
         /\ ~(Half(t) = Half(u) + 1 /\ Step(t) = 1)
         /\ \A f \in Phases : f # phase[t] => NextHalf(f, u) # Half(t)
<1>1. Placed(t) /\ Placed(u) /\ ThreadInv(u) /\ NotOvertaken(t, u) /\ Follows(t, u)
  BY InAveraging
<1>2. Half(t) <= Half(u) + 1 /\ (Half(u) < Half(t) \/ Half(u) = Half(t))
  BY <1>1 DEF NotOvertaken, Follows
<1>3. Step(t) = iteration[phase[t]][u]
  BY <1>1 DEF Placed
<1>4. /\ phase[u] # phase[t] => iteration[phase[t]][u] = 0
      /\ phase[u] = phase[t] => Step(u) = iteration[phase[t]][u]
      /\ phase[u] = "done" => Step(u) = 0
  BY <1>1 DEF ThreadInv, Placed
<1>5. /\ round[t[1]] \in Int /\ round[u[1]] \in Int /\ Half(t) \in Int /\ Half(u) \in Int
      /\ phase[t] \in {"reduce", "gather"} /\ phase[u] \in {"reduce", "gather", "done"}
      /\ phase[t] = "reduce" => Half(t) = 2 * round[t[1]] - 2
      /\ phase[t] = "gather" => Half(t) = 2 * round[t[1]] - 1
      /\ phase[u] = "reduce" => Half(u) = 2 * round[u[1]] - 2
      /\ phase[u] = "gather" => Half(u) = 2 * round[u[1]] - 1
      /\ phase[u] = "done" => Half(u) = 2 * round[u[1]]
  BY <1>1 DEF Placed, Phases
<1>6. /\ phase[t] = phase[u] => Half(u) = Half(t) /\ round[u[1]] = round[t[1]]
      /\ phase[t] = "reduce" /\ phase[u] = "gather" => Half(t) = Half(u) + 1 /\ round[t[1]] = round[u[1]] + 1
      /\ phase[t] = "gather" /\ phase[u] = "reduce" => Half(t) = Half(u) + 1 /\ round[t[1]] = round[u[1]]
      /\ phase[t] = "reduce" /\ phase[u] = "done" => Half(t) = Half(u) /\ round[t[1]] = round[u[1]] + 1
      /\ phase[t] = "gather" /\ phase[u] = "done" => Half(t) = Half(u) + 1 /\ round[t[1]] = round[u[1]] + 1
  BY <1>2, <1>5
<1>7. NextHalf(phase[t], u) = Half(t) /\ NextRound(phase[t], u) = round[t[1]]
  BY <1>5, <1>6 DEF NextHalf, NextRound
<1>8. ~Sent(t, u, phase[t])
  BY <1>1, <1>3, <1>5, <1>7 DEF Sent, Placed
<1>9. /\ ~(Half(t) = Half(u) /\ Step(t) = Step(u) + 1)
      /\ ~(Half(t) = Half(u) + 1 /\ Step(t) = 1)
  <2>1. Step(u) \in Int
    BY <1>1 DEF Placed
  <2> QED BY <2>1, <1>3, <1>4, <1>5, <1>6
<1>10. \A f \in Phases : f # phase[t] => NextHalf(f, u) # Half(t)
  BY <1>5, <1>6 DEF NextHalf, Phases
<1> QED BY <1>7, <1>8, <1>9, <1>10

(* The types of a step that leaves the formation alone. *)
TypesNext ==
  /\ round' \in [Providers -> Nat]
  /\ phase' \in [Threads -> {"reduce", "gather", "done"}]
  /\ iteration' \in [Phases -> [Threads -> Nat]]
  /\ buffer' \in [Phases -> [Threads -> Seq(Messages)]]
  /\ sendPos' \in [Threads -> Int]
  /\ sent' \in [Threads -> SUBSET Providers]
  /\ got' \in [Threads -> Nat]
  /\ chunks' = [v \in Threads |-> chunks'[v]]

LEMMA StillTyped ==
  ASSUME RingTypes, stage = "formed", Still, TypesNext
  PROVE  RingTypes'
<1>1. Threads' = Threads /\ Positions' = Positions /\ (stage = "formed")'
  BY Frozen DEF Still
<1>2. ringKeys' = ringKeys
  BY DEF Still, formationVars
<1>3. Messages' = Messages
  <2>1. Chunk' = Chunk
    BY <1>1 DEF Chunk
  <2> QED BY <2>1 DEF Messages
<1>4. Threads = {v \in Providers \X (0..(Params - 1)) : v[2] \in DOMAIN ringKeys[v[1]]}
  BY DEF RingTypes
<1>5. /\ Threads' = {v \in Providers \X (0..(Params - 1)) : v[2] \in DOMAIN ringKeys'[v[1]]}
      /\ round' \in [Providers -> Nat]
      /\ phase' \in [Threads' -> {"reduce", "gather", "done"}]
      /\ iteration' \in [Phases -> [Threads' -> Nat]]
      /\ buffer' \in [Phases -> [Threads' -> Seq(Messages')]]
      /\ sendPos' \in [Threads' -> Int]
      /\ sent' \in [Threads' -> SUBSET Providers]
      /\ got' \in [Threads' -> Nat]
      /\ chunks' = [v \in Threads' |-> chunks'[v]]
  BY <1>1, <1>2, <1>3, <1>4 DEF TypesNext
<1> QED BY <1>1, <1>5 DEF RingTypes

LEMMA MessageOfThread ==
  ASSUME Averaging, NEW t \in Threads, phase[t] \in Phases, NEW d \in Dests(t)
  PROVE  /\ DOMAIN ChunkFor(t, d) = {k \in KeysOf(t) : address[t[1]][k] = d}
         /\ DOMAIN ChunkFor(t, d) # {}
         /\ ChunkFor(t, d) \in Messages
         /\ sendPos[t] \in Positions /\ Distance(sendPos[t], RankOf(t)) = SendDistance(phase[t], Step(t))
         /\ \A k \in DOMAIN ChunkFor(t, d) :
              /\ ChunkFor(t, d)[k].pos = sendPos[t]
              /\ ChunkFor(t, d)[k].value = Message(phase[t], sendPos[t], RankOf(t), round[t[1]])
<1> DEFINE m == ChunkFor(t, d)
           N == {k \in KeysOf(t) : address[t[1]][k] = d}
           c == RankOf(t)
           r == round[t[1]]
           f == phase[t]
           x == Message(f, sendPos[t], c, r)
<1>1. /\ Placed(t) /\ ThreadInv(t) /\ c \in Positions /\ KeysOf(t) \subseteq Keys
      /\ RingSize \in Int /\ RingSize > 1 /\ RingSize \in Nat \ {0} /\ t[1] \in Providers
  BY InAveraging
<1>2. /\ sendPos[t] \in Positions
      /\ Distance(sendPos[t], c) = SendDistance(f, Step(t))
      /\ chunks[t] = [k \in KeysOf(t) |-> [p \in Positions |->
            Value(f, c, p, IF k \in Received(t) THEN Step(t) + 1 ELSE Step(t), r)]]
  BY DEF Averaging, ChunkInv
<1>3. Step(t) \in 0..(RingSize - 2)
  <2>1. Step(t) \in Int /\ Step(t) >= 0 /\ Step(t) < RingSize - 1
    BY <1>1 DEF Placed, ThreadInv
  <2> QED BY <1>1, <2>1
<1>4. Value(f, c, sendPos[t], Step(t), r) = x /\ Value(f, c, sendPos[t], Step(t) + 1, r) = x
  BY <1>1, <1>2, <1>3, Values
<1>5. m = [k \in N |-> [pos |-> sendPos[t], value |-> chunks[t][k][sendPos[t]]]]
  BY DEF ChunkFor, KeysOf
<1>6. \A k \in N : chunks[t][k][sendPos[t]] = x
  <2> SUFFICES ASSUME NEW k \in N PROVE chunks[t][k][sendPos[t]] = x
    OBVIOUS
  <2>1. k \in KeysOf(t)
    OBVIOUS
  <2>2. chunks[t][k][sendPos[t]] =
          Value(f, c, sendPos[t], IF k \in Received(t) THEN Step(t) + 1 ELSE Step(t), r)
    BY <1>2, <2>1
  <2> QED BY <1>4, <2>2
<1>7. r \in Nat
  <2>1. round \in [Providers -> Nat]
    BY InAveraging DEF RingTypes
  <2> QED BY <1>1, <2>1
<1>8. x \in SUBSET (Positions \X Nat)
  BY <1>7 DEF Message, Arc, All
<1>9. DOMAIN m = N /\ \A k \in N : m[k].pos = sendPos[t] /\ m[k].value = x
  BY <1>5, <1>6
<1>10. m \in [N -> Chunk]
  <2>1. m = [k \in N |-> [pos |-> sendPos[t], value |-> x]]
    BY <1>5, <1>6
  <2>2. [pos |-> sendPos[t], value |-> x] \in Chunk
    BY <1>2, <1>8 DEF Chunk
  <2> HIDE DEF m, N, x
  <2> QED BY <2>1, <2>2
<1>11. N \in SUBSET Keys
  BY <1>1
<1>12. m \in Messages
  BY <1>10, <1>11 DEF Messages
<1>13. N # {}
  BY DEF Dests, KeysOf
<1> QED BY <1>2, <1>9, <1>12, <1>13

LEMMA SendStep ==
  ASSUME Averaging, NEW t \in Threads, NEW d \in Providers, Send(t, d)
  PROVE  Averaging'
<1> DEFINE u == <<d, t[2]>>
           m == ChunkFor(t, d)
<1>0. PICK f \in Phases : f = phase[t]
  BY DEF Send, CanSend
<1>1. /\ d \in Dests(t) /\ d \notin sent[t]
      /\ iteration[f][u] = iteration[f][t]
      /\ buffer' = [buffer EXCEPT ![f][u] = Append(@, m)]
      /\ sent' = [sent EXCEPT ![t] = @ \union {d}]
      /\ UNCHANGED <<formationVars, round, phase, iteration, sendPos, got, chunks>>
  BY <1>0 DEF Send, CanSend, MaySend, Deliver
<1>2. Still
  BY <1>1 DEF Still, Threads
<1>3. /\ stage = "formed" /\ RingSize \in Int /\ RingSize > 1 /\ RingSize \in Nat \ {0}
      /\ Rings /\ ThreadSet /\ RingTypes
      /\ \A v \in Threads : /\ Placed(v) /\ ThreadInv(v) /\ RankOf(v) \in Positions
                            /\ v[1] \in Providers /\ KeysOf(v) \subseteq Keys
      /\ \A p, v \in Threads : \A k \in Keys : Edge(p, v, k) => NotOvertaken(p, v) /\ Follows(p, v)
  BY InAveraging
<1>4. PICK key \in KeysOf(t) : address[t[1]][key] = d
  BY <1>1 DEF Dests, KeysOf
<1>5. u \in Threads /\ Edge(t, u, key) /\ key \in Keys /\ u[1] = d /\ u # t
  <2>1. Edge(t, u, key)
    BY <1>3, <1>4, EdgeFacts
  <2>2. key \in Keys /\ u \in Threads
    BY <1>3, <1>4, <2>1 DEF Edge
  <2>3. u # t
    BY <1>3, <2>1, <2>2, EdgeFacts
  <2> QED BY <2>1, <2>2, <2>3
<1>6. \A v \in Threads : \A k \in Keys : Edge(t, v, k) /\ v[1] = d => v = u
  BY <1>3, <1>5, EdgeFacts
<1>7. \A k \in KeysOf(t) : address[t[1]][k] = d => Edge(t, u, k)
  BY <1>3, EdgeFacts
<1> HIDE DEF u
<1>8. /\ NextHalf(f, u) = Half(t) /\ NextRound(f, u) = round[t[1]]
      /\ ~Sent(t, u, f)
      /\ ~(Half(t) = Half(u) /\ Step(t) = Step(u) + 1)
      /\ ~(Half(t) = Half(u) + 1 /\ Step(t) = 1)
      /\ \A g \in Phases : g # f => NextHalf(g, u) # Half(t)
  BY <1>0, <1>1, <1>5, SendIsExact
<1>9. /\ DOMAIN m = {k \in KeysOf(t) : address[t[1]][k] = d}
      /\ DOMAIN m # {} /\ m \in Messages
      /\ sendPos[t] \in Positions /\ Distance(sendPos[t], RankOf(t)) = SendDistance(f, Step(t))
      /\ \A k \in DOMAIN m :
           /\ m[k].pos = sendPos[t]
           /\ m[k].value = Message(f, sendPos[t], RankOf(t), round[t[1]])
  BY <1>0, <1>1, MessageOfThread
<1>10. Step(t) = iteration[f][u]
  BY <1>0, <1>1, <1>3 DEF Placed
<1> HIDE DEF m
(* What does not change, and what does. *)
<1>11. /\ \A v : Half(v)' = Half(v) /\ Step(v)' = Step(v)
       /\ \A g, v : NextHalf(g, v)' = NextHalf(g, v) /\ NextRound(g, v)' = NextRound(g, v)
       /\ phase' = phase /\ iteration' = iteration /\ round' = round /\ sendPos' = sendPos
       /\ got' = got /\ chunks' = chunks
  BY <1>1 DEF Half, Step, NextHalf, NextRound
<1>12. /\ sent \in [Threads -> SUBSET Providers]
       /\ buffer \in [Phases -> [Threads -> Seq(Messages)]]
       /\ iteration \in [Phases -> [Threads -> Nat]]
  BY <1>3 DEF RingTypes
<1>13. /\ sent'[t] = sent[t] \union {d}
       /\ \A v \in Threads : v # t => sent'[v] = sent[v]
  BY <1>1, <1>12
<1>14. /\ buffer' \in [Phases -> [Threads -> Seq(Messages)]]
       /\ buffer'[f][u] = Append(buffer[f][u], m)
       /\ \A g \in Phases : \A v \in Threads : ~(g = f /\ v = u) => buffer'[g][v] = buffer[g][v]
  <2>1. buffer[f][u] \in Seq(Messages) /\ f \in Phases
    BY <1>1, <1>5, <1>12
  <2>2. Append(buffer[f][u], m) \in Seq(Messages)
    BY <2>1, <1>9
  <2> QED BY <1>1, <1>5, <1>12, <2>1, <2>2
<1>15. Sent(t, u, f)'
  BY <1>5, <1>8, <1>10, <1>11, <1>13, <1>3 DEF Sent
<1>16. \A p, v \in Threads : \A k \in Keys : \A g \in Phases :
         Edge(p, v, k) /\ ~(p = t /\ v = u /\ g = f) => (Sent(p, v, g)' <=> Sent(p, v, g))
  <2> SUFFICES ASSUME NEW p \in Threads, NEW v \in Threads, NEW k \in Keys, NEW g \in Phases,
                      Edge(p, v, k), ~(p = t /\ v = u /\ g = f)
               PROVE  Sent(p, v, g)' <=> Sent(p, v, g)
    OBVIOUS
  <2>1. CASE p # t \/ v[1] # d
    <3>1. v[1] \in sent'[p] <=> v[1] \in sent[p]
      BY <1>13, <2>1
    <3> QED BY <3>1, <1>11 DEF Sent
  <2>2. CASE p = t /\ v[1] = d
    <3>1. v = u /\ g # f
      BY <1>6, <2>2
    <3>2. NextHalf(g, v) # Half(p)
      BY <1>8, <2>2, <3>1
    <3> QED BY <3>2, <1>11 DEF Sent
  <2> QED BY <2>1, <2>2
<1>17. \A g \in Phases : \A v \in Threads : \A k \in Keys :
         InBuffer(g, v, k)' <=> InBuffer(g, v, k) \/ (g = f /\ v = u /\ k \in DOMAIN m)
  <2> SUFFICES ASSUME NEW g \in Phases, NEW v \in Threads, NEW k \in Keys
               PROVE  InBuffer(g, v, k)' <=> InBuffer(g, v, k) \/ (g = f /\ v = u /\ k \in DOMAIN m)
    OBVIOUS
  <2>1. CASE ~(g = f /\ v = u)
    BY <1>14, <2>1 DEF InBuffer
  <2>2. CASE g = f /\ v = u
    <3> DEFINE b == buffer[f][u]
    <3>1. b \in Seq(Messages)
      BY <1>1, <1>5, <1>12
    <3> HIDE DEF b
    <3>2. /\ Len(b) \in Nat /\ DOMAIN b = 1..Len(b)
          /\ DOMAIN Append(b, m) = 1..(Len(b) + 1)
          /\ \A i \in DOMAIN b : Append(b, m)[i] = b[i]
          /\ Append(b, m)[Len(b) + 1] = m
      BY <1>9, <3>1, Appended
    <3>3. (\E i \in DOMAIN Append(b, m) : k \in DOMAIN Append(b, m)[i])
             <=> (\E i \in DOMAIN b : k \in DOMAIN b[i]) \/ k \in DOMAIN m
      BY <3>2
    <3> QED BY <2>2, <1>14, <3>3 DEF InBuffer, b
  <2> QED BY <2>1, <2>2
<1>18. \A k \in DOMAIN m : k \in Keys /\ Edge(t, u, k) /\ k \in KeysOf(u) /\ ~InBuffer(f, u, k)
  <2> SUFFICES ASSUME NEW k \in DOMAIN m
               PROVE  k \in Keys /\ Edge(t, u, k) /\ k \in KeysOf(u) /\ ~InBuffer(f, u, k)
    OBVIOUS
  <2>1. k \in KeysOf(t) /\ k \in Keys /\ Edge(t, u, k)
    BY <1>3, <1>7, <1>9
  <2>2. k \in KeysOf(u)
    BY <2>1 DEF Edge
  <2>3. BufferInv(f, u)
    BY <1>1, <1>5 DEF Averaging
  <2>4. InBuffer(f, u, k) => Sent(t, u, f)
    BY <2>1, <2>3 DEF BufferInv
  <2> QED BY <1>8, <2>1, <2>2, <2>4
(* The conjuncts, one by one. *)
<1>19. /\ RingSize' = RingSize /\ Positions' = Positions
       /\ \A v : KeysOf(v)' = KeysOf(v) /\ RankOf(v)' = RankOf(v) /\ Dests(v)' = Dests(v)
       /\ \A p, v, k : Edge(p, v, k)' <=> Edge(p, v, k)
       /\ \A p, q : Distance(p, q)' = Distance(p, q)
       /\ \A g, i : SendDistance(g, i)' = SendDistance(g, i)
       /\ \A p, c, r : Arc(p, c, r)' = Arc(p, c, r)
       /\ \A r : All(r)' = All(r)
       /\ \A g, c, p, i, r : Value(g, c, p, i, r)' = Value(g, c, p, i, r)
       /\ (stage = "formed")' /\ Rings' /\ Threads' = Threads
  BY <1>2, <1>3, Frozen DEF Still
<1>20. RingTypes'
  <2>1. sent' \in [Threads -> SUBSET Providers]
    BY <1>1, <1>12
  <2>2. /\ round \in [Providers -> Nat]
        /\ phase \in [Threads -> {"reduce", "gather", "done"}]
        /\ iteration \in [Phases -> [Threads -> Nat]]
        /\ sendPos \in [Threads -> Int]
        /\ got \in [Threads -> Nat]
        /\ chunks = [v \in Threads |-> chunks[v]]
    BY <1>3 DEF RingTypes
  <2>3. TypesNext
    BY <1>11, <1>14, <2>1, <2>2 DEF TypesNext
  <2> QED BY <1>2, <1>3, <2>3, StillTyped
<1>21. \A v \in Threads : ThreadInv(v)'
  <2> SUFFICES ASSUME NEW v \in Threads PROVE ThreadInv(v)'
    OBVIOUS
  <2>1. ThreadInv(v)
    BY <1>3
  <2>2. CASE v # t
    <3>1. sent'[v] = sent[v]
      BY <1>13, <2>2
    <3> QED BY <1>11, <1>19, <2>1, <3>1 DEF ThreadInv
  <2>3. CASE v = t
    <3>1. sent'[t] \subseteq Dests(t) /\ phase[t] # "done"
      BY <1>0, <1>1, <1>13, <2>1, <2>3 DEF ThreadInv, Phases
    <3> QED BY <1>11, <1>19, <2>1, <2>3, <3>1 DEF ThreadInv
  <2> QED BY <2>2, <2>3
<1>22. EdgeInv'
  <2> SUFFICES ASSUME NEW p \in Threads, NEW v \in Threads, NEW k \in Keys, Edge(p, v, k)
               PROVE  NotOvertaken(p, v)' /\ Follows(p, v)'
    BY <1>19 DEF EdgeInv
  <2>1. NotOvertaken(p, v) /\ Follows(p, v)
    BY <1>3
  <2>2. v[1] \in sent[p] => v[1] \in sent'[p]
    BY <1>13
  <2>3. Follows(p, v)'
    BY <1>11, <1>19, <2>1, <2>2 DEF Follows
  <2>4. CASE p # t \/ v[1] # d
    <3>1. v[1] \in sent[p] <=> v[1] \in sent'[p]
      BY <1>13, <2>4
    <3> QED BY <1>11, <1>19, <2>1, <2>3, <3>1 DEF NotOvertaken
  <2>5. CASE p = t /\ v[1] = d
    <3>1. v = u
      BY <1>6, <2>5
    <3> QED BY <1>8, <1>11, <1>19, <2>1, <2>3, <2>5, <3>1 DEF NotOvertaken
  <2> QED BY <2>4, <2>5
<1>23. \A g \in Phases : \A v \in Threads : BufferInv(g, v)'
  <2> SUFFICES ASSUME NEW g \in Phases, NEW v \in Threads PROVE BufferInv(g, v)'
    OBVIOUS
  <2>1. BufferInv(g, v)
    BY DEF Averaging
  <2>2. \A c : ChunkFits(g, v, c)' <=> ChunkFits(g, v, c)
    BY <1>11, <1>19 DEF ChunkFits
  <2>3. \A p \in Threads : \A k \in Keys : Edge(p, v, k) =>
          /\ InBuffer(g, v, k)' => Sent(p, v, g)'
          /\ phase[v] # g /\ Sent(p, v, g)' => InBuffer(g, v, k)'
    <3> SUFFICES ASSUME NEW p \in Threads, NEW k \in Keys, Edge(p, v, k)
                 PROVE  /\ InBuffer(g, v, k)' => Sent(p, v, g)'
                        /\ phase[v] # g /\ Sent(p, v, g)' => InBuffer(g, v, k)'
      OBVIOUS
    <3>1. /\ InBuffer(g, v, k) => Sent(p, v, g)
          /\ phase[v] # g /\ Sent(p, v, g) => InBuffer(g, v, k)
      BY <2>1 DEF BufferInv
    <3>2. InBuffer(g, v, k)' <=> InBuffer(g, v, k) \/ (g = f /\ v = u /\ k \in DOMAIN m)
      BY <1>17
    <3>3. CASE p = t /\ v = u /\ g = f
      <4>1. k \in DOMAIN m
        BY <1>5, <1>9, <3>3 DEF Edge
      <4> QED BY <1>15, <3>2, <3>3, <4>1
    <3>4. CASE ~(p = t /\ v = u /\ g = f)
      <4>1. Sent(p, v, g)' <=> Sent(p, v, g)
        BY <1>16, <3>4
      <4>2. ~(g = f /\ v = u /\ k \in DOMAIN m)
        BY <1>3, <1>18, <3>4, EdgeFacts
      <4> QED BY <3>1, <3>2, <4>1, <4>2
    <3> QED BY <3>3, <3>4
  <2>4. CASE ~(g = f /\ v = u)
    <3>1. buffer'[g][v] = buffer[g][v]
      BY <1>14, <2>4
    <3> QED BY <1>11, <1>19, <2>1, <2>2, <2>3, <3>1 DEF BufferInv
  <2>5. CASE g = f /\ v = u
    <3> DEFINE b == buffer[f][u]
               c == Append(b, m)
    <3>1. b \in Seq(Messages) /\ buffer'[g][v] = c
      BY <1>1, <1>5, <1>12, <1>14, <2>5
    <3> HIDE DEF b
    <3>2. /\ Len(b) \in Nat /\ DOMAIN b = 1..Len(b)
          /\ DOMAIN c = 1..(Len(b) + 1)
          /\ \A i \in DOMAIN b : c[i] = b[i]
          /\ c[Len(b) + 1] = m
      BY <1>9, <3>1, Appended
    <3> HIDE DEF c
    <3>3. \A k \in DOMAIN m : ChunkFits(f, u, m[k])
      <4> SUFFICES ASSUME NEW k \in DOMAIN m PROVE ChunkFits(f, u, m[k])
        OBVIOUS
      <4>1. RankOf(u) = IF RankOf(t) = RingSize - 1 THEN 0 ELSE RankOf(t) + 1
        BY <1>3, <1>5, EdgeFacts DEF RankAfter
      <4>2. /\ RankOf(t) \in Positions /\ m[k].pos \in Positions
            /\ Distance(m[k].pos, RankOf(t)) = SendDistance(f, iteration[f][u])
        BY <1>3, <1>9, <1>10
      <4>3. m[k].value = IF f = "reduce" THEN Arc(m[k].pos, RankOf(t), NextRound(f, u))
                         ELSE All(NextRound(f, u))
        BY <1>8, <1>9 DEF Message
      <4> QED BY <4>1, <4>2, <4>3 DEF ChunkFits
    <3>4. \A i \in DOMAIN c : c[i] = m \/ (i \in DOMAIN b /\ c[i] = b[i])
      BY <3>2
    <3>5. /\ \A i \in DOMAIN b : DOMAIN b[i] # {} /\ DOMAIN b[i] \subseteq KeysOf(u)
          /\ \A i \in DOMAIN b : \A k \in DOMAIN b[i] : ChunkFits(f, u, b[i][k])
          /\ \A i, j \in DOMAIN b : \A k \in Keys : k \in DOMAIN b[i] /\ k \in DOMAIN b[j] => i = j
          /\ \A i \in DOMAIN b : \A k \in DOMAIN m : k \notin DOMAIN b[i]
      BY <1>18, <2>1, <2>5 DEF BufferInv, InBuffer, b
    <3>6. \A i \in DOMAIN c : /\ DOMAIN c[i] # {} /\ DOMAIN c[i] \subseteq KeysOf(u)
                              /\ \A k \in DOMAIN c[i] : ChunkFits(f, u, c[i][k])
      <4> SUFFICES ASSUME NEW i \in DOMAIN c
                   PROVE  /\ DOMAIN c[i] # {} /\ DOMAIN c[i] \subseteq KeysOf(u)
                          /\ \A k \in DOMAIN c[i] : ChunkFits(f, u, c[i][k])
        OBVIOUS
      <4>1. CASE c[i] = m
        BY <1>9, <1>18, <3>3, <4>1
      <4>2. CASE i \in DOMAIN b /\ c[i] = b[i]
        BY <3>5, <4>2
      <4> QED BY <3>4, <4>1, <4>2
    <3>7. \A i, j \in DOMAIN c : \A k \in Keys : k \in DOMAIN c[i] /\ k \in DOMAIN c[j] => i = j
      <4> SUFFICES ASSUME NEW i \in DOMAIN c, NEW j \in DOMAIN c, NEW k \in Keys,
                          k \in DOMAIN c[i], k \in DOMAIN c[j]
                   PROVE  i = j
        OBVIOUS
      <4>1. (i \in DOMAIN b /\ c[i] = b[i]) \/ (i = Len(b) + 1 /\ c[i] = m)
        BY <3>2
      <4>2. (j \in DOMAIN b /\ c[j] = b[j]) \/ (j = Len(b) + 1 /\ c[j] = m)
        BY <3>2
      <4> QED BY <3>5, <4>1, <4>2
    <3>8. /\ \A i \in DOMAIN buffer'[g][v] :
               /\ DOMAIN buffer'[g][v][i] # {} /\ DOMAIN buffer'[g][v][i] \subseteq KeysOf(v)
               /\ \A k \in DOMAIN buffer'[g][v][i] : ChunkFits(g, v, buffer'[g][v][i][k])
          /\ \A i, j \in DOMAIN buffer'[g][v] : \A k \in Keys :
               k \in DOMAIN buffer'[g][v][i] /\ k \in DOMAIN buffer'[g][v][j] => i = j
      BY <2>5, <3>1, <3>6, <3>7
    <3> QED BY <1>11, <1>19, <2>2, <2>3, <3>8 DEF BufferInv
  <2> QED BY <2>4, <2>5
<1>24. \A v \in Threads : phase[v] \in Phases => Received(v)' = Received(v)
  <2> SUFFICES ASSUME NEW v \in Threads, phase[v] \in Phases PROVE Received(v)' = Received(v)
    OBVIOUS
  <2>1. ASSUME NEW k \in KeysOf(v), NEW p \in Threads, Edge(p, v, k)
        PROVE  (~InBuffer(phase[v], v, k)' /\ Sent(p, v, phase[v])')
                 <=> (~InBuffer(phase[v], v, k) /\ Sent(p, v, phase[v]))
    <3>1. k \in Keys
      BY <1>3
    <3>2. InBuffer(phase[v], v, k)' <=> InBuffer(phase[v], v, k) \/ (phase[v] = f /\ v = u /\ k \in DOMAIN m)
      BY <1>11, <1>17, <3>1
    <3>3. CASE p = t /\ v = u /\ phase[v] = f
      <4>1. k \in DOMAIN m
        BY <1>5, <1>9, <2>1, <3>3 DEF Edge
      <4> QED BY <1>8, <3>2, <3>3, <4>1
    <3>4. CASE ~(p = t /\ v = u /\ phase[v] = f)
      <4>1. Sent(p, v, phase[v])' <=> Sent(p, v, phase[v])
        BY <1>11, <1>16, <2>1, <3>1, <3>4
      <4>2. ~(phase[v] = f /\ v = u /\ k \in DOMAIN m)
        BY <1>3, <1>18, <2>1, <3>1, <3>4, EdgeFacts
      <4> QED BY <3>2, <4>1, <4>2
    <3> QED BY <3>3, <3>4
  <2>2. Received(v)' = {k \in KeysOf(v) :
           ~InBuffer(phase[v], v, k)' /\ \E p \in Threads : Edge(p, v, k) /\ Sent(p, v, phase[v])'}
    BY <1>11, <1>19 DEF Received
  <2> QED BY <2>1, <2>2 DEF Received
<1>25. \A v \in Threads : GotInv(v)' /\ ChunkInv(v)'
  <2> SUFFICES ASSUME NEW v \in Threads PROVE GotInv(v)' /\ ChunkInv(v)'
    OBVIOUS
  <2>1. GotInv(v) /\ ChunkInv(v)
    BY DEF Averaging
  <2>2. phase[v] \in Phases => Received(v)' = Received(v)
    BY <1>24
  <2>3. GotInv(v)'
    BY <1>11, <2>1, <2>2 DEF GotInv
  <2>4. ChunkInv(v)'
    <3>1. phase[v] \in Phases => [k \in KeysOf(v) |-> [p \in Positions |->
            Value(phase[v], RankOf(v), p, IF k \in Received(v) THEN Step(v) + 1 ELSE Step(v), round[v[1]])]]'
          = [k \in KeysOf(v) |-> [p \in Positions |->
            Value(phase[v], RankOf(v), p, IF k \in Received(v) THEN Step(v) + 1 ELSE Step(v), round[v[1]])]]
      BY <1>11, <1>19, <2>2
    <3> QED BY <1>11, <1>19, <2>1, <3>1 DEF ChunkInv
  <2> QED BY <2>3, <2>4
<1> QED BY <1>3, <1>19, <1>20, <1>21, <1>22, <1>23, <1>25 DEF Averaging

-----------------------------------------------------------------------------
(* Receiving.  With the message that a thread takes, those of its          *)
(* parameters that had not been received hold one cluster more.            *)

With(t) == Received(t) \union DOMAIN Head(buffer[phase[t]][t])
Over(t) == got[t] + Cardinality(DOMAIN Head(buffer[phase[t]][t])) >= Cardinality(KeysOf(t))

LEMMA HeadOfBuffer ==
  ASSUME Averaging, NEW t \in Threads, phase[t] \in Phases, buffer[phase[t]][t] # <<>>
  PROVE  /\ buffer[phase[t]][t] \in Seq(Messages)
         /\ Head(buffer[phase[t]][t]) = buffer[phase[t]][t][1]
         /\ 1 \in DOMAIN buffer[phase[t]][t]
         /\ DOMAIN Head(buffer[phase[t]][t]) \subseteq KeysOf(t)
         /\ DOMAIN Head(buffer[phase[t]][t]) # {}
         /\ \A k \in DOMAIN Head(buffer[phase[t]][t]) : InBuffer(phase[t], t, k) /\ k \notin Received(t)
         /\ \A k \in With(t) : k \in KeysOf(t) /\ \A p \in Threads : Edge(p, t, k) => Sent(p, t, phase[t])
<1> DEFINE f == phase[t]
           b == buffer[f][t]
           m == Head(b)
<1>1. /\ stage = "formed" /\ Rings /\ ThreadSet /\ RingTypes /\ KeysOf(t) \subseteq Keys
  BY InAveraging
<1>2. BufferInv(f, t)
  BY DEF Averaging
<1>3. b \in Seq(Messages)
  <2>1. buffer \in [Phases -> [Threads -> Seq(Messages)]]
    BY <1>1 DEF RingTypes
  <2> QED BY <2>1
<1>4. m = b[1] /\ 1 \in DOMAIN b
  <2>1. Len(b) \in Nat /\ Len(b) > 0 /\ DOMAIN b = 1..Len(b) /\ Head(b) = b[1]
    BY <1>3, TailOf
  <2> QED BY <2>1
<1>5. DOMAIN m \subseteq KeysOf(t) /\ DOMAIN m # {}
  BY <1>2, <1>4 DEF BufferInv
<1>6. \A k \in DOMAIN m : InBuffer(f, t, k)
  BY <1>4 DEF InBuffer
<1>7. \A k \in DOMAIN m : k \notin Received(t)
  BY <1>6 DEF Received
<1>8. \A k \in With(t) : k \in KeysOf(t) /\ \A p \in Threads : Edge(p, t, k) => Sent(p, t, f)
  <2> SUFFICES ASSUME NEW k \in With(t)
               PROVE  k \in KeysOf(t) /\ \A p \in Threads : Edge(p, t, k) => Sent(p, t, f)
    OBVIOUS
  <2>1. CASE k \in Received(t)
    <3>1. k \in KeysOf(t) /\ k \in Keys
      BY <1>1, <2>1 DEF Received
    <3>2. PICK q \in Threads : Edge(q, t, k) /\ Sent(q, t, f)
      BY <2>1 DEF Received
    <3> QED BY <1>1, <3>1, <3>2, EdgeFacts
  <2>2. CASE k \in DOMAIN m
    <3>1. k \in KeysOf(t) /\ k \in Keys
      BY <1>1, <1>5, <2>2
    <3> QED BY <1>2, <1>6, <2>2, <3>1 DEF BufferInv
  <2> QED BY <2>1, <2>2 DEF With
<1> QED BY <1>3, <1>4, <1>5, <1>6, <1>7, <1>8

(* The chunks after the message. *)
LEMMA ChunksWith ==
  ASSUME Averaging, NEW t \in Threads, Receive(t)
  PROVE  /\ chunks' = [v \in Threads |-> chunks'[v]]
         /\ \A v \in Threads : v # t => chunks'[v] = chunks[v]
         /\ chunks'[t] = [k \in KeysOf(t) |-> [p \in Positions |->
              Value(phase[t], RankOf(t), p, IF k \in With(t) THEN Step(t) + 1 ELSE Step(t), round[t[1]])]]
<1> DEFINE m == Head(buffer[phase[t]][t])
           h == RankOf(t)
           r == round[t[1]]
           old(k) == [p \in Positions |->
             Value(phase[t], h, p, IF k \in Received(t) THEN Step(t) + 1 ELSE Step(t), r)]
           new(k) == [p \in Positions |->
             Value(phase[t], h, p, IF k \in With(t) THEN Step(t) + 1 ELSE Step(t), r)]
           value(k) == IF phase[t] = "reduce" THEN Add(chunks[t][k][m[k].pos], m[k].value)
                       ELSE m[k].value
<1>1. /\ phase[t] \in Phases /\ buffer[phase[t]][t] # <<>>
      /\ chunks' = [chunks EXCEPT ![t] = [k \in DOMAIN @ |->
            IF k \in DOMAIN m THEN [@[k] EXCEPT ![m[k].pos] = value(k)] ELSE @[k]]]
  BY DEF Receive, CanReceive
<1>2. /\ RingTypes /\ stage = "formed" /\ Placed(t) /\ ThreadInv(t) /\ h \in Positions
      /\ RingSize \in Int /\ RingSize > 1 /\ RingSize \in Nat \ {0}
  BY InAveraging
<1>3. chunks = [v \in Threads |-> chunks[v]]
  BY <1>2 DEF RingTypes
<1>4. chunks[t] = [k \in KeysOf(t) |-> old(k)]
  BY <1>1 DEF Averaging, ChunkInv
<1>5. /\ 1 \in DOMAIN buffer[phase[t]][t] /\ m = buffer[phase[t]][t][1]
      /\ DOMAIN m \subseteq KeysOf(t)
      /\ \A k \in DOMAIN m : k \notin Received(t)
  BY <1>1, HeadOfBuffer
<1>6. Step(t) \in 0..(RingSize - 2) /\ Step(t) = iteration[phase[t]][t]
  <2>1. Step(t) \in Int /\ Step(t) >= 0 /\ Step(t) < RingSize - 1 /\ Step(t) = iteration[phase[t]][t]
    BY <1>1, <1>2 DEF Placed, ThreadInv
  <2> QED BY <1>2, <2>1
<1>7. NextRound(phase[t], t) = r
  BY <1>1 DEF NextRound, Phases
<1>8. ASSUME NEW k \in DOMAIN m
      PROVE  [chunks[t][k] EXCEPT ![m[k].pos] = value(k)] = new(k)
  <2>1. ChunkFits(phase[t], t, m[k])
    BY <1>1, <1>5 DEF Averaging, BufferInv
  <2> DEFINE q == m[k].pos
  <2>2. PICK s \in Positions :
          /\ h = RankAfter(s)
          /\ q \in Positions /\ Distance(q, s) = SendDistance(phase[t], Step(t))
          /\ m[k].value = Message(phase[t], q, s, r)
    BY <1>6, <1>7, <2>1 DEF ChunkFits, RankAfter, Message
  <2>3. chunks[t][k] = [p \in Positions |-> Value(phase[t], h, p, Step(t), r)]
    BY <1>4, <1>5
  <2>4. new(k) = [p \in Positions |-> Value(phase[t], h, p, Step(t) + 1, r)]
    BY DEF With
  <2>5. value(k) = Taken(phase[t], Value(phase[t], h, q, Step(t), r), Message(phase[t], q, s, r))
    BY <2>2, <2>3 DEF Taken
  <2>6. /\ value(k) = Value(phase[t], h, q, Step(t) + 1, r)
        /\ \A p \in Positions \ {q} :
             Value(phase[t], h, p, Step(t), r) = Value(phase[t], h, p, Step(t) + 1, r)
    <3> HIDE DEF value, new, old, q, m, h, r
    <3>1. /\ Taken(phase[t], Value(phase[t], RankAfter(s), q, Step(t), r), Message(phase[t], q, s, r))
               = Value(phase[t], RankAfter(s), q, Step(t) + 1, r)
          /\ \A p \in Positions \ {q} :
               Value(phase[t], RankAfter(s), p, Step(t), r) = Value(phase[t], RankAfter(s), p, Step(t) + 1, r)
      BY <1>1, <1>2, <1>6, <2>2, Values
    <3> QED BY <2>2, <2>5, <3>1
  <2> HIDE DEF value, new, q
  <2>7. [chunks[t][k] EXCEPT ![q] = value(k)] = [p \in Positions |->
          IF p = q THEN value(k) ELSE Value(phase[t], h, p, Step(t), r)]
    BY <2>2, <2>3
  <2>8. \A p \in Positions : (IF p = q THEN value(k) ELSE Value(phase[t], h, p, Step(t), r))
                               = Value(phase[t], h, p, Step(t) + 1, r)
    BY <2>6
  <2> QED BY <2>4, <2>7, <2>8 DEF q
<1>9. ASSUME NEW k \in KeysOf(t), k \notin DOMAIN m
      PROVE  chunks[t][k] = new(k)
  <2>1. k \in With(t) <=> k \in Received(t)
    BY <1>9 DEF With
  <2>2. chunks[t][k] = old(k)
    BY <1>4
  <2> QED BY <2>1, <2>2
<1>10. chunks'[t] = [k \in KeysOf(t) |-> new(k)]
  <2>1. chunks'[t] = [k \in DOMAIN chunks[t] |->
            IF k \in DOMAIN m THEN [chunks[t][k] EXCEPT ![m[k].pos] = value(k)] ELSE chunks[t][k]]
    BY <1>1, <1>3
  <2>2. DOMAIN chunks[t] = KeysOf(t)
    BY <1>4
  <2> HIDE DEF new, value, m
  <2> QED BY <1>8, <1>9, <2>1, <2>2
<1>11. \A v \in Threads : v # t => chunks'[v] = chunks[v]
  BY <1>1, <1>3
<1>12. chunks' = [v \in Threads |-> chunks'[v]]
  BY <1>1, <1>3
<1> QED BY <1>10, <1>11, <1>12

(* The buffer and the counter after the message. *)
BufferTaken(f, t) ==
  /\ buffer' \in [Phases -> [Threads -> Seq(Messages)]]
  /\ \A g \in Phases : \A v \in Threads : ~(g = f /\ v = t) => buffer'[g][v] = buffer[g][v]
  /\ \A k \in Keys : InBuffer(f, t, k)' <=> InBuffer(f, t, k) /\ k \notin DOMAIN Head(buffer[f][t])
  /\ \A i \in DOMAIN buffer'[f][t] :
       /\ DOMAIN buffer'[f][t][i] # {} /\ DOMAIN buffer'[f][t][i] \subseteq KeysOf(t)
       /\ \A k \in DOMAIN buffer'[f][t][i] : ChunkFits(f, t, buffer'[f][t][i][k])
  /\ \A i, j \in DOMAIN buffer'[f][t] : \A k \in Keys :
       k \in DOMAIN buffer'[f][t][i] /\ k \in DOMAIN buffer'[f][t][j] => i = j
  /\ got[t] + Cardinality(DOMAIN Head(buffer[f][t])) = Cardinality(With(t))
  /\ Cardinality(With(t)) \in Nat
  /\ Over(t) => With(t) = KeysOf(t) /\ buffer'[f][t] = <<>>

LEMMA BufferWithout ==
  ASSUME Averaging, NEW t \in Threads, Receive(t), NEW f \in Phases, f = phase[t]
  PROVE  BufferTaken(f, t)
<1> DEFINE b == buffer[f][t]
           m == Head(b)
<1>1. buffer[f][t] # <<>> /\ buffer' = [buffer EXCEPT ![f][t] = Tail(@)]
  BY DEF Receive, CanReceive
<1>2. /\ RingTypes /\ stage = "formed" /\ Rings /\ ThreadSet /\ KeysOf(t) \subseteq Keys
  BY InAveraging
<1>3. /\ b \in Seq(Messages) /\ m = b[1] /\ 1 \in DOMAIN b
      /\ DOMAIN m \subseteq KeysOf(t) /\ DOMAIN m # {}
      /\ \A k \in DOMAIN m : InBuffer(f, t, k) /\ k \notin Received(t)
      /\ \A k \in With(t) : k \in KeysOf(t)
  BY <1>1, HeadOfBuffer
<1>4. /\ Tail(b) \in Seq(Messages) /\ Len(b) \in Nat /\ Len(b) > 0 /\ DOMAIN b = 1..Len(b)
      /\ DOMAIN Tail(b) = 1..(Len(b) - 1)
      /\ \A i \in DOMAIN Tail(b) : Tail(b)[i] = b[i + 1]
  BY <1>1, <1>3, TailOf
<1>5. buffer \in [Phases -> [Threads -> Seq(Messages)]]
  BY <1>2 DEF RingTypes
<1>6. /\ buffer' \in [Phases -> [Threads -> Seq(Messages)]]
      /\ buffer'[f][t] = Tail(b)
      /\ \A g \in Phases : \A v \in Threads : ~(g = f /\ v = t) => buffer'[g][v] = buffer[g][v]
  <2> DEFINE e == Tail(b)
  <2>1. buffer' = [buffer EXCEPT ![f][t] = e] /\ e \in Seq(Messages)
    BY <1>1, <1>4, <1>5
  <2> HIDE DEF e, b
  <2>2. buffer' = [buffer EXCEPT ![f] = [buffer[f] EXCEPT ![t] = e]]
    BY <2>1
  <2>3. buffer[f] \in [Threads -> Seq(Messages)]
    BY <1>5
  <2>4. [buffer[f] EXCEPT ![t] = e] \in [Threads -> Seq(Messages)]
    BY <2>1, <2>3
  <2>5. buffer' \in [Phases -> [Threads -> Seq(Messages)]]
    BY <1>5, <2>2, <2>4
  <2>6. buffer'[f][t] = e
    BY <1>5, <2>2, <2>3
  <2>7. \A g \in Phases : \A v \in Threads : ~(g = f /\ v = t) => buffer'[g][v] = buffer[g][v]
    BY <1>5, <2>2, <2>3
  <2> QED BY <2>5, <2>6, <2>7 DEF e
<1> DEFINE c == Tail(b)
<1>7. /\ \A i \in DOMAIN b : DOMAIN b[i] # {} /\ DOMAIN b[i] \subseteq KeysOf(t)
      /\ \A i \in DOMAIN b : \A k \in DOMAIN b[i] : ChunkFits(f, t, b[i][k])
      /\ \A i, j \in DOMAIN b : \A k \in Keys : k \in DOMAIN b[i] /\ k \in DOMAIN b[j] => i = j
  <2>1. BufferInv(f, t)
    BY DEF Averaging
  <2> QED BY <2>1 DEF BufferInv
<1>8. \A k : InBuffer(f, t, k) <=> \E i \in DOMAIN b : k \in DOMAIN b[i]
  BY DEF InBuffer
<1>9. \A k : InBuffer(f, t, k)' <=> \E i \in DOMAIN c : k \in DOMAIN c[i]
  BY <1>6 DEF InBuffer
<1> HIDE DEF b, c, m
<1>10. /\ \A i \in DOMAIN c : i + 1 \in DOMAIN b /\ c[i] = b[i + 1] /\ i + 1 # 1 /\ i \in Int
       /\ \A i \in DOMAIN b : i # 1 => i - 1 \in DOMAIN c /\ c[i - 1] = b[i]
  <2>1. DOMAIN c = 1..(Len(b) - 1) /\ \A i \in DOMAIN c : c[i] = b[i + 1]
    BY <1>4 DEF c
  <2>2. \A i \in 1..(Len(b) - 1) : i + 1 \in 1..Len(b) /\ i + 1 # 1 /\ i \in Int
    BY <1>4
  <2>3. \A i \in 1..Len(b) : i # 1 => i - 1 \in 1..(Len(b) - 1) /\ (i - 1) + 1 = i
    BY <1>4
  <2>4. \A i \in DOMAIN c : i + 1 \in DOMAIN b /\ c[i] = b[i + 1] /\ i + 1 # 1 /\ i \in Int
    BY <1>4, <2>1, <2>2
  <2>5. ASSUME NEW i \in DOMAIN b, i # 1
        PROVE  i - 1 \in DOMAIN c /\ c[i - 1] = b[i]
    <3>1. i - 1 \in DOMAIN c /\ (i - 1) + 1 = i
      BY <1>4, <2>1, <2>3, <2>5
    <3> DEFINE j == i - 1
    <3>2. j \in DOMAIN c /\ j + 1 = i
      BY <3>1
    <3> HIDE DEF j
    <3>3. c[j] = b[j + 1]
      BY <2>1, <3>2
    <3>4. c[j] = b[i]
      BY <3>2, <3>3
    <3> QED BY <3>2, <3>4 DEF j
  <2> QED BY <2>4, <2>5
<1>11. \A k \in Keys : InBuffer(f, t, k)' <=> InBuffer(f, t, k) /\ k \notin DOMAIN m
  <2> SUFFICES ASSUME NEW k \in Keys
               PROVE  InBuffer(f, t, k)' <=> InBuffer(f, t, k) /\ k \notin DOMAIN m
    OBVIOUS
  <2>1. ASSUME NEW i \in DOMAIN c, k \in DOMAIN c[i]
        PROVE  (\E j \in DOMAIN b : k \in DOMAIN b[j]) /\ k \notin DOMAIN m
    BY <1>3, <1>7, <1>10, <2>1
  <2>2. ASSUME NEW i \in DOMAIN b, k \in DOMAIN b[i], k \notin DOMAIN m
        PROVE  \E j \in DOMAIN c : k \in DOMAIN c[j]
    <3>1. i # 1
      BY <1>3, <2>2
    <3> QED BY <1>10, <2>2, <3>1
  <2> QED BY <1>8, <1>9, <2>1, <2>2
<1>12. \A i \in DOMAIN c :
         /\ DOMAIN c[i] # {} /\ DOMAIN c[i] \subseteq KeysOf(t)
         /\ \A k \in DOMAIN c[i] : ChunkFits(f, t, c[i][k])
  BY <1>7, <1>10
<1>13. \A i, j \in DOMAIN c : \A k \in Keys : k \in DOMAIN c[i] /\ k \in DOMAIN c[j] => i = j
  <2> SUFFICES ASSUME NEW i \in DOMAIN c, NEW j \in DOMAIN c, NEW k \in Keys,
                      k \in DOMAIN c[i], k \in DOMAIN c[j]
               PROVE  i = j
    OBVIOUS
  <2>1. i + 1 = j + 1
    BY <1>7, <1>10
  <2> QED BY <1>10, <2>1
(* The counter. *)
<1>14. IsFiniteSet(KeysOf(t))
  <2>1. IsFiniteSet(Keys)
    BY FormationAssumption, FS_Interval DEF Keys
  <2> QED BY <1>2, <2>1, FS_Subset
<1>15. IsFiniteSet(Received(t)) /\ IsFiniteSet(DOMAIN m) /\ IsFiniteSet(With(t)) /\ With(t) \subseteq KeysOf(t)
  <2>1. Received(t) \subseteq KeysOf(t)
    BY DEF Received
  <2>2. With(t) \subseteq KeysOf(t)
    BY <1>3
  <2> QED BY <1>3, <1>14, <2>1, <2>2, FS_Subset
<1>16. With(t) = Received(t) \union DOMAIN m /\ Received(t) \intersect DOMAIN m = {}
  BY <1>3 DEF With, m, b
<1>17. got[t] = Cardinality(Received(t))
  BY DEF Averaging, GotInv
<1>18. got[t] + Cardinality(DOMAIN m) = Cardinality(With(t)) /\ Cardinality(With(t)) \in Nat
  <2>1. /\ Cardinality(With(t)) = Cardinality(Received(t)) + Cardinality(DOMAIN m)
             - Cardinality(Received(t) \intersect DOMAIN m)
    BY <1>15, <1>16, FS_Union
  <2>2. Cardinality(Received(t) \intersect DOMAIN m) = 0
    BY <1>16, FS_EmptySet
  <2>3. Cardinality(With(t)) \in Nat /\ Cardinality(Received(t)) \in Nat /\ Cardinality(DOMAIN m) \in Nat
    BY <1>15, FS_CardinalityType
  <2> QED BY <1>17, <2>1, <2>2, <2>3
<1>19. ASSUME Over(t)
       PROVE  With(t) = KeysOf(t) /\ c = <<>>
  <2>1. Cardinality(With(t)) >= Cardinality(KeysOf(t))
    BY <1>18, <1>19 DEF Over, m, b
  <2>2. Cardinality(KeysOf(t)) \in Nat
    BY <1>14, FS_CardinalityType
  <2>3. With(t) = KeysOf(t)
    <3>1. Cardinality(With(t)) <= Cardinality(KeysOf(t))
      BY <1>14, <1>15, FS_Subset
    <3>2. Cardinality(With(t)) = Cardinality(KeysOf(t))
      BY <1>18, <2>1, <2>2, <3>1
    <3> QED BY <1>14, <1>15, <3>2, FS_Subset
  <2>4. \A i \in DOMAIN c : FALSE
    <3> SUFFICES ASSUME NEW i \in DOMAIN c PROVE FALSE
      OBVIOUS
    <3>1. PICK k \in DOMAIN c[i] : k \in KeysOf(t)
      BY <1>12
    <3>2. k \notin DOMAIN m
      BY <1>2, <1>3, <1>7, <1>10, <3>1
    <3>3. InBuffer(f, t, k)
      BY <1>8, <1>10
    <3>4. k \notin Received(t)
      BY <3>3 DEF Received
    <3> QED BY <1>16, <2>3, <3>1, <3>2, <3>4
  <2>5. c \in Seq(Messages) /\ Len(c) \in Nat /\ DOMAIN c = 1..Len(c)
    BY <1>4 DEF c
  <2>6. Len(c) = 0
    <3>1. ~(1 \in 1..Len(c))
      BY <2>4, <2>5
    <3> QED BY <2>5, <3>1
  <2> QED BY <2>3, <2>5, <2>6
<1> QED BY <1>6, <1>11, <1>12, <1>13, <1>18, <1>19 DEF c, m, b, BufferTaken

LEMMA TakeStep ==
  ASSUME Averaging, NEW t \in Threads, Receive(t), ~Over(t)
  PROVE  Averaging'
<1>0. PICK f \in Phases : f = phase[t]
  BY DEF Receive, CanReceive
<1> DEFINE m == Head(buffer[f][t])
<1>1. /\ buffer[f][t] # <<>>
      /\ got' = [got EXCEPT ![t] = got[t] + Cardinality(DOMAIN m)]
      /\ UNCHANGED <<formationVars, round, sent, iteration, sendPos, phase>>
  BY <1>0 DEF Receive, CanReceive, Over, KeysOf
<1>2. Still
  BY <1>1 DEF Still, Threads
<1>3. /\ stage = "formed" /\ RingSize \in Int /\ RingSize > 1 /\ RingSize \in Nat \ {0}
      /\ Rings /\ ThreadSet /\ RingTypes
      /\ \A v \in Threads : /\ Placed(v) /\ ThreadInv(v) /\ RankOf(v) \in Positions
                            /\ v[1] \in Providers /\ KeysOf(v) \subseteq Keys
      /\ \A p, v \in Threads : \A k \in Keys : Edge(p, v, k) => NotOvertaken(p, v) /\ Follows(p, v)
  BY InAveraging
<1>4. /\ DOMAIN m \subseteq KeysOf(t)
      /\ \A k \in DOMAIN m : InBuffer(f, t, k) /\ k \notin Received(t)
      /\ \A k \in With(t) : k \in KeysOf(t) /\ \A p \in Threads : Edge(p, t, k) => Sent(p, t, f)
  BY <1>0, <1>1, HeadOfBuffer
<1>5. /\ chunks' = [v \in Threads |-> chunks'[v]]
      /\ \A v \in Threads : v # t => chunks'[v] = chunks[v]
      /\ chunks'[t] = [k \in KeysOf(t) |-> [p \in Positions |->
           Value(phase[t], RankOf(t), p, IF k \in With(t) THEN Step(t) + 1 ELSE Step(t), round[t[1]])]]
  BY ChunksWith
<1>6. /\ buffer' \in [Phases -> [Threads -> Seq(Messages)]]
      /\ \A g \in Phases : \A v \in Threads : ~(g = f /\ v = t) => buffer'[g][v] = buffer[g][v]
      /\ \A k \in Keys : InBuffer(f, t, k)' <=> InBuffer(f, t, k) /\ k \notin DOMAIN m
      /\ \A i \in DOMAIN buffer'[f][t] :
           /\ DOMAIN buffer'[f][t][i] # {} /\ DOMAIN buffer'[f][t][i] \subseteq KeysOf(t)
           /\ \A k \in DOMAIN buffer'[f][t][i] : ChunkFits(f, t, buffer'[f][t][i][k])
      /\ \A i, j \in DOMAIN buffer'[f][t] : \A k \in Keys :
           k \in DOMAIN buffer'[f][t][i] /\ k \in DOMAIN buffer'[f][t][j] => i = j
      /\ got[t] + Cardinality(DOMAIN m) = Cardinality(With(t))
      /\ Cardinality(With(t)) \in Nat
  <2>1. BufferTaken(f, t)
    BY <1>0, BufferWithout
  <2> QED BY <2>1 DEF BufferTaken
<1>7. With(t) = Received(t) \union DOMAIN m
  BY <1>0 DEF With
<1> HIDE DEF m
<1>8. /\ \A v : Half(v)' = Half(v) /\ Step(v)' = Step(v)
      /\ \A g, v : NextHalf(g, v)' = NextHalf(g, v) /\ NextRound(g, v)' = NextRound(g, v)
      /\ \A p, v, g : Sent(p, v, g)' <=> Sent(p, v, g)
      /\ phase' = phase /\ iteration' = iteration /\ round' = round /\ sendPos' = sendPos /\ sent' = sent
  BY <1>1 DEF Half, Step, NextHalf, NextRound, Sent
<1>9. got \in [Threads -> Nat] /\ got'[t] = Cardinality(With(t))
      /\ \A v \in Threads : v # t => got'[v] = got[v]
  <2>1. got \in [Threads -> Nat]
    BY <1>3 DEF RingTypes
  <2> QED BY <1>1, <1>6, <2>1
<1>10. /\ RingSize' = RingSize /\ Positions' = Positions
       /\ \A v : KeysOf(v)' = KeysOf(v) /\ RankOf(v)' = RankOf(v) /\ Dests(v)' = Dests(v)
       /\ \A p, v, k : Edge(p, v, k)' <=> Edge(p, v, k)
       /\ \A p, q : Distance(p, q)' = Distance(p, q)
       /\ \A g, i : SendDistance(g, i)' = SendDistance(g, i)
       /\ \A p, c, r : Arc(p, c, r)' = Arc(p, c, r)
       /\ \A r : All(r)' = All(r)
       /\ \A g, c, p, i, r : Value(g, c, p, i, r)' = Value(g, c, p, i, r)
       /\ (stage = "formed")' /\ Rings' /\ Threads' = Threads
  BY <1>2, <1>3, Frozen DEF Still
<1>11. \A g \in Phases : \A v \in Threads : \A k :
         ~(g = f /\ v = t) => (InBuffer(g, v, k)' <=> InBuffer(g, v, k))
  BY <1>6 DEF InBuffer
<1>12. RingTypes'
  <2>1. /\ round \in [Providers -> Nat]
        /\ phase \in [Threads -> {"reduce", "gather", "done"}]
        /\ iteration \in [Phases -> [Threads -> Nat]]
        /\ sendPos \in [Threads -> Int]
        /\ sent \in [Threads -> SUBSET Providers]
    BY <1>3 DEF RingTypes
  <2>2. got' \in [Threads -> Nat]
    BY <1>1, <1>6, <1>9
  <2>3. TypesNext
    BY <1>5, <1>6, <1>8, <2>1, <2>2 DEF TypesNext
  <2> QED BY <1>2, <1>3, <2>3, StillTyped
<1>13. \A v \in Threads : ThreadInv(v)'
  <2> SUFFICES ASSUME NEW v \in Threads PROVE ThreadInv(v)'
    OBVIOUS
  <2>1. ThreadInv(v)
    BY <1>3
  <2>2. phase[v] = "done" => got'[v] = got[v]
    BY <1>0, <1>9 DEF Phases
  <2> QED BY <1>8, <1>10, <2>1, <2>2 DEF ThreadInv
<1>14. EdgeInv'
  <2> SUFFICES ASSUME NEW p \in Threads, NEW v \in Threads, NEW k \in Keys, Edge(p, v, k)
               PROVE  NotOvertaken(p, v)' /\ Follows(p, v)'
    BY <1>10 DEF EdgeInv
  <2>1. NotOvertaken(p, v) /\ Follows(p, v)
    BY <1>3
  <2> QED BY <1>8, <1>10, <2>1 DEF NotOvertaken, Follows
<1>15. \A g \in Phases : \A v \in Threads : BufferInv(g, v)'
  <2> SUFFICES ASSUME NEW g \in Phases, NEW v \in Threads PROVE BufferInv(g, v)'
    OBVIOUS
  <2>1. BufferInv(g, v)
    BY DEF Averaging
  <2>2. \A c : ChunkFits(g, v, c)' <=> ChunkFits(g, v, c)
    BY <1>8, <1>10 DEF ChunkFits
  <2>3. CASE ~(g = f /\ v = t)
    <3>1. buffer'[g][v] = buffer[g][v] /\ \A k : InBuffer(g, v, k)' <=> InBuffer(g, v, k)
      BY <1>6, <1>11, <2>3
    <3> QED BY <1>8, <1>10, <2>1, <2>2, <3>1 DEF BufferInv
  <2>4. CASE g = f /\ v = t
    <3>1. \A p \in Threads : \A k \in Keys : Edge(p, v, k) =>
            /\ InBuffer(g, v, k)' => Sent(p, v, g)'
            /\ phase'[v] # g /\ Sent(p, v, g)' => InBuffer(g, v, k)'
      BY <1>0, <1>6, <1>8, <2>1, <2>4 DEF BufferInv
    <3> QED BY <1>6, <1>8, <1>10, <2>2, <2>4, <3>1 DEF BufferInv
  <2> QED BY <2>3, <2>4
<1>16. Received(t)' = With(t)
  <2>1. Received(t)' = {k \in KeysOf(t) :
          ~InBuffer(f, t, k)' /\ \E p \in Threads : Edge(p, t, k) /\ Sent(p, t, f)}
    BY <1>0, <1>8, <1>10 DEF Received
  <2>2. Received(t) = {k \in KeysOf(t) :
          ~InBuffer(f, t, k) /\ \E p \in Threads : Edge(p, t, k) /\ Sent(p, t, f)}
    BY <1>0 DEF Received
  <2>3. \A k \in KeysOf(t) : k \in Keys /\ \E p \in Threads : Edge(p, t, k)
    BY <1>3, EdgeFacts
  <2>4. ASSUME NEW k \in KeysOf(t)
        PROVE  k \in Received(t)' <=> k \in With(t)
    <3>1. CASE k \in DOMAIN m
      BY <1>4, <1>6, <1>7, <2>1, <2>3, <3>1
    <3>2. CASE k \notin DOMAIN m
      <4>1. InBuffer(f, t, k)' <=> InBuffer(f, t, k)
        BY <1>6, <2>3, <3>2
      <4> QED BY <1>7, <2>1, <2>2, <3>2, <4>1
    <3> QED BY <3>1, <3>2
  <2> QED BY <1>4, <2>1, <2>4
<1>17. \A v \in Threads : v # t /\ phase[v] \in Phases => Received(v)' = Received(v)
  BY <1>8, <1>10, <1>11 DEF Received
<1>18. \A v \in Threads : GotInv(v)' /\ ChunkInv(v)'
  <2> SUFFICES ASSUME NEW v \in Threads PROVE GotInv(v)' /\ ChunkInv(v)'
    OBVIOUS
  <2>1. GotInv(v) /\ ChunkInv(v)
    BY DEF Averaging
  <2>2. CASE v # t
    <3>1. GotInv(v)'
      BY <1>8, <1>9, <1>17, <2>1, <2>2 DEF GotInv
    <3>2. phase[v] \in Phases => [k \in KeysOf(v) |-> [p \in Positions |->
            Value(phase[v], RankOf(v), p, IF k \in Received(v) THEN Step(v) + 1 ELSE Step(v), round[v[1]])]]'
          = [k \in KeysOf(v) |-> [p \in Positions |->
            Value(phase[v], RankOf(v), p, IF k \in Received(v) THEN Step(v) + 1 ELSE Step(v), round[v[1]])]]
      BY <1>8, <1>10, <1>17, <2>2
    <3>3. chunks'[v] = chunks[v]
      BY <1>5, <2>2
    <3>4. ChunkInv(v)'
      BY <1>8, <1>10, <2>1, <3>2, <3>3 DEF ChunkInv
    <3> QED BY <3>1, <3>4
  <2>3. CASE v = t
    <3>1. GotInv(v)'
      BY <1>9, <1>16, <2>3 DEF GotInv
    <3>2. [k \in KeysOf(t) |-> [p \in Positions |->
            Value(phase[t], RankOf(t), p, IF k \in Received(t) THEN Step(t) + 1 ELSE Step(t), round[t[1]])]]'
          = chunks'[t]
      BY <1>5, <1>8, <1>10, <1>16
    <3>3. phase[t] # "done"
      BY <1>0 DEF Phases
    <3>4. ChunkInv(t)'
      BY <1>8, <1>10, <2>1, <2>3, <3>2, <3>3 DEF ChunkInv
    <3> QED BY <2>3, <3>1, <3>4
  <2> QED BY <2>2, <2>3
<1> QED BY <1>3, <1>10, <1>12, <1>13, <1>14, <1>15, <1>18 DEF Averaging

(* The last message of an iteration: the thread goes on to the next.       *)
LEMMA TurnStep ==
  ASSUME Averaging, NEW t \in Threads, Receive(t), Over(t)
  PROVE  Averaging'
<1>0. PICK f \in Phases : f = phase[t]
  BY DEF Receive, CanReceive
<1> DEFINE m == Head(buffer[f][t])
           i == Step(t)
           K == RingSize - 1
           more == i + 1 < K
           next == IF more THEN i + 1 ELSE 0
           after == IF more THEN f ELSE IF f = "reduce" THEN "gather" ELSE "done"
<1>1. /\ stage = "formed" /\ RingSize \in Int /\ RingSize > 1 /\ RingSize \in Nat \ {0}
      /\ Rings /\ ThreadSet /\ RingTypes
      /\ \A v \in Threads : /\ Placed(v) /\ ThreadInv(v) /\ RankOf(v) \in Positions
                            /\ v[1] \in Providers /\ KeysOf(v) \subseteq Keys
      /\ \A p, v \in Threads : \A k \in Keys : Edge(p, v, k) => NotOvertaken(p, v) /\ Follows(p, v)
  BY InAveraging
<1>2. i = iteration[f][t] /\ i \in Int /\ i >= 0 /\ i < K /\ K \in Int /\ K > 0
  BY <1>0, <1>1 DEF Placed, ThreadInv
<1>3. /\ buffer[f][t] # <<>> /\ sent[t] = Dests(t)
      /\ sent' = [sent EXCEPT ![t] = {}]
      /\ got' = [got EXCEPT ![t] = 0]
      /\ iteration' = [iteration EXCEPT ![f][t] = next]
      /\ sendPos' = [sendPos EXCEPT ![t] = Back(sendPos[t])]
      /\ phase' = [phase EXCEPT ![t] = after]
      /\ UNCHANGED <<formationVars, round>>
  <2>1. NextIteration(iteration[f][t]) = next
    BY <1>2 DEF NextIteration
  <2>2. /\ buffer[f][t] # <<>> /\ sent[t] = Dests(t)
        /\ sent' = [sent EXCEPT ![t] = {}]
        /\ got' = [got EXCEPT ![t] = 0]
        /\ iteration' = [iteration EXCEPT ![f][t] = NextIteration(iteration[f][t])]
        /\ sendPos' = [sendPos EXCEPT ![t] = NextPos(t)]
        /\ phase' = [phase EXCEPT ![t] = IF NextIteration(iteration[f][t]) # 0 THEN @
                                         ELSE IF @ = "reduce" THEN "gather" ELSE "done"]
        /\ UNCHANGED <<formationVars, round>>
    BY <1>0 DEF Receive, CanReceive, Over, KeysOf
  <2>3. next # 0 <=> more
    BY <1>2
  <2>4. phase \in [Threads -> {"reduce", "gather", "done"}]
    BY <1>1 DEF RingTypes
  <2> QED BY <1>0, <2>1, <2>2, <2>3, <2>4 DEF NextPos
<1>4. Still
  <2>1. phase \in [Threads -> {"reduce", "gather", "done"}]
    BY <1>1 DEF RingTypes
  <2>2. DOMAIN phase' = DOMAIN phase
    BY <1>3
  <2> QED BY <1>3, <2>2 DEF Still, Threads
<1>5. /\ DOMAIN m \subseteq KeysOf(t)
      /\ \A k \in With(t) : k \in KeysOf(t) /\ \A p \in Threads : Edge(p, t, k) => Sent(p, t, f)
  BY <1>0, <1>3, HeadOfBuffer
<1>6. /\ chunks' = [v \in Threads |-> chunks'[v]]
      /\ \A v \in Threads : v # t => chunks'[v] = chunks[v]
      /\ chunks'[t] = [k \in KeysOf(t) |-> [p \in Positions |->
           Value(phase[t], RankOf(t), p, IF k \in With(t) THEN Step(t) + 1 ELSE Step(t), round[t[1]])]]
  BY ChunksWith
<1>7. /\ buffer' \in [Phases -> [Threads -> Seq(Messages)]]
      /\ \A g \in Phases : \A v \in Threads : ~(g = f /\ v = t) => buffer'[g][v] = buffer[g][v]
      /\ With(t) = KeysOf(t) /\ buffer'[f][t] = <<>>
  <2>1. BufferTaken(f, t)
    BY <1>0, BufferWithout
  <2> QED BY <2>1 DEF BufferTaken
<1> HIDE DEF m
<1>8. \A p \in Threads : \A k \in Keys : Edge(p, t, k) => Sent(p, t, f)
  BY <1>5, <1>7 DEF Edge
<1>9. /\ phase \in [Threads -> {"reduce", "gather", "done"}]
      /\ iteration \in [Phases -> [Threads -> Nat]]
      /\ sendPos \in [Threads -> Int]
      /\ sent \in [Threads -> SUBSET Providers]
      /\ got \in [Threads -> Nat]
      /\ round \in [Providers -> Nat]
  BY <1>1 DEF RingTypes
<1>10. /\ phase' \in [Threads -> {"reduce", "gather", "done"}]
       /\ iteration' \in [Phases -> [Threads -> Nat]]
       /\ sent' \in [Threads -> SUBSET Providers]
       /\ got' \in [Threads -> Nat]
       /\ round' = round
       /\ sent'[t] = {} /\ got'[t] = 0 /\ phase'[t] = after /\ iteration'[f][t] = next
       /\ sendPos'[t] = Back(sendPos[t])
       /\ \A v \in Threads : v # t => /\ sent'[v] = sent[v] /\ got'[v] = got[v] /\ phase'[v] = phase[v]
                                      /\ sendPos'[v] = sendPos[v]
       /\ \A g \in Phases : \A v \in Threads : ~(g = f /\ v = t) => iteration'[g][v] = iteration[g][v]
  <2>1. next \in Nat
    BY <1>2
  <2>2. after \in {"reduce", "gather", "done"}
    BY DEF Phases
  <2> HIDE DEF next, after
  <2>3. /\ phase' \in [Threads -> {"reduce", "gather", "done"}] /\ phase'[t] = after
        /\ \A v \in Threads : v # t => phase'[v] = phase[v]
    BY <1>3, <1>9, <2>2
  <2>4. /\ sent' \in [Threads -> SUBSET Providers] /\ sent'[t] = {}
        /\ \A v \in Threads : v # t => sent'[v] = sent[v]
    BY <1>3, <1>9
  <2>5. /\ got' \in [Threads -> Nat] /\ got'[t] = 0
        /\ \A v \in Threads : v # t => got'[v] = got[v]
    BY <1>3, <1>9
  <2>6. /\ sendPos'[t] = Back(sendPos[t])
        /\ \A v \in Threads : v # t => sendPos'[v] = sendPos[v]
    BY <1>3, <1>9
  <2>7. /\ iteration' \in [Phases -> [Threads -> Nat]] /\ iteration'[f][t] = next
        /\ \A g \in Phases : \A v \in Threads : ~(g = f /\ v = t) => iteration'[g][v] = iteration[g][v]
    <3>1. iteration' = [iteration EXCEPT ![f] = [iteration[f] EXCEPT ![t] = next]]
      BY <1>3
    <3>2. iteration[f] \in [Threads -> Nat]
      BY <1>9
    <3>3. [iteration[f] EXCEPT ![t] = next] \in [Threads -> Nat]
      BY <2>1, <3>2
    <3> QED BY <1>9, <3>1, <3>2, <3>3
  <2> QED BY <1>3, <2>3, <2>4, <2>5, <2>6, <2>7
(* Where the thread is now; the others have not moved. *)
<1>11. /\ Half(t)' = IF more THEN Half(t) ELSE Half(t) + 1
       /\ Step(t)' = next
       /\ \A v \in Threads : v # t => Half(v)' = Half(v) /\ Step(v)' = Step(v)
  <2>1. \A v \in Threads : v # t => Half(v)' = Half(v) /\ Step(v)' = Step(v)
    BY <1>10 DEF Half, Step
  <2>2. /\ round[t[1]] \in Int
        /\ f = "reduce" => Half(t) = 2 * round[t[1]] - 2
        /\ f = "gather" => Half(t) = 2 * round[t[1]] - 1
        /\ iteration["gather"][t] = 0 \/ f = "gather"
    BY <1>0, <1>1 DEF Placed, ThreadInv, Phases
  <2>3. CASE more
    <3>1. phase'[t] = phase[t] /\ iteration'[f][t] = i + 1
      BY <1>0, <1>10, <2>3
    <3> QED BY <1>0, <1>10, <2>1, <2>3, <3>1 DEF Half, Step
  <2>4. CASE ~more /\ f = "reduce"
    <3>1. phase'[t] = "gather" /\ iteration'["gather"][t] = 0
      BY <1>10, <2>2, <2>4 DEF Phases
    <3>2. Half(t)' = 2 * round[t[1]] - 1 /\ Step(t)' = 0
      BY <1>10, <3>1 DEF Half, Step, Phases
    <3> QED BY <2>1, <2>2, <2>4, <3>2
  <2>5. CASE ~more /\ f = "gather"
    <3>1. phase'[t] = "done"
      BY <1>10, <2>5
    <3>2. Half(t)' = 2 * round[t[1]] /\ Step(t)' = 0
      BY <1>10, <3>1 DEF Half, Step, Phases
    <3> QED BY <2>1, <2>2, <2>5, <3>2
  <2> QED BY <2>3, <2>4, <2>5 DEF Phases
<1>12. /\ \A g \in Phases : \A v \in Threads : ~(g = f /\ v = t) =>
             /\ NextHalf(g, v)' = NextHalf(g, v) /\ NextRound(g, v)' = NextRound(g, v)
             /\ iteration'[g][v] = iteration[g][v]
       /\ NextHalf(f, t) = Half(t)
       /\ NextHalf(f, t)' = IF more THEN Half(t) ELSE Half(t) + 2
       /\ iteration'[f][t] = next
  <2>1. ASSUME NEW g \in Phases, NEW v \in Threads, v # t
        PROVE  NextHalf(g, v)' = NextHalf(g, v) /\ NextRound(g, v)' = NextRound(g, v)
    BY <1>10, <1>11, <2>1 DEF NextHalf, NextRound
  <2>2. ASSUME NEW g \in Phases, g # f
        PROVE  NextHalf(g, t)' = NextHalf(g, t) /\ NextRound(g, t)' = NextRound(g, t)
    <3>1. CASE more
      BY <1>0, <1>10, <1>11, <3>1 DEF NextHalf, NextRound
    <3>2. CASE ~more /\ f = "reduce"
      <4>1. g = "gather" /\ phase[t] = "reduce" /\ phase'[t] = "gather"
        BY <1>0, <1>10, <2>2, <3>2 DEF Phases
      <4> QED BY <1>10, <1>11, <3>2, <4>1 DEF NextHalf, NextRound
    <3>3. CASE ~more /\ f = "gather"
      <4>1. g = "reduce" /\ phase[t] = "gather" /\ phase'[t] = "done"
        BY <1>0, <1>10, <2>2, <3>3 DEF Phases
      <4> QED BY <1>10, <1>11, <3>3, <4>1 DEF NextHalf, NextRound
    <3> QED BY <3>1, <3>2, <3>3 DEF Phases
  <2>3. NextHalf(f, t) = Half(t)
    BY <1>0 DEF NextHalf
  <2>4. NextHalf(f, t)' = IF more THEN Half(t) ELSE Half(t) + 2
    <3>1. Half(t) \in Int
      BY <1>1 DEF Placed
    <3>2. CASE more
      BY <1>10, <1>11, <3>2 DEF NextHalf
    <3>3. CASE ~more
      <4>1. phase'[t] # f /\ ~(phase'[t] = "done" /\ f = "reduce")
        BY <1>10, <3>3 DEF Phases
      <4>2. NextHalf(f, t)' = Half(t)' + 1
        BY <4>1 DEF NextHalf
      <4>3. Half(t)' = Half(t) + 1
        BY <1>11, <3>3
      <4> QED BY <3>1, <3>3, <4>2, <4>3
    <3> QED BY <3>2, <3>3
  <2> QED BY <1>10, <2>1, <2>2, <2>3, <2>4
<1>13. /\ RingSize' = RingSize /\ Positions' = Positions
       /\ \A v : KeysOf(v)' = KeysOf(v) /\ RankOf(v)' = RankOf(v) /\ Dests(v)' = Dests(v)
       /\ \A p, v, k : Edge(p, v, k)' <=> Edge(p, v, k)
       /\ \A p, q : Distance(p, q)' = Distance(p, q)
       /\ \A g, j : SendDistance(g, j)' = SendDistance(g, j)
       /\ \A p, c, r : Arc(p, c, r)' = Arc(p, c, r)
       /\ \A r : All(r)' = All(r)
       /\ \A g, c, p, j, r : Value(g, c, p, j, r)' = Value(g, c, p, j, r)
       /\ (stage = "formed")' /\ Rings' /\ Threads' = Threads
  BY <1>1, <1>4, Frozen DEF Still
<1>14. /\ Half(t) \in Int /\ i \in Int /\ i >= 0 /\ i < K /\ K \in Int /\ K > 0
       /\ (~more => i = K - 1)
       /\ \A v \in Threads : Half(v) \in Int /\ Step(v) \in Int /\ Step(v) >= 0 /\ Step(v) < K
       /\ \A g \in Phases : \A v \in Threads : iteration[g][v] \in Int /\ iteration[g][v] >= 0 /\ iteration[g][v] < K
  <2>1. ASSUME NEW v \in Threads, NEW g \in Phases
        PROVE  iteration[g][v] < K
    BY <1>1, <1>2, <2>1 DEF ThreadInv, Phases
  <2>2. ASSUME NEW v \in Threads
        PROVE  Step(v) < K
    BY <1>1, <1>2, <2>2 DEF Placed, ThreadInv, Phases
  <2> QED BY <1>1, <1>2, <2>1, <2>2 DEF Placed
<1> HIDE DEF i, K
(* Who has sent what. *)
<1>15. \A p \in Threads : \A k \in Keys : Edge(p, t, k) =>
         /\ p # t
         /\ Half(p) = Half(t) \/ Half(p) = Half(t) + 1
         /\ Half(p) = Half(t) => Step(p) = i \/ Step(p) = i + 1
         /\ Half(p) = Half(t) /\ Step(p) = i => t[1] \in sent[p]
         /\ Half(p) = Half(t) /\ Step(p) = i + 1 => t[1] \notin sent[p] /\ more
         /\ Half(p) = Half(t) + 1 => ~more /\ Step(p) <= 1 /\ (Step(p) = 1 => t[1] \notin sent[p])
  <2> SUFFICES ASSUME NEW p \in Threads, NEW k \in Keys, Edge(p, t, k)
               PROVE  /\ p # t
                      /\ Half(p) = Half(t) \/ Half(p) = Half(t) + 1
                      /\ Half(p) = Half(t) => Step(p) = i \/ Step(p) = i + 1
                      /\ Half(p) = Half(t) /\ Step(p) = i => t[1] \in sent[p]
                      /\ Half(p) = Half(t) /\ Step(p) = i + 1 => t[1] \notin sent[p] /\ more
                      /\ Half(p) = Half(t) + 1 => ~more /\ Step(p) <= 1 /\ (Step(p) = 1 => t[1] \notin sent[p])
    OBVIOUS
  <2>1. p # t
    BY <1>1, EdgeFacts
  <2>2. NotOvertaken(p, t)
    BY <1>1
  <2>3. Sent(p, t, f)
    BY <1>8
  <2>4. RingSize - 2 = K - 1 /\ Step(t) = i
    BY <1>1 DEF K, i
  <2>5. /\ Half(p) <= Half(t) + 1
        /\ Half(p) = Half(t) + 1 => /\ i = K - 1 /\ Step(p) <= 1
                                    /\ Step(p) = 1 => t[1] \notin sent[p]
        /\ Half(p) = Half(t) => /\ Step(p) <= i + 1
                                /\ Step(p) = i + 1 => t[1] \notin sent[p]
    BY <2>2, <2>4 DEF NotOvertaken
  <2>6. \/ Half(p) > Half(t)
        \/ Half(p) = Half(t) /\ Step(p) > i
        \/ Half(p) = Half(t) /\ Step(p) = i /\ t[1] \in sent[p]
    BY <1>2, <1>12, <2>3 DEF Sent
  <2>7. Half(p) \in Int /\ Half(t) \in Int /\ Step(p) \in Int /\ Step(p) < K
    BY <1>14
  <2> QED BY <1>14, <2>1, <2>5, <2>6, <2>7
<1>16. \A v \in Threads : \A k \in Keys : Edge(t, v, k) =>
         /\ v # t /\ v[1] \in sent[t]
         /\ \/ Half(v) = Half(t) - 1 /\ Step(v) = K - 1 /\ i = 0 /\ more
            \/ Half(v) = Half(t) /\ (Step(v) = i \/ (Step(v) = i + 1 /\ more))
            \/ Half(v) = Half(t) + 1 /\ Step(v) = 0 /\ ~more
  <2> SUFFICES ASSUME NEW v \in Threads, NEW k \in Keys, Edge(t, v, k)
               PROVE  /\ v # t /\ v[1] \in sent[t]
                      /\ \/ Half(v) = Half(t) - 1 /\ Step(v) = K - 1 /\ i = 0 /\ more
                         \/ Half(v) = Half(t) /\ (Step(v) = i \/ (Step(v) = i + 1 /\ more))
                         \/ Half(v) = Half(t) + 1 /\ Step(v) = 0 /\ ~more
    OBVIOUS
  <2>1. v # t
    BY <1>1, EdgeFacts
  <2>2. v[1] \in sent[t]
    BY <1>3 DEF Edge, Dests, KeysOf
  <2>3. RingSize - 2 = K - 1 /\ Step(t) = i
    BY <1>1 DEF K, i
  <2>4. /\ Half(t) <= Half(v) + 1
        /\ Half(t) = Half(v) + 1 => Step(v) = K - 1 /\ i <= 1 /\ i # 1
        /\ Half(t) = Half(v) => i <= Step(v) + 1 /\ i # Step(v) + 1
    BY <1>1, <2>2, <2>3 DEF NotOvertaken
  <2>5. \/ Half(v) < Half(t)
        \/ Half(v) = Half(t) /\ Step(v) <= i
        \/ Half(v) = Half(t) /\ Step(v) = i + 1
        \/ Half(v) = Half(t) + 1 /\ Step(v) = 0 /\ i = K - 1
    BY <1>1, <2>2, <2>3 DEF Follows
  <2>6. Half(v) \in Int /\ Half(t) \in Int /\ Step(v) \in Int /\ Step(v) < K
    BY <1>14
  <2>7. more <=> i + 1 < K
    BY DEF more, i, K
  <2>8. Half(v) = Half(t) - 1 => more
    <3> SUFFICES ASSUME Half(v) = Half(t) - 1, ~more PROVE FALSE
      OBVIOUS
    <3>1. i = 0 /\ K = 1
      BY <1>14, <2>4, <2>6
    <3>2. RingSize = 2
      BY <1>1, <3>1 DEF K
    <3>3. Edge(v, t, k)
      BY <1>1, <3>2, EdgeFacts
    <3>4. Half(v) = Half(t) \/ Half(v) = Half(t) + 1
      BY <1>15, <3>3
    <3> QED BY <2>6, <3>4
  <2> HIDE DEF more
  <2> QED BY <1>14, <2>1, <2>2, <2>4, <2>5, <2>6, <2>7, <2>8
<1>17. more <=> i + 1 < K
  BY DEF more, i, K
<1> HIDE DEF more
<1>18. \A p \in Threads : \A k \in Keys : Edge(p, t, k) => ~Sent(p, t, f)'
  <2> SUFFICES ASSUME NEW p \in Threads, NEW k \in Keys, Edge(p, t, k), Sent(p, t, f)'
               PROVE  FALSE
    OBVIOUS
  <2>1. p # t /\ Half(p)' = Half(p) /\ Step(p)' = Step(p) /\ sent'[p] = sent[p]
    BY <1>10, <1>11, <1>15
  <2>2. \/ Half(p) > NextHalf(f, t)'
        \/ Half(p) = NextHalf(f, t)' /\ Step(p) > next
        \/ Half(p) = NextHalf(f, t)' /\ Step(p) = next /\ t[1] \in sent[p]
    BY <1>12, <2>1 DEF Sent
  <2>3. /\ Half(p) = Half(t) \/ Half(p) = Half(t) + 1
        /\ Half(p) = Half(t) => Step(p) = i \/ Step(p) = i + 1
        /\ Half(p) = Half(t) /\ Step(p) = i + 1 => t[1] \notin sent[p]
        /\ Half(p) = Half(t) + 1 => ~more
    BY <1>15
  <2>4. Half(p) \in Int /\ Half(t) \in Int /\ Step(p) \in Int
    BY <1>14
  <2>5. CASE more
    <3>1. NextHalf(f, t)' = Half(t) /\ next = i + 1
      BY <1>12, <2>5 DEF i
    <3> QED BY <1>14, <2>2, <2>3, <2>4, <2>5, <3>1
  <2>6. CASE ~more
    <3>1. NextHalf(f, t)' = Half(t) + 2
      BY <1>12, <2>6
    <3> QED BY <2>2, <2>3, <2>4, <3>1
  <2> QED BY <2>5, <2>6
<1>19. \A p, v \in Threads : \A k \in Keys : \A g \in Phases :
         Edge(p, v, k) /\ ~(g = f /\ v = t) => (Sent(p, v, g)' <=> Sent(p, v, g))
  <2> SUFFICES ASSUME NEW p \in Threads, NEW v \in Threads, NEW k \in Keys, NEW g \in Phases,
                      Edge(p, v, k), ~(g = f /\ v = t)
               PROVE  Sent(p, v, g)' <=> Sent(p, v, g)
    OBVIOUS
  <2>1. NextHalf(g, v)' = NextHalf(g, v) /\ iteration'[g][v] = iteration[g][v]
    BY <1>12
  <2>2. CASE p # t
    <3>1. Half(p)' = Half(p) /\ Step(p)' = Step(p) /\ sent'[p] = sent[p]
      BY <1>10, <1>11, <2>2
    <3> QED BY <2>1, <3>1 DEF Sent
  <2>3. CASE p = t
    <3>1. v[1] \in sent[t] /\ v[1] \notin sent'[t]
      BY <1>10, <1>16, <2>3
    <3>2. Sent(t, v, g) <=> \/ Half(t) > NextHalf(g, v)
                            \/ Half(t) = NextHalf(g, v) /\ i >= iteration[g][v]
      <4>1. Step(t) = i
        BY DEF i
      <4>2. iteration[g][v] \in Int /\ i \in Int
        BY <1>14
      <4> QED BY <3>1, <4>1, <4>2 DEF Sent
    <3>3. Sent(t, v, g)' <=> \/ Half(t)' > NextHalf(g, v)
                             \/ Half(t)' = NextHalf(g, v) /\ next > iteration[g][v]
      BY <1>11, <2>1, <3>1 DEF Sent
    <3>4. /\ NextHalf(g, v) \in Int /\ Half(t) \in Int
          /\ iteration[g][v] \in Int /\ iteration[g][v] >= 0 /\ iteration[g][v] < K
      BY <1>14 DEF NextHalf
    <3>5. CASE more
      <4>1. Half(t)' = Half(t) /\ next = i + 1
        BY <1>11, <3>5 DEF i
      <4> QED BY <1>14, <2>3, <3>2, <3>3, <3>4, <4>1
    <3>6. CASE ~more
      <4>1. Half(t)' = Half(t) + 1 /\ next = 0 /\ i = K - 1
        BY <1>11, <1>14, <3>6
      <4> QED BY <1>14, <2>3, <3>2, <3>3, <3>4, <4>1
    <3> QED BY <3>5, <3>6
  <2> QED BY <2>2, <2>3
(* The conjuncts. *)
<1>20. RingTypes'
  <2>1. sendPos' \in [Threads -> Int]
    <3>1. ChunkInv(t) /\ phase[t] \in Phases
      BY <1>0 DEF Averaging
    <3>2. sendPos[t] \in Positions
      BY <3>1 DEF ChunkInv
    <3>3. Back(sendPos[t]) \in Positions
      BY <1>1, <3>2, Distances
    <3>4. Back(sendPos[t]) \in Int
      BY <3>3 DEF Positions
    <3> QED BY <1>3, <1>9, <3>4
  <2>2. round' \in [Providers -> Nat]
    BY <1>9, <1>10
  <2>3. TypesNext
    BY <1>6, <1>7, <1>10, <2>1, <2>2 DEF TypesNext
  <2> QED BY <1>1, <1>4, <2>3, StillTyped
<1>21. \A v \in Threads : ThreadInv(v)'
  <2> SUFFICES ASSUME NEW v \in Threads PROVE ThreadInv(v)'
    OBVIOUS
  <2>1. ThreadInv(v)
    BY <1>1
  <2>2. CASE v # t
    <3>1. \A g \in Phases : iteration'[g][v] = iteration[g][v]
      BY <1>10, <2>2
    <3> QED BY <1>10, <1>13, <2>1, <2>2, <3>1 DEF ThreadInv
  <2>3. CASE v = t
    <3>1. \A g \in Phases \ {f} : iteration[g][t] = 0 /\ iteration'[g][t] = 0
      BY <1>0, <1>10, <2>1, <2>3 DEF ThreadInv
    <3>2. round[t[1]] > 0
      BY <1>0, <2>1, <2>3 DEF ThreadInv
    <3>3. CASE more
      <4>1. phase'[t] = f /\ iteration'[f][t] = i + 1 /\ i + 1 < RingSize - 1
        BY <1>10, <1>17, <3>3 DEF i, K
      <4> QED BY <1>0, <1>10, <1>13, <2>3, <3>1, <3>2, <4>1 DEF ThreadInv, Phases
    <3>4. CASE ~more
      <4>1. phase'[t] # f /\ iteration'[f][t] = 0
        BY <1>10, <3>4 DEF Phases
      <4>2. \A g \in Phases : iteration'[g][t] = 0
        BY <3>1, <4>1
      <4>3. 0 < RingSize - 1
        BY <1>1
      <4> QED BY <1>10, <1>13, <2>3, <3>2, <4>2, <4>3 DEF ThreadInv
    <3> QED BY <3>3, <3>4
  <2> QED BY <2>2, <2>3
<1>22. EdgeInv'
  <2> SUFFICES ASSUME NEW p \in Threads, NEW v \in Threads, NEW k \in Keys, Edge(p, v, k)
               PROVE  NotOvertaken(p, v)' /\ Follows(p, v)'
    BY <1>13 DEF EdgeInv
  <2>1. NotOvertaken(p, v) /\ Follows(p, v)
    BY <1>1
  <2>2. K - 1 = RingSize - 2 /\ K - 1 = (RingSize - 2)'
    BY <1>1, <1>13 DEF K
  <2>3. CASE p # t /\ v # t
    <3>1. /\ Half(p)' = Half(p) /\ Step(p)' = Step(p) /\ sent'[p] = sent[p]
          /\ Half(v)' = Half(v) /\ Step(v)' = Step(v)
      BY <1>10, <1>11, <2>3
    <3> QED BY <1>13, <2>1, <3>1 DEF NotOvertaken, Follows
  <2>4. CASE v = t
    <3>1. /\ Half(p)' = Half(p) /\ Step(p)' = Step(p) /\ sent'[p] = sent[p]
      BY <1>10, <1>11, <1>15, <2>4
    <3>2. /\ Half(p) = Half(t) \/ Half(p) = Half(t) + 1
          /\ Half(p) = Half(t) => Step(p) = i \/ Step(p) = i + 1
          /\ Half(p) = Half(t) /\ Step(p) = i => t[1] \in sent[p]
          /\ Half(p) = Half(t) /\ Step(p) = i + 1 => t[1] \notin sent[p] /\ more
          /\ Half(p) = Half(t) + 1 => ~more /\ Step(p) <= 1 /\ (Step(p) = 1 => t[1] \notin sent[p])
      BY <1>15, <2>4
    <3>3. /\ Half(p) \in Int /\ Half(t) \in Int /\ Step(p) \in Int /\ Step(p) >= 0
      BY <1>14
    <3>4. CASE more
      <4>1. Half(t)' = Half(t) /\ Step(t)' = i + 1
        BY <1>11, <3>4 DEF i
      <4>2. Half(p) = Half(t)
        BY <3>2, <3>4
      <4>3. NotOvertaken(p, t)'
        BY <1>14, <3>1, <3>2, <3>3, <4>1, <4>2 DEF NotOvertaken
      <4>4. Follows(p, t)'
        BY <1>14, <3>1, <3>2, <3>3, <4>1, <4>2 DEF Follows
      <4> QED BY <2>4, <4>3, <4>4
    <3>5. CASE ~more
      <4>1. Half(t)' = Half(t) + 1 /\ Step(t)' = 0 /\ i = K - 1
        BY <1>11, <1>14, <3>5
      <4>2. NotOvertaken(p, t)'
        BY <1>14, <3>1, <3>2, <3>3, <3>5, <4>1 DEF NotOvertaken
      <4>3. Follows(p, t)'
        <5>1. CASE Half(p) = Half(t)
          <6>1. Step(p) = K - 1 /\ t[1] \in sent[p]
            BY <3>2, <3>5, <4>1, <5>1
          <6> QED BY <2>2, <3>1, <4>1, <5>1, <6>1 DEF Follows
        <5>2. CASE Half(p) = Half(t) + 1
          BY <3>1, <3>3, <4>1, <5>2 DEF Follows
        <5> QED BY <3>2, <5>1, <5>2
      <4> QED BY <2>4, <4>2, <4>3
    <3> QED BY <3>4, <3>5
  <2>5. CASE p = t
    <3>1. /\ v # t
          /\ \/ Half(v) = Half(t) - 1 /\ Step(v) = K - 1 /\ i = 0 /\ more
             \/ Half(v) = Half(t) /\ (Step(v) = i \/ (Step(v) = i + 1 /\ more))
             \/ Half(v) = Half(t) + 1 /\ Step(v) = 0 /\ ~more
      BY <1>16, <2>5
    <3>2. Half(v)' = Half(v) /\ Step(v)' = Step(v) /\ v[1] \notin sent'[t]
      BY <1>10, <1>11, <3>1
    <3>3. /\ Half(v) \in Int /\ Half(t) \in Int /\ Step(v) \in Int /\ Step(v) >= 0
      BY <1>14
    <3>4. CASE more
      <4>1. Half(t)' = Half(t) /\ Step(t)' = i + 1
        BY <1>11, <3>4 DEF i
      <4>2. NotOvertaken(t, v)'
        BY <1>14, <2>2, <3>1, <3>2, <3>3, <3>4, <4>1 DEF NotOvertaken
      <4>3. Follows(t, v)'
        BY <1>14, <3>1, <3>2, <3>3, <3>4, <4>1 DEF Follows
      <4> QED BY <2>5, <4>2, <4>3
    <3>5. CASE ~more
      <4>1. Half(t)' = Half(t) + 1 /\ Step(t)' = 0 /\ i = K - 1
        BY <1>11, <1>14, <3>5
      <4>2. NotOvertaken(t, v)'
        BY <1>14, <2>2, <3>1, <3>2, <3>3, <3>5, <4>1 DEF NotOvertaken
      <4>3. Follows(t, v)'
        BY <1>14, <3>1, <3>2, <3>3, <3>5, <4>1 DEF Follows
      <4> QED BY <2>5, <4>2, <4>3
    <3> QED BY <3>4, <3>5
  <2> QED BY <2>3, <2>4, <2>5
<1>23. /\ \A g \in Phases : \A v \in Threads : \A k :
            ~(g = f /\ v = t) => (InBuffer(g, v, k)' <=> InBuffer(g, v, k))
       /\ \A k : ~InBuffer(f, t, k)'
  BY <1>7 DEF InBuffer
<1>24. \A g \in Phases : \A v \in Threads : BufferInv(g, v)'
  <2> SUFFICES ASSUME NEW g \in Phases, NEW v \in Threads PROVE BufferInv(g, v)'
    OBVIOUS
  <2>1. BufferInv(g, v)
    BY DEF Averaging
  <2>2. CASE g = f /\ v = t
    <3>1. DOMAIN buffer'[g][v] = {}
      BY <1>7, <2>2
    <3>2. \A p \in Threads : \A k \in Keys : Edge(p, v, k) => ~InBuffer(g, v, k)' /\ ~Sent(p, v, g)'
      BY <1>18, <1>23, <2>2
    <3> QED BY <1>13, <3>1, <3>2 DEF BufferInv
  <2>3. CASE ~(g = f /\ v = t)
    <3>1. \A c : ChunkFits(g, v, c)' <=> ChunkFits(g, v, c)
      BY <1>12, <1>13, <2>3 DEF ChunkFits
    <3>2. buffer'[g][v] = buffer[g][v] /\ \A k : InBuffer(g, v, k)' <=> InBuffer(g, v, k)
      BY <1>7, <1>23, <2>3
    <3>3. \A p \in Threads : \A k \in Keys : Edge(p, v, k) => (Sent(p, v, g)' <=> Sent(p, v, g))
      BY <1>19, <2>3
    <3>4. phase'[v] # g => phase[v] # g
      BY <1>0, <1>10, <2>3
    <3> QED BY <1>13, <2>1, <3>1, <3>2, <3>3, <3>4 DEF BufferInv
  <2> QED BY <2>2, <2>3
<1>25. \A v \in Threads : v # t /\ phase[v] \in Phases => Received(v)' = Received(v)
  <2> SUFFICES ASSUME NEW v \in Threads, v # t, phase[v] \in Phases PROVE Received(v)' = Received(v)
    OBVIOUS
  <2>1. phase'[v] = phase[v] /\ KeysOf(v) \subseteq Keys
    BY <1>1, <1>10
  <2>2. \A p \in Threads : \A k \in KeysOf(v) : Edge(p, v, k) =>
          (Sent(p, v, phase[v])' <=> Sent(p, v, phase[v]))
    <3>1. PICK g \in Phases : g = phase[v]
      OBVIOUS
    <3>2. g = phase'[v]
      BY <2>1, <3>1
    <3>3. \A p \in Threads : \A k \in KeysOf(v) : Edge(p, v, k) => (Sent(p, v, g)' <=> Sent(p, v, g))
      BY <1>19, <2>1
    <3> QED BY <3>1, <3>2, <3>3
  <2>3. \A k : InBuffer(phase[v], v, k)' <=> InBuffer(phase[v], v, k)
    <3>1. PICK g \in Phases : g = phase[v]
      OBVIOUS
    <3>2. g = phase'[v]
      BY <2>1, <3>1
    <3>3. \A k : InBuffer(g, v, k)' <=> InBuffer(g, v, k)
      BY <1>23
    <3> QED BY <3>1, <3>2, <3>3
  <2>4. Received(v)' = {k \in KeysOf(v) :
           ~InBuffer(phase[v], v, k)' /\ \E p \in Threads : Edge(p, v, k) /\ Sent(p, v, phase[v])'}
    BY <1>13, <2>1 DEF Received
  <2> QED BY <2>2, <2>3, <2>4 DEF Received
<1>26. phase'[t] \in Phases => Received(t)' = {}
  <2> SUFFICES ASSUME NEW g \in Phases, phase'[t] = g, NEW k \in KeysOf(t), NEW p \in Threads,
                      Edge(p, t, k), ~InBuffer(g, t, k)', Sent(p, t, g)'
               PROVE  FALSE
    <3>1. \A g \in Phases : phase'[t] = g => Received(t)' = {k \in KeysOf(t) :
            ~InBuffer(g, t, k)' /\ \E p \in Threads : Edge(p, t, k) /\ Sent(p, t, g)'}
      BY <1>13 DEF Received
    <3> QED BY <3>1
  <2>1. k \in Keys
    BY <1>1
  <2>2. g # f
    BY <1>18, <2>1
  <2>3. Sent(p, t, g)
    BY <1>19, <2>1, <2>2
  <2>4. BufferInv(g, t)
    BY DEF Averaging
  <2>5. InBuffer(g, t, k)
    BY <1>0, <2>1, <2>2, <2>3, <2>4 DEF BufferInv
  <2> QED BY <1>23, <2>2, <2>5
<1>27. \A v \in Threads : v # t => GotInv(v)' /\ ChunkInv(v)'
  <2> SUFFICES ASSUME NEW v \in Threads, v # t PROVE GotInv(v)' /\ ChunkInv(v)'
    OBVIOUS
  <2>1. GotInv(v) /\ ChunkInv(v)
    BY DEF Averaging
  <2>2. /\ phase'[v] = phase[v] /\ got'[v] = got[v] /\ sendPos'[v] = sendPos[v] /\ round' = round
        /\ Step(v)' = Step(v) /\ chunks'[v] = chunks[v]
    BY <1>6, <1>10, <1>11
  <2>3. GotInv(v)'
    BY <1>25, <2>1, <2>2 DEF GotInv
  <2>4. phase[v] \in Phases => [k \in KeysOf(v) |-> [p \in Positions |->
          Value(phase[v], RankOf(v), p, IF k \in Received(v) THEN Step(v) + 1 ELSE Step(v), round[v[1]])]]'
        = [k \in KeysOf(v) |-> [p \in Positions |->
          Value(phase[v], RankOf(v), p, IF k \in Received(v) THEN Step(v) + 1 ELSE Step(v), round[v[1]])]]
    <3> SUFFICES ASSUME phase[v] \in Phases
                 PROVE  [k \in KeysOf(v) |-> [p \in Positions |->
          Value(phase[v], RankOf(v), p, IF k \in Received(v) THEN Step(v) + 1 ELSE Step(v), round[v[1]])]]'
        = [k \in KeysOf(v) |-> [p \in Positions |->
          Value(phase[v], RankOf(v), p, IF k \in Received(v) THEN Step(v) + 1 ELSE Step(v), round[v[1]])]]
      OBVIOUS
    <3>1. Received(v)' = Received(v)
      BY <1>25
    <3>2. PICK g \in Phases : g = phase[v] /\ g = phase'[v]
      BY <2>2
    <3>3. \A k, p : Value(g, RankOf(v), p, IF k \in Received(v) THEN Step(v) + 1 ELSE Step(v), round[v[1]])'
             = Value(g, RankOf(v), p, IF k \in Received(v) THEN Step(v) + 1 ELSE Step(v), round[v[1]])
      BY <1>13, <2>2, <3>1
    <3> QED BY <1>13, <3>2, <3>3
  <2>5. ChunkInv(v)'
    BY <1>13, <2>1, <2>2, <2>4 DEF ChunkInv
  <2> QED BY <2>3, <2>5
<1>28. GotInv(t)'
  <2>1. Cardinality({}) = 0
    BY FS_EmptySet
  <2> QED BY <1>10, <1>26, <2>1 DEF GotInv
<1>29. ChunkInv(t)'
  <2> DEFINE r == round[t[1]]
             c == RankOf(t)
  <2>1. /\ sendPos[t] \in Positions /\ Distance(sendPos[t], c) = SendDistance(f, i) /\ c \in Positions
    BY <1>0, <1>1 DEF Averaging, ChunkInv, i
  <2>2. Back(sendPos[t]) \in Positions
    BY <1>1, <2>1, Distances
  <2>3. i \in 0..(RingSize - 2)
    BY <1>1, <1>14 DEF K
  <2>4. /\ i + 1 < K => Distance(Back(sendPos[t]), c) = SendDistance(f, i + 1)
        /\ f = "reduce" /\ i + 1 = K => Distance(Back(sendPos[t]), c) = SendDistance("gather", 0)
    BY <1>1, <2>1, <2>3, Values DEF K
  <2>5. /\ \A p \in Positions : Value("reduce", c, p, K, r) = Value("gather", c, p, 0, r)
        /\ \A p \in Positions : Value("gather", c, p, K, r) = All(r)
    BY <1>1, <2>1, Values DEF K
  <2>6. chunks'[t] = [k \in KeysOf(t) |-> [p \in Positions |-> Value(f, c, p, i + 1, r)]]
    BY <1>0, <1>6, <1>7 DEF i
  <2>7. phase'[t] = after /\ round' = round /\ Step(t)' = next /\ sendPos'[t] = Back(sendPos[t])
    BY <1>10, <1>11
  <2>8. ASSUME NEW g \in Phases, g = after
        PROVE  /\ Distance(Back(sendPos[t]), c) = SendDistance(g, next)
               /\ chunks'[t] = [k \in KeysOf(t) |-> [p \in Positions |-> Value(g, c, p, next, r)]]
    <3>1. CASE more
      <4>1. next = i + 1 /\ g = f
        BY <2>8, <3>1 DEF i
      <4> QED BY <1>17, <2>4, <2>6, <3>1, <4>1
    <3>2. CASE ~more
      <4>1. next = 0 /\ g = "gather" /\ f = "reduce" /\ i + 1 = K
        BY <1>14, <2>8, <3>2 DEF Phases
      <4> HIDE DEF c, r, next
      <4> QED BY <2>4, <2>5, <2>6, <4>1
    <3> QED BY <3>1, <3>2
  <2>9. after = "done" => chunks'[t] = [k \in KeysOf(t) |-> [p \in Positions |-> All(r)]]
    <3> SUFFICES ASSUME after = "done"
                 PROVE  chunks'[t] = [k \in KeysOf(t) |-> [p \in Positions |-> All(r)]]
      OBVIOUS
    <3>1. f = "gather" /\ i + 1 = K
      BY <1>14 DEF Phases
    <3> HIDE DEF c, r
    <3> QED BY <2>5, <2>6, <3>1
  <2>10. ASSUME NEW g \in Phases, phase'[t] = g
         PROVE  /\ sendPos'[t] \in Positions'
                /\ Distance(sendPos'[t], RankOf(t)') = SendDistance(g, Step(t)')
                /\ chunks'[t] = [k \in KeysOf(t)' |-> [p \in Positions' |->
                     Value(g, RankOf(t)', p, IF k \in Received(t)' THEN Step(t)' + 1 ELSE Step(t)', round'[t[1]])]]
    <3>1. Received(t)' = {}
      BY <1>26, <2>10
    <3>2. /\ Distance(Back(sendPos[t]), c) = SendDistance(g, next)
          /\ chunks'[t] = [k \in KeysOf(t) |-> [p \in Positions |-> Value(g, c, p, next, r)]]
      BY <2>7, <2>8, <2>10
    <3> HIDE DEF next
    <3> QED BY <1>13, <2>2, <2>7, <3>1, <3>2
  <2>11. ASSUME NEW g \in Phases, phase'[t] = g
         PROVE  /\ (sendPos[t] \in Positions)'
                /\ (Distance(sendPos[t], RankOf(t)) = SendDistance(phase[t], Step(t)))'
                /\ (chunks[t] = [k \in KeysOf(t) |-> [p \in Positions |->
                     Value(phase[t], RankOf(t), p, IF k \in Received(t) THEN Step(t) + 1 ELSE Step(t), round[t[1]])]])'
    <3>1. (Distance(sendPos[t], RankOf(t)) = SendDistance(phase[t], Step(t)))'
             <=> Distance(sendPos'[t], RankOf(t)') = SendDistance(g, Step(t)')
      BY <1>13, <2>11
    <3>2. [k \in KeysOf(t) |-> [p \in Positions |->
            Value(phase[t], RankOf(t), p, IF k \in Received(t) THEN Step(t) + 1 ELSE Step(t), round[t[1]])]]'
          = [k \in KeysOf(t)' |-> [p \in Positions' |->
              Value(g, RankOf(t)', p, IF k \in Received(t)' THEN Step(t)' + 1 ELSE Step(t)', round'[t[1]])]]
      BY <1>13, <2>11
    <3>3. (chunks[t] = [k \in KeysOf(t) |-> [p \in Positions |->
            Value(phase[t], RankOf(t), p, IF k \in Received(t) THEN Step(t) + 1 ELSE Step(t), round[t[1]])]])'
      BY <2>10, <2>11, <3>2
    <3>4. (sendPos[t] \in Positions)' /\ (Distance(sendPos[t], RankOf(t)) = SendDistance(phase[t], Step(t)))'
      BY <2>10, <2>11, <3>1
    <3> QED BY <3>3, <3>4
  <2>12. phase'[t] = "done" => (chunks[t] = [k \in KeysOf(t) |-> [p \in Positions |-> All(round[t[1]])]])'
    <3>1. \A x : All(x)' = All(x)
      BY <1>13
    <3>2. All(round[t[1]])' = All(r)
      BY <1>13, <2>7
    <3> QED BY <1>13, <2>7, <2>9, <3>2
  <2> QED BY <2>11, <2>12 DEF ChunkInv
<1>30. \A v \in Threads : GotInv(v)' /\ ChunkInv(v)'
  BY <1>27, <1>28, <1>29
<1> QED BY <1>1, <1>13, <1>20, <1>21, <1>22, <1>24, <1>30 DEF Averaging

-----------------------------------------------------------------------------
(* A provider begins a round: its threads stand where they stood, before   *)
(* the first iteration of that round.                                      *)

LEMMA BeginStep ==
  ASSUME Averaging, NEW n \in Providers, BeginRound(n)
  PROVE  Averaging'
<1>1. /\ stage = "formed" /\ RingSize \in Int /\ RingSize > 1 /\ RingSize \in Nat \ {0}
      /\ Rings /\ ThreadSet /\ RingTypes
      /\ \A v \in Threads : /\ Placed(v) /\ ThreadInv(v) /\ RankOf(v) \in Positions
                            /\ v[1] \in Providers /\ KeysOf(v) \subseteq Keys
      /\ \A p, v \in Threads : \A k \in Keys : Edge(p, v, k) => NotOvertaken(p, v) /\ Follows(p, v)
  BY InAveraging
<1>2. /\ \A v \in Threads : v[1] = n => phase[v] = "done"
      /\ round' = [round EXCEPT ![n] = @ + 1]
      /\ phase' = [v \in Threads |-> IF v[1] = n THEN "reduce" ELSE phase[v]]
      /\ sendPos' = [v \in Threads |-> IF v[1] = n THEN NodeRank(n) ELSE sendPos[v]]
      /\ chunks' = [v \in Threads |->
                      IF v[1] = n THEN [k \in ringKeys[n][v[2]] |->
                                         [p \in Positions |-> {<<NodeRank(n), round[n] + 1>>}]]
                      ELSE chunks[v]]
      /\ UNCHANGED <<formationVars, iteration, sent, got, buffer>>
  BY DEF BeginRound, CanBegin, Finished
<1>3. Still
  BY <1>2 DEF Still, Threads
<1>4. /\ RingSize' = RingSize /\ Positions' = Positions
      /\ \A v : KeysOf(v)' = KeysOf(v) /\ RankOf(v)' = RankOf(v) /\ Dests(v)' = Dests(v)
      /\ \A p, v, k : Edge(p, v, k)' <=> Edge(p, v, k)
      /\ \A p, q : Distance(p, q)' = Distance(p, q)
      /\ \A g, j : SendDistance(g, j)' = SendDistance(g, j)
      /\ \A p, c, r : Arc(p, c, r)' = Arc(p, c, r)
      /\ \A r : All(r)' = All(r)
      /\ \A g, c, p, j, r : Value(g, c, p, j, r)' = Value(g, c, p, j, r)
      /\ (stage = "formed")' /\ Rings' /\ Threads' = Threads
  BY <1>1, <1>3, Frozen DEF Still
<1>5. /\ phase \in [Threads -> {"reduce", "gather", "done"}]
      /\ iteration \in [Phases -> [Threads -> Nat]]
      /\ sendPos \in [Threads -> Int]
      /\ sent \in [Threads -> SUBSET Providers]
      /\ got \in [Threads -> Nat]
      /\ round \in [Providers -> Nat]
      /\ buffer \in [Phases -> [Threads -> Seq(Messages)]]
      /\ chunks = [v \in Threads |-> chunks[v]]
  BY <1>1 DEF RingTypes
<1>6. \A v \in Threads : v[1] = n =>
        /\ phase[v] = "done" /\ phase'[v] = "reduce" /\ round'[v[1]] = round[v[1]] + 1
        /\ round[v[1]] \in Int /\ round[v[1]] >= 0
        /\ \A g \in Phases : iteration[g][v] = 0
        /\ sent[v] = {} /\ got[v] = 0
        /\ sendPos'[v] = RankOf(v)
        /\ chunks'[v] = [k \in KeysOf(v) |-> [p \in Positions |-> {<<RankOf(v), round[v[1]] + 1>>}]]
  <2> SUFFICES ASSUME NEW v \in Threads, v[1] = n
               PROVE  /\ phase[v] = "done" /\ phase'[v] = "reduce" /\ round'[v[1]] = round[v[1]] + 1
                      /\ round[v[1]] \in Int /\ round[v[1]] >= 0
                      /\ \A g \in Phases : iteration[g][v] = 0
                      /\ sent[v] = {} /\ got[v] = 0
                      /\ sendPos'[v] = RankOf(v)
                      /\ chunks'[v] = [k \in KeysOf(v) |-> [p \in Positions |-> {<<RankOf(v), round[v[1]] + 1>>}]]
    OBVIOUS
  <2>1. phase[v] = "done" /\ phase'[v] = "reduce"
    BY <1>2
  <2>2. round'[v[1]] = round[v[1]] + 1 /\ round[v[1]] \in Int /\ round[v[1]] >= 0
    BY <1>2, <1>5
  <2>3. ThreadInv(v)
    BY <1>1
  <2>4. (\A g \in Phases : iteration[g][v] = 0) /\ sent[v] = {} /\ got[v] = 0
    BY <2>1, <2>3 DEF ThreadInv, Phases
  <2>5. sendPos'[v] = RankOf(v)
    BY <1>2 DEF RankOf
  <2>6. chunks'[v] = [k \in KeysOf(v) |-> [p \in Positions |-> {<<RankOf(v), round[v[1]] + 1>>}]]
    BY <1>2 DEF RankOf, KeysOf
  <2> QED BY <2>1, <2>2, <2>4, <2>5, <2>6
<1>7. \A v \in Threads : v[1] # n =>
        phase'[v] = phase[v] /\ round'[v[1]] = round[v[1]] /\ sendPos'[v] = sendPos[v] /\ chunks'[v] = chunks[v]
  BY <1>1, <1>2, <1>5
<1>8. \A v \in Threads : /\ Half(v)' = Half(v) /\ Step(v)' = Step(v)
                         /\ \A g \in Phases : /\ NextHalf(g, v)' = NextHalf(g, v)
                                              /\ NextRound(g, v)' = NextRound(g, v)
  <2> SUFFICES ASSUME NEW v \in Threads
               PROVE  /\ Half(v)' = Half(v) /\ Step(v)' = Step(v)
                      /\ \A g \in Phases : /\ NextHalf(g, v)' = NextHalf(g, v)
                                           /\ NextRound(g, v)' = NextRound(g, v)
    OBVIOUS
  <2>1. CASE v[1] = n
    <3>1. /\ phase[v] = "done" /\ phase'[v] = "reduce" /\ round'[v[1]] = round[v[1]] + 1
          /\ round[v[1]] \in Int
          /\ \A g \in Phases : iteration[g][v] = 0
      BY <1>6, <2>1
    <3>2. Half(v) = 2 * round[v[1]] /\ Half(v)' = 2 * (round[v[1]] + 1) - 2
      BY <3>1 DEF Half
    <3>3. Half(v)' = Half(v)
      BY <3>1, <3>2
    <3>4. Step(v) = 0 /\ Step(v)' = 0
      BY <1>2, <3>1 DEF Step, Phases
    <3>5. \A g \in Phases : NextHalf(g, v)' = NextHalf(g, v)
      BY <3>1, <3>3 DEF NextHalf, Phases
    <3>6. \A g \in Phases : NextRound(g, v)' = NextRound(g, v)
      BY <3>1 DEF NextRound
    <3> QED BY <3>3, <3>4, <3>5, <3>6
  <2>2. CASE v[1] # n
    <3>1. phase'[v] = phase[v] /\ round'[v[1]] = round[v[1]] /\ iteration' = iteration
      BY <1>2, <1>7, <2>2
    <3>2. Half(v)' = Half(v) /\ Step(v)' = Step(v)
      BY <3>1 DEF Half, Step
    <3> QED BY <3>1, <3>2 DEF NextHalf, NextRound
  <2> QED BY <2>1, <2>2
<1>9. \A p, v \in Threads : \A g \in Phases : Sent(p, v, g)' <=> Sent(p, v, g)
  BY <1>2, <1>8 DEF Sent
<1>10. \A g, v, k : InBuffer(g, v, k)' <=> InBuffer(g, v, k)
  BY <1>2 DEF InBuffer
<1>11. RingTypes'
  <2>1. round' \in [Providers -> Nat]
    BY <1>2, <1>5
  <2>2. phase' \in [Threads -> {"reduce", "gather", "done"}]
    BY <1>2, <1>5
  <2>3. sendPos' \in [Threads -> Int]
    <3>1. \A v \in Threads : v[1] = n => NodeRank(n) \in Int
      BY <1>1 DEF RankOf, Positions
    <3>2. \A v \in Threads : sendPos[v] \in Int
      BY <1>5
    <3> QED BY <1>2, <3>1, <3>2
  <2>4. chunks' = [v \in Threads |-> chunks'[v]]
    BY <1>2
  <2>5. TypesNext
    BY <1>2, <1>5, <2>1, <2>2, <2>3, <2>4 DEF TypesNext
  <2> QED BY <1>1, <1>3, <2>5, StillTyped
<1>12. \A v \in Threads : ThreadInv(v)'
  <2> SUFFICES ASSUME NEW v \in Threads PROVE ThreadInv(v)'
    OBVIOUS
  <2>1. ThreadInv(v)
    BY <1>1
  <2>2. CASE v[1] = n
    <3>1. /\ phase'[v] = "reduce" /\ round'[v[1]] > 0
          /\ \A g \in Phases : iteration'[g][v] = 0
          /\ sent'[v] = {} /\ 0 < RingSize - 1
      <4>1. /\ phase'[v] = "reduce" /\ round'[v[1]] = round[v[1]] + 1
            /\ round[v[1]] \in Int /\ round[v[1]] >= 0
            /\ \A g \in Phases : iteration[g][v] = 0
            /\ sent[v] = {}
        BY <1>6, <2>2
      <4>2. round'[v[1]] > 0
        BY <4>1
      <4>3. 0 < RingSize - 1
        BY <1>1
      <4>4. iteration' = iteration /\ sent' = sent
        BY <1>2
      <4> QED BY <4>1, <4>2, <4>3, <4>4
    <3> QED BY <1>4, <3>1 DEF ThreadInv, Phases
  <2>3. CASE v[1] # n
    BY <1>2, <1>4, <1>7, <2>1, <2>3 DEF ThreadInv
  <2> QED BY <2>2, <2>3
<1>13. EdgeInv'
  <2> SUFFICES ASSUME NEW p \in Threads, NEW v \in Threads, NEW k \in Keys, Edge(p, v, k)
               PROVE  NotOvertaken(p, v)' /\ Follows(p, v)'
    BY <1>4 DEF EdgeInv
  <2>1. NotOvertaken(p, v) /\ Follows(p, v)
    BY <1>1
  <2>2. /\ Half(p)' = Half(p) /\ Step(p)' = Step(p) /\ Half(v)' = Half(v) /\ Step(v)' = Step(v)
        /\ sent' = sent /\ RingSize' = RingSize
    BY <1>2, <1>4, <1>8
  <2> QED BY <2>1, <2>2 DEF NotOvertaken, Follows
<1>14. \A g \in Phases : \A v \in Threads : BufferInv(g, v)'
  <2> SUFFICES ASSUME NEW g \in Phases, NEW v \in Threads PROVE BufferInv(g, v)'
    OBVIOUS
  <2>1. BufferInv(g, v)
    BY DEF Averaging
  <2>2. NextRound(g, v)' = NextRound(g, v)
    BY <1>8
  <2>3. \A c : ChunkFits(g, v, c)' <=> ChunkFits(g, v, c)
    BY <1>2, <1>4, <2>2 DEF ChunkFits
  <2>4. phase'[v] # g => phase[v] # g
    BY <1>6, <1>7 DEF Phases
  <2> QED BY <1>2, <1>4, <1>9, <1>10, <2>1, <2>3, <2>4 DEF BufferInv
<1>15. ASSUME NEW v \in Threads, v[1] # n
       PROVE  GotInv(v)' /\ ChunkInv(v)'
  <2>1. GotInv(v) /\ ChunkInv(v)
    BY DEF Averaging
  <2>2. phase'[v] = phase[v] /\ round'[v[1]] = round[v[1]] /\ sendPos'[v] = sendPos[v] /\ chunks'[v] = chunks[v]
        /\ got'[v] = got[v] /\ Step(v)' = Step(v)
    BY <1>2, <1>7, <1>8, <1>15
  <2>3. ASSUME NEW g \in Phases, g = phase[v]
        PROVE  Received(v)' = Received(v)
    <3>1. g = phase'[v]
      BY <2>2, <2>3
    <3>2. Received(v) = {k \in KeysOf(v) :
            ~InBuffer(g, v, k) /\ \E p \in Threads : Edge(p, v, k) /\ Sent(p, v, g)}
      BY <2>3 DEF Received
    <3>3. Received(v)' = {k \in KeysOf(v) :
            ~InBuffer(g, v, k)' /\ \E p \in Threads : Edge(p, v, k) /\ Sent(p, v, g)'}
      BY <1>4, <3>1 DEF Received
    <3> QED BY <1>9, <1>10, <3>2, <3>3
  <2>4. GotInv(v)'
    BY <2>1, <2>2, <2>3 DEF GotInv
  <2>5. phase[v] \in Phases => [k \in KeysOf(v) |-> [p \in Positions |->
          Value(phase[v], RankOf(v), p, IF k \in Received(v) THEN Step(v) + 1 ELSE Step(v), round[v[1]])]]'
        = [k \in KeysOf(v) |-> [p \in Positions |->
          Value(phase[v], RankOf(v), p, IF k \in Received(v) THEN Step(v) + 1 ELSE Step(v), round[v[1]])]]
    BY <1>4, <2>2, <2>3
  <2>6. ChunkInv(v)'
    <3>1. All(round[v[1]])' = All(round[v[1]])
      BY <1>4, <2>2
    <3> QED BY <1>4, <2>1, <2>2, <2>5, <3>1 DEF ChunkInv
  <2> QED BY <2>4, <2>6
<1>16. ASSUME NEW v \in Threads, v[1] = n
       PROVE  GotInv(v)' /\ ChunkInv(v)'
  <2> DEFINE c == RankOf(v)
  <2>1. /\ phase[v] = "done" /\ phase'[v] = "reduce" /\ round'[v[1]] = round[v[1]] + 1
        /\ got[v] = 0 /\ sendPos'[v] = c
        /\ chunks'[v] = [k \in KeysOf(v) |-> [p \in Positions |-> {<<c, round[v[1]] + 1>>}]]
    BY <1>6, <1>16
  <2>2. Received(v)' = {}
    <3>1. BufferInv("reduce", v)
      BY DEF Averaging, Phases
    <3>2. \A p \in Threads : \A k \in KeysOf(v) : Edge(p, v, k) /\ Sent(p, v, "reduce") => InBuffer("reduce", v, k)
      BY <1>1, <2>1, <3>1 DEF BufferInv
    <3>3. Received(v)' = {k \in KeysOf(v) :
            ~InBuffer("reduce", v, k)' /\ \E p \in Threads : Edge(p, v, k) /\ Sent(p, v, "reduce")'}
      BY <1>4, <2>1 DEF Received
    <3>4. "reduce" \in Phases
      BY DEF Phases
    <3>5. Received(v)' = {k \in KeysOf(v) :
            ~InBuffer("reduce", v, k) /\ \E p \in Threads : Edge(p, v, k) /\ Sent(p, v, "reduce")}
      BY <1>9, <1>10, <3>3, <3>4
    <3> QED BY <3>2, <3>5
  <2>3. GotInv(v)'
    <3>1. got'[v] = 0 /\ Cardinality({}) = 0
      BY <1>2, <2>1, FS_EmptySet
    <3> QED BY <2>2, <3>1 DEF GotInv
  <2>4. Step(v)' = 0
    BY <1>2, <1>6, <1>16, <2>1 DEF Step, Phases
  <2>5. c \in Positions /\ Distance(c, c) = 0 /\ SendDistance("reduce", 0) = 0
    BY <1>1, Distances DEF SendDistance
  <2>6. \A p \in Positions : \A r : Value("reduce", c, p, 0, r) = {<<c, r>>}
    BY <1>1, <2>5, Values
  <2>7. (sendPos[v] \in Positions)' /\ (Distance(sendPos[v], RankOf(v)) = SendDistance(phase[v], Step(v)))'
    <3>1. sendPos'[v] \in Positions'
      BY <1>4, <2>1, <2>5
    <3>3. SendDistance(phase[v], Step(v))' = 0
      BY <1>4, <2>1, <2>4, <2>5
    <3> QED BY <1>4, <2>1, <2>5, <3>1, <3>3
  <2>8. [k \in KeysOf(v) |-> [p \in Positions |->
          Value(phase[v], RankOf(v), p, IF k \in Received(v) THEN Step(v) + 1 ELSE Step(v), round[v[1]])]]'
        = [k \in KeysOf(v) |-> [p \in Positions |-> Value("reduce", c, p, 0, round[v[1]] + 1)]]
    BY <1>4, <2>1, <2>2, <2>4
  <2>9. [k \in KeysOf(v) |-> [p \in Positions |-> Value("reduce", c, p, 0, round[v[1]] + 1)]] = chunks'[v]
    <3> DEFINE r == round[v[1]] + 1
    <3>1. chunks'[v] = [k \in KeysOf(v) |-> [p \in Positions |-> {<<c, r>>}]]
      BY <2>1
    <3> HIDE DEF c, r
    <3>2. [k \in KeysOf(v) |-> [p \in Positions |-> Value("reduce", c, p, 0, r)]]
             = [k \in KeysOf(v) |-> [p \in Positions |-> {<<c, r>>}]]
      BY <2>6
    <3> QED BY <3>1, <3>2 DEF r
  <2>10. ChunkInv(v)'
    BY <2>1, <2>7, <2>8, <2>9 DEF ChunkInv
  <2> QED BY <2>3, <2>10
<1>17. \A v \in Threads : GotInv(v)' /\ ChunkInv(v)'
  BY <1>15, <1>16
<1> QED BY <1>1, <1>4, <1>11, <1>12, <1>13, <1>14, <1>17 DEF Averaging

-----------------------------------------------------------------------------
(* The invariant, from the formation on. *)

FormedRings == stage = "formed" => Rings

LEMMA RingInitial == AveragingInit => RingInv
<1> SUFFICES ASSUME AveragingInit PROVE RingInv
  OBVIOUS
<1>1. /\ stage # "formed" /\ round = [n \in Providers |-> 0] /\ phase = <<>>
  BY DEF AveragingInit, FormationInit, RingInit
<1>2. Threads = {}
  BY <1>1 DEF Threads
<1>3. phase \in [Threads -> {"reduce", "gather", "done"}]
  <2>1. phase = [x \in {} |-> "done"]
    BY <1>1
  <2> QED BY <1>2, <2>1
<1>4. RingTypes
  BY <1>1, <1>2, <1>3 DEF RingTypes
<1> QED BY <1>1, <1>2, <1>4 DEF RingInv

(* The threads are created before the first iteration of the first round.  *)
LEMMA StartStep ==
  ASSUME RingInv, StartProviders, FormedRings'
  PROVE  RingInv'
<1>1. /\ stage = "cut" /\ round' = round /\ round = [n \in Providers |-> 0]
  BY DEF StartProviders, CutModel, RingInv
<1> DEFINE T == IF stage' # "formed" THEN {}
                ELSE {t \in Providers \X (0..(Params - 1)) : t[2] \in DOMAIN ringKeys'[t[1]]}
<1>2. /\ phase' = [t \in T |-> "done"]
      /\ iteration' = [f \in Phases |-> [t \in T |-> 0]]
      /\ sendPos' = [t \in T |-> 0]
      /\ sent' = [t \in T |-> {}]
      /\ got' = [t \in T |-> 0]
      /\ chunks' = [t \in T |-> <<>>]
      /\ buffer' = [f \in Phases |-> [t \in T |-> <<>>]]
  BY DEF StartProviders
<1>3. Threads' = T
  BY <1>2 DEF Threads
<1>4. /\ T = IF stage' = "formed" THEN {t \in Providers \X (0..(Params - 1)) : t[2] \in DOMAIN ringKeys'[t[1]]}
             ELSE {}
      /\ \A t \in T : t[1] \in Providers
  OBVIOUS
<1> HIDE DEF T
<1>5. RingTypes'
  <2>1. /\ round' \in [Providers -> Nat]
        /\ phase' \in [T -> {"reduce", "gather", "done"}]
        /\ iteration' \in [Phases -> [T -> Nat]]
        /\ sendPos' \in [T -> Int]
        /\ sent' \in [T -> SUBSET Providers]
        /\ got' \in [T -> Nat]
        /\ chunks' = [t \in T |-> chunks'[t]]
    BY <1>1, <1>2
  <2>2. buffer' \in [Phases -> [T -> Seq(Messages')]]
    <3> DEFINE S == Seq(Messages')
    <3>1. <<>> \in S
      OBVIOUS
    <3> HIDE DEF S
    <3>2. buffer' \in [Phases -> [T -> S]]
      BY <1>2, <3>1
    <3> QED BY <3>2 DEF S
  <2> QED BY <1>3, <1>4, <2>1, <2>2 DEF RingTypes
<1>6. /\ round' = [n \in Providers |-> 0]
      /\ \A t \in T : phase'[t] = "done" /\ sent'[t] = {} /\ got'[t] = 0 /\ round'[t[1]] = 0
      /\ \A f \in Phases : \A t \in T : iteration'[f][t] = 0 /\ buffer'[f][t] = <<>>
  BY <1>1, <1>2, <1>4
<1>7. \A t \in T : Half(t)' = 0 /\ Step(t)' = 0
  BY <1>6 DEF Half, Step, Phases
<1>8. \A t \in T : \A f \in Phases : NextHalf(f, t)' \in {0, 1}
  BY <1>7 DEF NextHalf
<1>9. \A p, t \in T : \A f \in Phases : ~Sent(p, t, f)'
  <2> SUFFICES ASSUME NEW p \in T, NEW t \in T, NEW f \in Phases, Sent(p, t, f)'
               PROVE  FALSE
    OBVIOUS
  <2>1. Half(p)' = 0 /\ Step(p)' = 0 /\ sent'[p] = {} /\ iteration'[f][t] = 0 /\ NextHalf(f, t)' \in {0, 1}
    BY <1>6, <1>7, <1>8
  <2> QED BY <2>1 DEF Sent
<1>10. \A f \in Phases : \A t \in T : \A k : ~InBuffer(f, t, k)'
  BY <1>6 DEF InBuffer
<1>11. ASSUME NEW t \in T
       PROVE  ThreadInv(t)' /\ GotInv(t)' /\ ChunkInv(t)'
  <2>1. phase'[t] \notin Phases /\ round'[t[1]] = 0 /\ sent'[t] = {} /\ got'[t] = 0
    BY <1>6 DEF Phases
  <2>2. ThreadInv(t)'
    BY <1>6, <2>1 DEF ThreadInv
  <2>3. GotInv(t)' /\ ChunkInv(t)'
    BY <2>1 DEF GotInv, ChunkInv
  <2> QED BY <2>2, <2>3
<1>12. EdgeInv'
  <2> SUFFICES ASSUME NEW p \in T, NEW t \in T, NEW k \in Keys, Edge(p, t, k)'
               PROVE  NotOvertaken(p, t)' /\ Follows(p, t)'
    BY <1>3 DEF EdgeInv
  <2>1. Half(p)' = 0 /\ Step(p)' = 0 /\ Half(t)' = 0 /\ Step(t)' = 0
    BY <1>7
  <2> QED BY <2>1 DEF NotOvertaken, Follows
<1>13. \A f \in Phases : \A t \in T : BufferInv(f, t)'
  <2> SUFFICES ASSUME NEW f \in Phases, NEW t \in T PROVE BufferInv(f, t)'
    OBVIOUS
  <2>1. DOMAIN buffer'[f][t] = {}
    BY <1>6
  <2>2. \A p \in Threads' : \A k \in Keys : ~Sent(p, t, f)' /\ ~InBuffer(f, t, k)'
    BY <1>3, <1>9, <1>10
  <2> QED BY <2>1, <2>2 DEF BufferInv
<1> QED BY <1>3, <1>5, <1>6, <1>11, <1>12, <1>13 DEF RingInv

LEMMA RingUnchanged ==
  ASSUME RingInv, UNCHANGED averagingVars
  PROVE  RingInv'
<1>1. /\ UNCHANGED formationVars
      /\ round' = round /\ phase' = phase /\ iteration' = iteration /\ sendPos' = sendPos
      /\ sent' = sent /\ got' = got /\ chunks' = chunks /\ buffer' = buffer
      /\ stage' = stage /\ ringKeys' = ringKeys
  BY DEF averagingVars, ringVars, formationVars
<1>2. Still
  BY <1>1 DEF Still, Threads
<1>3. /\ RingSize' = RingSize /\ Positions' = Positions /\ Threads' = Threads
      /\ \A v : KeysOf(v)' = KeysOf(v) /\ RankOf(v)' = RankOf(v) /\ Dests(v)' = Dests(v)
      /\ \A p, v, k : Edge(p, v, k)' <=> Edge(p, v, k)
      /\ \A p, q : Distance(p, q)' = Distance(p, q)
      /\ \A g, j : SendDistance(g, j)' = SendDistance(g, j)
      /\ \A p, c, r : Arc(p, c, r)' = Arc(p, c, r)
      /\ \A r : All(r)' = All(r)
      /\ \A g, c, p, j, r : Value(g, c, p, j, r)' = Value(g, c, p, j, r)
  BY <1>2, Frozen DEF Still
<1>4. Messages' = Messages
  <2>1. Chunk' = Chunk
    BY <1>3 DEF Chunk
  <2> QED BY <2>1 DEF Messages
<1>5. RingTypes' <=> RingTypes
  BY <1>1, <1>3, <1>4 DEF RingTypes
<1>6. /\ \A v : Half(v)' = Half(v) /\ Step(v)' = Step(v)
      /\ \A g, v : NextHalf(g, v)' = NextHalf(g, v) /\ NextRound(g, v)' = NextRound(g, v)
      /\ \A p, v, g : Sent(p, v, g)' <=> Sent(p, v, g)
      /\ \A g, v, k : InBuffer(g, v, k)' <=> InBuffer(g, v, k)
  BY <1>1 DEF Half, Step, NextHalf, NextRound, Sent, InBuffer
<1>7. \A v : Received(v)' = Received(v)
  BY <1>1, <1>3, <1>6 DEF Received
<1>8. \A v : (ThreadInv(v)' <=> ThreadInv(v)) /\ (GotInv(v)' <=> GotInv(v))
  BY <1>1, <1>3, <1>7 DEF ThreadInv, GotInv
<1>9. \A v : ChunkInv(v)' <=> ChunkInv(v)
  BY <1>1, <1>3, <1>6, <1>7 DEF ChunkInv
<1>10. EdgeInv' <=> EdgeInv
  BY <1>1, <1>3, <1>6 DEF EdgeInv, NotOvertaken, Follows
<1>11. \A g, v, c : ChunkFits(g, v, c)' <=> ChunkFits(g, v, c)
  BY <1>1, <1>3, <1>6 DEF ChunkFits
<1>12. \A g, v : BufferInv(g, v)' <=> BufferInv(g, v)
  BY <1>1, <1>3, <1>6, <1>11 DEF BufferInv
<1> QED BY <1>1, <1>3, <1>5, <1>8, <1>9, <1>10, <1>12 DEF RingInv

LEMMA RingStep ==
  RingInv /\ FormedRings /\ FormedRings' /\ [AveragingNext]_averagingVars => RingInv'
<1> SUFFICES ASSUME RingInv, FormedRings, FormedRings', [AveragingNext]_averagingVars
             PROVE  RingInv'
  OBVIOUS
<1>1. CASE stage = "formed" /\ RingSize > 1
  <2>1. Averaging
    BY <1>1 DEF RingInv, FormedRings, Averaging
  <2>2. ASSUME Averaging'
        PROVE  RingInv'
    <3>1. (stage = "formed")' /\ (RingSize > 1)' /\ RingTypes' /\ EdgeInv'
          /\ (\A t \in Threads : ThreadInv(t) /\ GotInv(t) /\ ChunkInv(t))'
          /\ (\A f \in Phases : \A t \in Threads : BufferInv(f, t))' /\ Rings'
      BY <2>2 DEF Averaging
    <3>2. ~(RingSize < 2)'
      <4>1. (RingSize \in Nat)'
        BY <3>1 DEF Rings
      <4> QED BY <3>1, <4>1
    <3> QED BY <3>1, <3>2 DEF RingInv
  <2>3. ASSUME NEW n \in Providers, BeginRound(n)
        PROVE  RingInv'
    BY <2>1, <2>2, <2>3, BeginStep
  <2>4. ASSUME NEW t \in Threads, NEW d \in Providers, Send(t, d)
        PROVE  RingInv'
    BY <2>1, <2>2, <2>4, SendStep
  <2>5. ASSUME NEW t \in Threads, Receive(t)
        PROVE  RingInv'
    BY <2>1, <2>2, <2>5, TakeStep, TurnStep
  <2>6. CASE UNCHANGED averagingVars
    BY <2>6, RingUnchanged
  <2>7. stage # "search" /\ stage # "cut"
    BY <1>1
  <2> QED BY <2>3, <2>4, <2>5, <2>6, <2>7
     DEF AveragingNext, Average, ThreadNext, Evaluate, Form, StartProviders, CutModel
<1>2. CASE stage = "formed" /\ ~(RingSize > 1)
  <2>1. RingSize < 2 /\ \A t \in Threads : phase[t] \notin Phases
    <3>1. RingSize \in Nat
      BY <1>2 DEF FormedRings, Rings
    <3>2. RingSize < 2
      BY <1>2, <3>1
    <3> QED BY <3>2 DEF RingInv, Phases
  <2>2. UNCHANGED averagingVars
    BY <1>2, <2>1 DEF AveragingNext, Average, ThreadNext, Evaluate, Form, StartProviders, CutModel,
                      BeginRound, CanBegin, Send, CanSend, Receive, CanReceive
  <2> QED BY <2>2, RingUnchanged
<1>3. CASE stage # "formed"
  <2>1. Threads = {} /\ round = [n \in Providers |-> 0] /\ phase \in [Threads -> {"reduce", "gather", "done"}]
    BY <1>3 DEF RingInv, RingTypes
  <2>2. ASSUME UNCHANGED ringVars, stage' # "formed"
        PROVE  RingInv'
    <3>1. Threads' = {} /\ round' = [n \in Providers |-> 0] /\ phase' \in [{} -> {"reduce", "gather", "done"}]
      BY <2>1, <2>2 DEF ringVars, Threads
    <3>2. RingTypes'
      BY <2>2, <3>1 DEF RingTypes
    <3> QED BY <2>2, <3>1, <3>2 DEF RingInv
  <2>3. CASE UNCHANGED averagingVars
    BY <1>3, <2>2, <2>3 DEF averagingVars, formationVars
  <2>4. CASE (Evaluate \/ Form) /\ UNCHANGED ringVars
    BY <2>2, <2>4 DEF Evaluate, Form
  <2>5. CASE StartProviders
    BY <2>5, StartStep
  <2> QED BY <1>3, <2>3, <2>4, <2>5 DEF AveragingNext, Average
<1> QED BY <1>1, <1>2, <1>3

LEMMA InvariantIsExact == RingInv /\ FormedRings => AveragesAreExact
<1> SUFFICES ASSUME RingInv, FormedRings, stage = "formed", NEW t \in Threads,
                    phase[t] = "done", round[t[1]] > 0,
                    NEW k \in ringKeys[t[1]][t[2]], NEW p \in Positions
             PROVE  chunks[t][k][p] = {<<c, round[t[1]]>> : c \in 0..(RingSize - 1)}
  BY DEF AveragesAreExact
<1>1. t[1] \in Providers
  BY DEF RingInv, RingTypes
<1>2. RingSize > 1
  <2>1. round # [n \in Providers |-> 0]
    BY <1>1
  <2>2. ~(RingSize < 2) /\ RingSize \in Nat
    BY <2>1 DEF RingInv, FormedRings, Rings
  <2> QED BY <2>2
<1>3. chunks[t] = [q \in KeysOf(t) |-> [x \in Positions |-> All(round[t[1]])]]
  BY <1>2 DEF RingInv, ChunkInv
<1> QED BY <1>3 DEF KeysOf, All, Positions

-----------------------------------------------------------------------------
(* The rings of the formation. *)

LEMMA FormationMakesRings == FormationInv => FormedRings
<1> SUFFICES ASSUME FormationInv, stage = "formed" PROVE Rings
  BY DEF FormedRings
<1>1. Formed /\ Groups(members)
  BY DEF FormationInv
<1>2. RingSize \in Nat \ {0} /\ DOMAIN members = 1..RingSize
  BY <1>1 DEF Groups, RingSize
<1>3. ASSUME NEW n \in Providers
      PROVE  /\ NodeRank(n) \in Positions /\ keys[n] \subseteq Keys
             /\ ClusterOf(n) \in 1..RingSize /\ NodeRank(n) = ClusterOf(n) - 1
             /\ ringKeys[n] = RingParamKeys(keys[n], RingIds(keys, n))
  <2>1. ClusterOf(n) \in 1..RingSize
    BY <1>1, <1>2, PlaceOf
  <2>2. keys[n] \subseteq Keys
    BY <1>1, KeysType
  <2> QED BY <1>1, <1>2, <2>1, <2>2 DEF NodeRank, Positions, Formed, FormedFrom
<1>4. ASSUME NEW c \in Positions, NEW k \in Keys
      PROVE  \E n \in Providers : /\ NodeRank(n) = c /\ k \in keys[n]
                                  /\ \A m \in Providers : NodeRank(m) = c /\ k \in keys[m] => m = n
  <2>1. c + 1 \in DOMAIN members /\ c \in Nat
    BY <1>2 DEF Positions
  <2> DEFINE d == c + 1
  <2>2. d \in DOMAIN members /\ c = d - 1 /\ d \in Nat
    BY <2>1
  <2> HIDE DEF d
  <2>3. PICK i \in 1..Size(d) : k \in keys[members[d][i]] /\ \A j \in 1..Size(d) : k \in keys[members[d][j]] => j = i
    BY <1>1, <2>2, Holder
  <2>4. DOMAIN members[d] = 1..Size(d)
    BY <1>1, <2>2, SizeType
  <2> DEFINE n == members[d][i]
  <2>5. n \in Providers /\ ClusterOf(n) = d /\ k \in keys[n]
    BY <1>1, <2>2, <2>3, <2>4, PlaceIs
  <2>6. ASSUME NEW m \in Providers, NodeRank(m) = c, k \in keys[m]
        PROVE  m = n
    <3>1. ClusterOf(m) = d
      BY <1>3, <2>2, <2>6
    <3>2. PICK j \in 1..Size(d) : members[d][j] = m
      BY <1>1, <2>4, <3>1, PlaceOf
    <3> QED BY <2>3, <2>6, <3>2
  <2> HIDE DEF n
  <2> QED BY <1>3, <2>2, <2>5, <2>6
<1>5. \A n \in Providers : \A r \in DOMAIN ringKeys[n] : ringKeys[n][r] \subseteq keys[n]
  <2> SUFFICES ASSUME NEW n \in Providers, NEW r \in DOMAIN ringKeys[n] PROVE ringKeys[n][r] \subseteq keys[n]
    OBVIOUS
  <2> DEFINE ids == RingIds(keys, n)
  <2>1. ringKeys[n] = RingParamKeys(keys[n], ids)
    BY <1>3
  <2> HIDE DEF ids
  <2> QED BY <2>1 DEF RingParamKeys
<1>6. ASSUME NEW k \in Keys
      PROVE  \E r \in 0..(Params - 1) : \A n \in Providers : k \in keys[n] =>
               {q \in DOMAIN ringKeys[n] : k \in ringKeys[n][q]} = {r}
  <2>1. Ring(k) \in 0..(k - 1) /\ k \in 1..Params /\ Params \in Nat
    BY <1>1, RingIs, ParamsType DEF Keys
  <2>2. Ring(k) \in 0..(Params - 1)
    BY <2>1
  <2>3. ASSUME NEW n \in Providers, k \in keys[n]
        PROVE  {q \in DOMAIN ringKeys[n] : k \in ringKeys[n][q]} = {Ring(k)}
    <3>1. Ring(k) \in DOMAIN ringKeys[n] /\ \A q \in DOMAIN ringKeys[n] : k \in ringKeys[n][q] <=> Ring(k) = q
      BY <1>1, <2>3, RingSlices
    <3> QED BY <3>1
  <2> QED BY <2>2, <2>3
<1>7. ASSUME NEW n \in Providers, NEW k \in keys[n]
      PROVE  /\ address[n][k] \in Providers
             /\ NodeRank(address[n][k]) = RankAfter(NodeRank(n))
             /\ k \in keys[address[n][k]]
  <2> DEFINE a == address[n][k]
             c == ClusterOf(n)
  <2>1. a \in Providers /\ a \in Range(members[NextCluster(c)]) /\ k \in keys[a]
    BY <1>1, AddressIsHolder
  <2>2. c \in DOMAIN members /\ c \in 1..RingSize /\ NodeRank(n) = c - 1
    BY <1>2, <1>3
  <2> HIDE DEF a, c
  <2>3. ClusterOf(a) = NextCluster(c)
    BY <1>1, <2>1, <2>2, NextClusterType, InRange
  <2>4. NodeRank(a) = NextCluster(c) - 1
    BY <2>3 DEF NodeRank
  <2>5. NodeRank(a) = RankAfter(NodeRank(n))
    BY <1>2, <2>2, <2>4 DEF NextCluster, RankAfter
  <2> QED BY <2>1, <2>5 DEF a
<1> QED BY <1>2, <1>3, <1>4, <1>5, <1>6, <1>7 DEF Rings

(* The averaging leaves what has been formed alone. *)
LEMMA FormationGoesOn == [AveragingNext]_averagingVars => [FormationNext]_formationVars
BY DEF AveragingNext, Average, BeginRound, CanBegin, ThreadNext, Send, CanSend, Receive, CanReceive, StartProviders, FormationNext, averagingVars

-----------------------------------------------------------------------------
(* Providers in a round wait only for one that has not begun it. *)

(* A thread that is in a phase lacks some of its parameters.               *)
LeftInv ==
  stage = "formed" => \A t \in Threads : phase[t] \in Phases => got[t] < Cardinality(KeysOf(t))

LEMMA RingsHaveKeys ==
  ASSUME FormationInv, stage = "formed", NEW n \in Providers, NEW r \in DOMAIN ringKeys[n]
  PROVE  ringKeys[n][r] # {} /\ Cardinality(ringKeys[n][r]) \in Nat \ {0}
<1>1. Formed
  BY DEF FormationInv
<1> DEFINE ids == RingIds(keys, n)
<1>2. ringKeys[n] = RingParamKeys(keys[n], ids)
  BY <1>1 DEF Formed, FormedFrom
<1>3. \A q \in DOMAIN ids : ids[q] \in keys[n] /\ Ring(ids[q]) = q
  BY <1>1, RingIdsAre
<1> HIDE DEF ids
<1>4. r \in DOMAIN ids
  BY <1>2 DEF RingParamKeys
<1>5. ids[r] \in ringKeys[n][r]
  BY <1>1, <1>3, <1>4, RingSlices
<1>6. ringKeys[n][r] \subseteq keys[n]
  BY <1>2, <1>4 DEF RingParamKeys
<1>7. keys[n] \subseteq Keys
  BY <1>1, KeysType
<1>8. IsFiniteSet(Keys)
  BY ParamsType, FS_Interval DEF Keys
<1>9. IsFiniteSet(ringKeys[n][r])
  BY <1>6, <1>7, <1>8, FS_Subset
<1> QED BY <1>5, <1>9, FS_CardinalityType, FS_EmptySet

LEMMA ThreadsHaveKeys ==
  ASSUME FormationInv, RingInv, stage = "formed", NEW t \in Threads
  PROVE  Cardinality(KeysOf(t)) \in Nat \ {0}
<1>1. t[1] \in Providers /\ t[2] \in DOMAIN ringKeys[t[1]]
  BY DEF RingInv, RingTypes
<1> QED BY <1>1, RingsHaveKeys DEF KeysOf

LEMMA LeftInitial == AveragingInit => LeftInv
BY DEF AveragingInit, FormationInit, RingInit, LeftInv

LEMMA LeftStep ==
  ASSUME FormationInv, RingInv, LeftInv, [AveragingNext]_averagingVars
  PROVE  LeftInv'
<1>1. ASSUME UNCHANGED ringVars, UNCHANGED formationVars
      PROVE  LeftInv'
  <2>1. \A t : KeysOf(t)' = KeysOf(t)
    BY <1>1 DEF KeysOf, formationVars
  <2> QED BY <1>1, <2>1 DEF LeftInv, ringVars, formationVars, Threads
<1>2. ASSUME (Evaluate \/ Form) /\ UNCHANGED ringVars
      PROVE  LeftInv'
  <2>1. stage' \in {"search", "cut", "failed"}
    <3>1. CASE Evaluate
      BY <3>1 DEF Evaluate
    <3>2. CASE Form
      BY <3>2, Zenon DEF Form
    <3> QED BY <1>2, <3>1, <3>2
  <2> QED BY <2>1 DEF LeftInv
<1>3. ASSUME StartProviders
      PROVE  LeftInv'
  <2>1. round' = round /\ \A t \in Threads' : phase'[t] = "done"
    BY <1>3 DEF StartProviders, Threads
  <2> QED BY <2>1 DEF LeftInv, Phases
<1>4. ASSUME stage = "formed", NEW n \in Providers, BeginRound(n)
      PROVE  LeftInv'
  <2>1. /\ RingSize > 1
        /\ phase' = [t \in Threads |-> IF t[1] = n THEN "reduce" ELSE phase[t]]
        /\ got' = got /\ UNCHANGED formationVars
        /\ \A t \in Threads : t[1] = n => phase[t] = "done"
    BY <1>4 DEF BeginRound, CanBegin, Finished
  <2>2. Threads' = Threads /\ \A t : KeysOf(t)' = KeysOf(t)
    BY <2>1 DEF Threads, KeysOf, formationVars
  <2>4. ASSUME NEW t \in Threads, phase'[t] \in Phases
        PROVE  got[t] < Cardinality(KeysOf(t))
    <3>1. CASE t[1] = n
      <4>1. ThreadInv(t)
        BY <1>4, <2>1 DEF RingInv
      <4>2. got[t] = 0
        BY <2>1, <3>1, <4>1 DEF ThreadInv
      <4> QED BY <1>4, <4>2, ThreadsHaveKeys
    <3>2. CASE t[1] # n
      BY <1>4, <2>1, <2>4, <3>2 DEF LeftInv
    <3> QED BY <3>1, <3>2
  <2> QED BY <2>1, <2>2, <2>4 DEF LeftInv
<1>5. ASSUME stage = "formed", NEW t \in Threads, NEW d \in Providers, Send(t, d)
      PROVE  LeftInv'
  <2>1. phase' = phase /\ got' = got /\ round' = round /\ UNCHANGED formationVars
    BY <1>5 DEF Send
  <2>2. Threads' = Threads /\ \A u : KeysOf(u)' = KeysOf(u)
    BY <2>1 DEF Threads, KeysOf, formationVars
  <2> QED BY <1>5, <2>1, <2>2 DEF LeftInv
<1>6. ASSUME stage = "formed", NEW t \in Threads, Receive(t)
      PROVE  LeftInv'
  <2>1. phase[t] \in Phases /\ round' = round /\ UNCHANGED formationVars
    BY <1>6 DEF Receive, CanReceive
  <2> DEFINE count == got[t] + Cardinality(DOMAIN Head(buffer[phase[t]][t]))
  <2>2. /\ count >= Cardinality(ringKeys[t[1]][t[2]]) =>
             got' = [got EXCEPT ![t] = 0] /\ \E f : phase' = [phase EXCEPT ![t] = f]
        /\ ~(count >= Cardinality(ringKeys[t[1]][t[2]])) =>
             got' = [got EXCEPT ![t] = count] /\ phase' = phase
    BY <1>6 DEF Receive
  <2>0. count \in Nat
    <3>1. buffer[phase[t]][t] \in Seq(Messages) /\ buffer[phase[t]][t] # <<>> /\ got[t] \in Nat
      <4>1. buffer \in [Phases -> [Threads -> Seq(Messages)]] /\ got \in [Threads -> Nat]
        BY <1>6 DEF RingInv, RingTypes
      <4>2. buffer[phase[t]][t] # <<>>
        BY <1>6 DEF Receive, CanReceive
      <4> QED BY <2>1, <4>1, <4>2
    <3> DEFINE m == Head(buffer[phase[t]][t])
    <3>2. m \in Messages
      BY <3>1, TailOf
    <3> HIDE DEF m
    <3>3. DOMAIN m \subseteq Keys
      BY <3>2 DEF Messages
    <3>4. Cardinality(DOMAIN m) \in Nat
      <4>1. IsFiniteSet(Keys)
        BY ParamsType, FS_Interval DEF Keys
      <4> QED BY <3>3, <4>1, FS_Subset, FS_CardinalityType
    <3> QED BY <3>1, <3>4 DEF m
  <2> HIDE DEF count
  <2>3. /\ got \in [Threads -> Nat] /\ phase \in [Threads -> {"reduce", "gather", "done"}]
    BY <1>6 DEF RingInv, RingTypes
  <2>4. Threads' = Threads /\ \A u : KeysOf(u)' = KeysOf(u)
    BY <2>1, <2>2, <2>3 DEF Threads, KeysOf, formationVars
  <2>5. \A u \in Threads : phase[u] \in Phases => got[u] < Cardinality(KeysOf(u))
    BY <1>6 DEF LeftInv
  <2>6. ASSUME NEW u \in Threads, phase'[u] \in Phases
        PROVE  got'[u] < Cardinality(KeysOf(u))
    <3>1. CASE u # t
      BY <2>2, <2>3, <2>5, <2>6, <3>1
    <3>2. CASE u = t /\ count >= Cardinality(ringKeys[t[1]][t[2]])
      <4>1. got'[u] = 0
        BY <2>2, <2>3, <3>2
      <4> QED BY <1>6, <4>1, ThreadsHaveKeys
    <3>3. CASE u = t /\ ~(count >= Cardinality(ringKeys[t[1]][t[2]]))
      <4>1. got'[u] = count
        BY <2>2, <2>3, <3>3
      <4>2. Cardinality(KeysOf(t)) \in Nat
        BY <1>6, ThreadsHaveKeys
      <4> QED BY <2>0, <3>3, <4>1, <4>2 DEF KeysOf
    <3> QED BY <3>1, <3>2, <3>3
  <2> QED BY <2>1, <2>4, <2>6 DEF LeftInv
<1> QED BY <1>1, <1>2, <1>3, <1>4, <1>5, <1>6 DEF AveragingNext, Average, ThreadNext, averagingVars

(* How far a thread is, as one number.  The one that is least far either   *)
(* can go on or waits for one that is no further and can.                  *)
Progress(t) == Half(t) * RingSize + Step(t)

LEMMA ProgressOrder ==
  ASSUME Averaging
  PROVE  /\ \A t \in Threads : Progress(t) \in Int /\ (round[t[1]] > 0 \/ phase[t] = "done" => Progress(t) \in Nat)
         /\ \A t, u \in Threads : Half(t) < Half(u) => Progress(t) < Progress(u)
         /\ \A t, u \in Threads : Half(t) = Half(u) => (Progress(t) <= Progress(u) <=> Step(t) <= Step(u))
<1>1. /\ RingSize \in Int /\ RingSize > 1
      /\ \A t \in Threads : Placed(t) /\ ThreadInv(t)
  BY InAveraging
<1>2. ASSUME NEW t \in Threads
      PROVE  /\ Half(t) \in Int /\ Step(t) \in Int /\ 0 <= Step(t) /\ Step(t) < RingSize
             /\ (round[t[1]] > 0 \/ phase[t] = "done" => Half(t) >= 0)
  <2>1. Half(t) \in Int /\ Step(t) \in Int /\ 0 <= Step(t)
    BY <1>1 DEF Placed
  <2>2. CASE phase[t] \in Phases
    <3>1. Step(t) = iteration[phase[t]][t] /\ iteration[phase[t]][t] < RingSize - 1
      BY <1>1, <2>2 DEF Placed, ThreadInv
    <3>2. round[t[1]] > 0 => Half(t) >= 0
      BY <1>1, <2>2 DEF Placed, Phases
    <3> QED BY <1>1, <2>1, <2>2, <3>1, <3>2 DEF Phases
  <2>3. CASE phase[t] \notin Phases
    <3>1. phase[t] = "done" /\ Half(t) = 2 * round[t[1]] /\ Step(t) = 0 /\ round[t[1]] \in Int /\ round[t[1]] >= 0
      BY <1>1, <2>3 DEF Placed, Phases
    <3> QED BY <1>1, <2>1, <3>1
  <2> QED BY <2>2, <2>3
<1> DEFINE h(t) == Half(t)
           p(t) == Half(t) * RingSize
<1>3. \A t \in Threads : p(t) \in Int /\ Progress(t) = p(t) + Step(t)
  BY <1>1, <1>2 DEF Progress
<1>4. \A t \in Threads : Half(t) >= 0 => p(t) >= 0
  BY <1>1, <1>2
<1>5. ASSUME NEW t \in Threads, NEW u \in Threads, Half(t) < Half(u)
      PROVE  p(t) + RingSize <= p(u)
  <2>1. Half(t) + 1 <= Half(u) /\ Half(t) \in Int /\ Half(u) \in Int
    BY <1>2, <1>5
  <2>2. RingSize * (Half(t) + 1) <= RingSize * Half(u)
    BY <1>1, <2>1, Monotone
  <2>3. RingSize * (Half(t) + 1) = RingSize * Half(t) + RingSize * 1
    BY <1>1, <2>1, Distribute
  <2>4. p(t) = RingSize * Half(t) /\ p(u) = RingSize * Half(u) /\ RingSize * 1 = RingSize
    BY <1>1, <2>1
  <2> QED BY <2>2, <2>3, <2>4
<1>6. \A t, u \in Threads : Half(t) = Half(u) => p(t) = p(u)
  OBVIOUS
<1> HIDE DEF p
<1>7. \A t \in Threads : Progress(t) \in Int /\ (round[t[1]] > 0 \/ phase[t] = "done" => Progress(t) \in Nat)
  BY <1>2, <1>3, <1>4
<1>8. \A t, u \in Threads : Half(t) < Half(u) => Progress(t) < Progress(u)
  BY <1>1, <1>2, <1>3, <1>5
<1>9. \A t, u \in Threads : Half(t) = Half(u) => (Progress(t) <= Progress(u) <=> Step(t) <= Step(u))
  BY <1>2, <1>3, <1>6
<1> QED BY <1>7, <1>8, <1>9

(* Two threads that are equally far are in the same iteration.             *)
LEMMA SameIteration ==
  ASSUME Averaging, NEW t \in Threads, NEW u \in Threads, phase[t] \in Phases, phase[u] \in Phases,
         Half(t) = Half(u), Step(t) = Step(u)
  PROVE  phase[t] = phase[u] /\ iteration[phase[t]][u] = iteration[phase[t]][t]
<1>1. Placed(t) /\ Placed(u)
  BY InAveraging
<1>2. phase[t] = phase[u]
  <2>1. CASE phase[t] = "reduce" /\ phase[u] = "gather"
    <3>1. 2 * round[t[1]] - 2 = 2 * round[u[1]] - 1 /\ round[t[1]] \in Int /\ round[u[1]] \in Int
      BY <1>1, <2>1 DEF Placed
    <3> QED BY <3>1
  <2>2. CASE phase[t] = "gather" /\ phase[u] = "reduce"
    <3>1. 2 * round[t[1]] - 1 = 2 * round[u[1]] - 2 /\ round[t[1]] \in Int /\ round[u[1]] \in Int
      BY <1>1, <2>2 DEF Placed
    <3> QED BY <3>1
  <2> QED BY <2>1, <2>2 DEF Phases
<1> QED BY <1>1, <1>2 DEF Placed

LEMMA SomeoneGoesOn ==
  ASSUME Averaging, LeftInv, NEW t0 \in Threads, phase[t0] \in Phases,
         \A n, m \in Providers : ~(Finished(n) /\ ~Finished(m) /\ round[n] < round[m])
  PROVE  \E t \in Threads : CanReceive(t) \/ \E d \in Providers : CanSend(t, d)
<1>1. /\ stage = "formed" /\ RingSize \in Int /\ RingSize > 1 /\ RingSize \in Nat \ {0}
      /\ Rings /\ ThreadSet /\ RingTypes
      /\ \A v \in Threads : /\ Placed(v) /\ ThreadInv(v) /\ RankOf(v) \in Positions
                            /\ v[1] \in Providers /\ KeysOf(v) \subseteq Keys
      /\ \A p, v \in Threads : \A k \in Keys : Edge(p, v, k) => NotOvertaken(p, v) /\ Follows(p, v)
  BY InAveraging
<1>2. /\ \A t \in Threads : Progress(t) \in Int /\ (round[t[1]] > 0 \/ phase[t] = "done" => Progress(t) \in Nat)
      /\ \A t, u \in Threads : Half(t) < Half(u) => Progress(t) < Progress(u)
      /\ \A t, u \in Threads : Half(t) = Half(u) => (Progress(t) <= Progress(u) <=> Step(t) <= Step(u))
  BY ProgressOrder
<1> HIDE DEF Progress
<1> DEFINE W == {v \in Threads : phase[v] \in Phases}
<1>3. PICK t \in W : \A u \in W : Progress(t) <= Progress(u)
  <2> DEFINE S == {Progress(v) : v \in W}
  <2>1. \A v \in W : Progress(v) \in Nat
    BY <1>1, <1>2 DEF ThreadInv
  <2>2. S \subseteq Nat /\ S # {}
    BY <2>1
  <2>3. PICK s \in S : \A r \in S : s <= r
    <3> HIDE DEF S
    <3> QED BY <2>2, Least
  <2> QED BY <2>3
<1>4. t \in Threads /\ phase[t] \in Phases /\ t = <<t[1], t[2]>> /\ t[1] \in Providers
  BY <1>1, <1>3, HoldersHaveThreads
(* Who is done has a thread that is not, or has begun as many rounds. *)
<1>5. ASSUME NEW p \in Threads, phase[p] \notin Phases
      PROVE  Progress(t) < Progress(p)
  <2> DEFINE n == p[1]
  <2>1. n \in Providers /\ Half(p) = 2 * round[n] /\ round[n] \in Int
    BY <1>1, <1>5 DEF Placed, Phases
  <2>2. CASE Finished(n)
    <3>0. ~Finished(t[1])
      BY <1>4 DEF Finished, Phases
    <3>1. ~(round[n] < round[t[1]]) /\ round[t[1]] \in Int
      BY <1>1, <1>4, <2>1, <2>2, <3>0 DEF Placed
    <3>2. Half(t) <= 2 * round[t[1]] - 1 /\ Half(t) \in Int
      BY <1>1, <1>4, <3>1 DEF Placed, Phases
    <3>3. Half(t) < Half(p)
      BY <2>1, <3>1, <3>2
    <3> QED BY <1>2, <1>4, <3>3
  <2>3. CASE ~Finished(n)
    <3>1. PICK u \in Threads : u[1] = n /\ phase[u] # "done"
      BY <2>3 DEF Finished
    <3>2. phase[u] \in Phases
      BY <1>1, <3>1 DEF Placed, Phases
    <3>3. Half(u) <= 2 * round[n] - 1 /\ Half(u) \in Int
      BY <1>1, <2>1, <3>1, <3>2 DEF Placed, Phases
    <3>4. Progress(u) < Progress(p)
      BY <1>2, <2>1, <3>3
    <3>5. Progress(t) <= Progress(u)
      BY <1>3, <3>2
    <3> QED BY <1>2, <1>4, <3>4, <3>5
  <2> QED BY <2>2, <2>3
(* Who is not ahead of t is where t is. *)
<1>6. ASSUME NEW u \in Threads, Half(u) < Half(t) \/ (Half(u) = Half(t) /\ Step(u) <= Step(t))
      PROVE  /\ phase[u] \in Phases /\ Half(u) = Half(t) /\ Step(u) = Step(t)
             /\ phase[u] = phase[t] /\ iteration[phase[t]][u] = iteration[phase[t]][t]
  <2>1. Progress(u) <= Progress(t)
    BY <1>2, <1>4, <1>6
  <2>2. phase[u] \in Phases
    BY <1>2, <1>4, <1>5, <2>1
  <2>3. Progress(t) <= Progress(u)
    BY <1>3, <2>2
  <2>4. ~(Half(u) < Half(t))
    BY <1>2, <1>4, <2>1, <2>3
  <2>5. Half(u) = Half(t) /\ Step(u) <= Step(t) /\ Step(t) <= Step(u)
    BY <1>2, <1>4, <1>6, <2>3, <2>4
  <2>6. Step(u) = Step(t)
    BY <1>1, <1>4, <2>5 DEF Placed
  <2> QED BY <1>4, <2>2, <2>5, <2>6, SameIteration
<1>7. CASE sent[t] # Dests(t)
  <2>1. PICK d \in Dests(t) : d \notin sent[t]
    BY <1>1, <1>4, <1>7 DEF ThreadInv
  <2>2. PICK k \in KeysOf(t) : d = address[t[1]][k]
    BY DEF Dests, KeysOf
  <2> DEFINE u == <<d, t[2]>>
  <2>3. Edge(t, u, k) /\ u[1] = d
    BY <1>1, <1>4, <2>2, EdgeFacts
  <2> HIDE DEF u
  <2>4. u \in Threads /\ k \in Keys
    BY <1>1, <1>4, <2>3 DEF Edge
  <2>5. Follows(t, u)
    BY <1>1, <1>4, <2>3, <2>4
  <2>6. Half(u) < Half(t) \/ (Half(u) = Half(t) /\ Step(u) <= Step(t))
    BY <2>1, <2>3, <2>5 DEF Follows
  <2>7. iteration[phase[t]][u] = iteration[phase[t]][t]
    BY <1>6, <2>4, <2>6
  <2>8. d \in Providers
    BY <1>1, <2>3, <2>4
  <2>9. CanSend(t, d)
    BY <1>4, <2>1, <2>7 DEF CanSend, MaySend, u
  <2> QED BY <1>4, <2>8, <2>9
<1>8. CASE sent[t] = Dests(t) /\ buffer[phase[t]][t] # <<>>
  BY <1>4, <1>8 DEF CanReceive
<1>9. CASE sent[t] = Dests(t) /\ buffer[phase[t]][t] = <<>>
  <2>1. Received(t) # KeysOf(t)
    <3>1. got[t] = Cardinality(Received(t))
      BY <1>4 DEF Averaging, GotInv
    <3>2. got[t] < Cardinality(KeysOf(t)) /\ got[t] \in Nat
      BY <1>1, <1>4 DEF LeftInv, RingTypes
    <3> QED BY <3>1, <3>2
  <2>2. \A k : ~InBuffer(phase[t], t, k)
    BY <1>9 DEF InBuffer
  <2>3. PICK k \in KeysOf(t) : \A p \in Threads : Edge(p, t, k) => ~Sent(p, t, phase[t])
    BY <2>1, <2>2 DEF Received
  <2>4. PICK p \in Threads : Edge(p, t, k)
    BY <1>1, <1>4, EdgeFacts
  <2>5. ~Sent(p, t, phase[t])
    BY <2>3, <2>4
  <2>6. /\ NextHalf(phase[t], t) = Half(t) /\ iteration[phase[t]][t] = Step(t)
        /\ Half(p) \in Int /\ Half(t) \in Int /\ Step(p) \in Int /\ Step(t) \in Int
    BY <1>1, <1>4 DEF NextHalf, Placed
  <2>7. Half(p) < Half(t) \/ (Half(p) = Half(t) /\ Step(p) <= Step(t))
    BY <2>5, <2>6 DEF Sent
  <2>8. /\ phase[p] \in Phases /\ Half(p) = Half(t) /\ Step(p) = Step(t)
        /\ phase[p] = phase[t] /\ iteration[phase[t]][p] = iteration[phase[t]][t]
    BY <1>6, <2>7
  <2>9. t[1] \notin sent[p]
    BY <2>5, <2>6, <2>8 DEF Sent
  <2>10. t[1] \in Dests(p) /\ t = <<t[1], p[2]>>
    BY <1>4, <2>4 DEF Edge, Dests, KeysOf
  <2>11. CanSend(p, t[1])
    BY <2>8, <2>9, <2>10 DEF CanSend, MaySend
  <2> QED BY <1>4, <2>11
<1> QED BY <1>7, <1>8, <1>9

LEMMA WaitsAreForRounds == FormationInv /\ RingInv /\ LeftInv => OnlyLateRoundsAreWaitedFor
<1> SUFFICES ASSUME FormationInv, RingInv, LeftInv, stage = "formed",
                    NEW t \in Threads, phase[t] \in Phases,
                    \A n, m \in Providers : ~(Finished(n) /\ ~Finished(m) /\ round[n] < round[m])
             PROVE  \E u \in Threads : CanReceive(u) \/ \E d \in Providers : CanSend(u, d)
  BY DEF OnlyLateRoundsAreWaitedFor, CanGoOn
<1>1. RingSize > 1
  BY FormationMakesRings DEF RingInv, Phases, FormedRings, Rings
<1>2. Averaging
  BY <1>1, FormationMakesRings DEF RingInv, FormedRings, Averaging
<1> QED BY <1>2, SomeoneGoesOn

-----------------------------------------------------------------------------
(* The theorems. *)

LEMMA AveragingInvStep ==
  FormationInv /\ RingInv /\ LeftInv /\ [AveragingNext]_averagingVars => FormationInv' /\ RingInv' /\ LeftInv'
<1>1. FormationInv /\ [AveragingNext]_averagingVars => FormationInv'
  BY FormationGoesOn, FormationInvStep
<1>2. FormationInv' => FormedRings'
  BY FormationMakesRings, PTL
<1> QED BY <1>1, <1>2, FormationMakesRings, RingStep, LeftStep

(* The inductive invariant: what has been formed, how far the threads of a *)
(* ring are apart and what their buffers and chunks hold, and that a       *)
(* thread in a phase still lacks something.                                *)
THEOREM AveragingInvariant == AveragingSpec => [](FormationInv /\ RingInv /\ LeftInv)
<1>1. AveragingInit => FormationInv /\ RingInv /\ LeftInv
  BY InitiallyNoClusters, RingInitial, LeftInitial DEF AveragingInit
<1> QED BY <1>1, AveragingInvStep, PTL DEF AveragingSpec

(* The clusters, submodels and addresses of the formation are of their     *)
(* types.                                                                  *)
THEOREM FormationTypes == AveragingSpec => []FormationTypeOK
<1>1. FormationInv => FormationTypeOK
  BY FormationTyped
<1> QED BY <1>1, AveragingInvariant, PTL

(* round_percentages and calculate_split_percentages lose no part of the   *)
(* model, for clusters of any size and memories.                           *)
THEOREM QuotasAddUp == AveragingSpec => []QuotasCoverTheModel
<1>1. FormationInv => QuotasCoverTheModel
  BY FormationQuotas
<1> QED BY <1>1, AveragingInvariant, PTL

(* Every cluster holds each parameter once, averages it in the same ring   *)
(* as the others, and sends it to its holder in the next cluster.          *)
THEOREM RingsMatch == AveragingSpec => []RingsAgree
<1>1. FormationInv => RingsAgree
  BY FormedRingsAgree
<1> QED BY <1>1, AveragingInvariant, PTL

(* parallel_ring_reduce leaves the sum of all clusters in every chunk,     *)
(* each counted once and from this round, although nothing but the poll of *)
(* the iteration keeps providers and rounds apart.                         *)
THEOREM RoundsAreExact == AveragingSpec => []AveragesAreExact
<1>1. FormationInv /\ RingInv => AveragesAreExact
  BY FormationMakesRings, InvariantIsExact
<1> QED BY <1>1, AveragingInvariant, PTL

(* The polls and the waits for messages never close a circle: when no     *)
(* thread can go on, a round that a provider has not begun is waited for.  *)
THEOREM OnlyALateRoundIsWaitedFor == AveragingSpec => []OnlyLateRoundsAreWaitedFor
<1>1. FormationInv /\ RingInv /\ LeftInv => OnlyLateRoundsAreWaitedFor
  BY WaitsAreForRounds
<1> QED BY <1>1, AveragingInvariant, PTL

================================================================================
