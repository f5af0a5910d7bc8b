---------------------------- MODULE KVCache_proofs ----------------------------
(***************************************************************************)
(* Proofs about KVCache, for every batch, length and size of a block: no   *)
(* block has two owners, none leaks, and the allocator never runs short.   *)
(*                                                                         *)
(* The rows of a request lie one after the other (Offsets,                 *)
(* RowsDoNotOverlap).  A row that wants a block stands for an entry of the *)
(* table without one, and there are as many of these as free blocks        *)
(* (DecodeHasRoom); ranks match the wanting rows with the free blocks one  *)
(* to one (NewBlocks).                                                     *)
(***************************************************************************)
EXTENDS KVCache, FiniteSetTheorems, TLAPS

(* Division by the size of a block: the step from n to n + 1, order, and   *)
(* one block more.                                                         *)
LEMMA Division ==
  /\ \A n \in Nat : n \div BlockSize \in Nat /\ n % BlockSize \in 0..(BlockSize - 1)
  /\ \A n \in Nat : /\ (n + 1) % BlockSize =
                         IF n % BlockSize = BlockSize - 1 THEN 0 ELSE (n % BlockSize) + 1
                    /\ (n + 1) \div BlockSize =
                         IF n % BlockSize = BlockSize - 1 THEN n \div BlockSize + 1
                                                          ELSE n \div BlockSize
  /\ \A n, m \in Nat : n <= m => n \div BlockSize <= m \div BlockSize
  /\ \A n \in Nat : (n + BlockSize) \div BlockSize = n \div BlockSize + 1
<1>1. \A n \in Nat : n \div BlockSize \in Nat /\ n % BlockSize \in 0..(BlockSize - 1)
  BY SizesAssumption
<1>2. \A n \in Nat : /\ (n + 1) % BlockSize =
                         IF n % BlockSize = BlockSize - 1 THEN 0 ELSE (n % BlockSize) + 1
                    /\ (n + 1) \div BlockSize =
                         IF n % BlockSize = BlockSize - 1 THEN n \div BlockSize + 1
                                                          ELSE n \div BlockSize
  BY SizesAssumption
<1>3. \A n, m \in Nat : n <= m => n \div BlockSize <= m \div BlockSize
  BY SizesAssumption
<1>4. \A n \in Nat : (n + BlockSize) \div BlockSize = n \div BlockSize + 1
  BY SizesAssumption
<1> QED BY <1>1, <1>2, <1>3, <1>4

(* A sequence of n tokens has a block more than the blocks before its last *)
(* token's.                                                                *)
LEMMA BlocksForTokens ==
  ASSUME NEW n \in Nat, n > 0
  PROVE  /\ n - 1 \in Nat
         /\ BlocksFor(n) = (n - 1) \div BlockSize + 1
         /\ BlocksFor(n) \in Nat /\ BlocksFor(n) > 0
<1>1. n - 1 \in Nat
  OBVIOUS
<1>2. n + BlockSize - 1 = (n - 1) + BlockSize
  BY SizesAssumption
<1>3. ((n - 1) + BlockSize) \div BlockSize = (n - 1) \div BlockSize + 1
  BY <1>1, Division
<1>4. (n - 1) \div BlockSize \in Nat
  BY <1>1, Division
<1>5. BlocksFor(n) = (n - 1) \div BlockSize + 1
  BY <1>2, <1>3 DEF BlocksFor
<1> QED BY <1>1, <1>4, <1>5

LEMMA BlocksForOrder ==
  ASSUME NEW n \in Nat, NEW m \in Nat, 0 < n, n <= m
  PROVE  BlocksFor(n) <= BlocksFor(m)
<1>1. n - 1 \in Nat /\ m - 1 \in Nat /\ n - 1 <= m - 1 /\ m > 0 /\ n > 0
  OBVIOUS
<1>2. BlocksFor(n) = (n - 1) \div BlockSize + 1 /\ BlocksFor(m) = (m - 1) \div BlockSize + 1
  BY <1>1, BlocksForTokens
<1>3. (n - 1) \div BlockSize <= (m - 1) \div BlockSize
  BY <1>1, Division
<1>4. (n - 1) \div BlockSize \in Nat /\ (m - 1) \div BlockSize \in Nat
  BY <1>1, Division
<1> QED BY <1>2, <1>3, <1>4

(* The table has as many entries as there are blocks. *)
LEMMA Places ==
  /\ BlocksFor(MaxSeq) \in Nat \ {0}
  /\ NumBlocks \in Nat \ {0}
  /\ IsFiniteSet(Rows) /\ IsFiniteSet(Cols)
  /\ IsFiniteSet(Rows \X Cols) /\ Cardinality(Rows \X Cols) = NumBlocks
  /\ IsFiniteSet(Blocks) /\ Cardinality(Blocks) = NumBlocks
<1>1. BlocksFor(MaxSeq) \in Nat /\ BlocksFor(MaxSeq) > 0
  BY SizesAssumption, BlocksForTokens
<1> DEFINE W == BlocksFor(MaxSeq)
<1>2. W \in Nat /\ W > 0
  BY <1>1
<1> HIDE DEF W
<1>3. W * MaxBatch \in Nat /\ W * MaxBatch > 0 /\ W * MaxBatch = MaxBatch * W
  BY <1>2, SizesAssumption
<1>4. NumBlocks = W * MaxBatch /\ Cols = 0..(W - 1)
  BY DEF NumBlocks, Cols, W
<1>5. IsFiniteSet(Rows) /\ Cardinality(Rows) = MaxBatch
  <2>1. 0 \in Int /\ MaxBatch - 1 \in Int /\ ~(0 > MaxBatch - 1) /\ MaxBatch - 1 - 0 + 1 = MaxBatch
    BY SizesAssumption
  <2> QED BY <2>1, FS_Interval DEF Rows
<1>6. IsFiniteSet(Cols) /\ Cardinality(Cols) = W
  <2>1. 0 \in Int /\ W - 1 \in Int /\ ~(0 > W - 1) /\ W - 1 - 0 + 1 = W
    BY <1>2
  <2> QED BY <2>1, <1>4, FS_Interval
<1>7. IsFiniteSet(Rows \X Cols) /\ Cardinality(Rows \X Cols) = MaxBatch * W
  BY <1>5, <1>6, FS_Product
<1>8. IsFiniteSet(Blocks) /\ Cardinality(Blocks) = NumBlocks
  <2>1. NumBlocks \in Nat /\ NumBlocks > 0
    BY <1>3, <1>4
  <2>2. 0 \in Int /\ NumBlocks - 1 \in Int /\ ~(0 > NumBlocks - 1) /\ NumBlocks - 1 - 0 + 1 = NumBlocks
    BY <2>1
  <2> QED BY <2>2, FS_Interval DEF Blocks
<1> QED BY <1>1, <1>3, <1>4, <1>5, <1>6, <1>7, <1>8

-----------------------------------------------------------------------------
(* Rank numbers the elements of a finite set of integers in their order.   *)
LEMMA RankOrders ==
  ASSUME NEW S \in SUBSET Int, IsFiniteSet(S)
  PROVE  /\ \A x \in S : Rank(x, S) \in 0..(Cardinality(S) - 1)
         /\ \A x, y \in S : x < y => Rank(x, S) < Rank(y, S)
<1> DEFINE Below(x) == {y \in S : y < x}
<1>1. ASSUME NEW x \in S
      PROVE  /\ IsFiniteSet(Below(x)) /\ Cardinality(Below(x)) \in Nat
             /\ Cardinality(Below(x) \union {x}) = Cardinality(Below(x)) + 1
             /\ Below(x) \union {x} \in SUBSET S
  <2>1. Below(x) \in SUBSET S /\ x \notin Below(x)
    OBVIOUS
  <2>2. IsFiniteSet(Below(x))
    BY <2>1, FS_Subset
  <2> QED BY <2>1, <2>2, FS_AddElement, FS_CardinalityType
<1>2. Cardinality(S) \in Nat
  BY FS_CardinalityType
<1>3. ASSUME NEW x \in S
      PROVE  Rank(x, S) \in 0..(Cardinality(S) - 1)
  <2>1. Cardinality(Below(x) \union {x}) <= Cardinality(S)
    BY <1>1, FS_Subset
  <2>2. Cardinality(Below(x)) + 1 <= Cardinality(S) /\ Cardinality(Below(x)) \in Nat
    BY <2>1, <1>1
  <2>3. Rank(x, S) = Cardinality(Below(x))
    BY DEF Rank
  <2> QED BY <2>2, <2>3, <1>2
<1>4. ASSUME NEW x \in S, NEW y \in S, x < y
      PROVE  Rank(x, S) < Rank(y, S)
  <2>1. Below(x) \union {x} \in SUBSET Below(y)
    <3>1. ASSUME NEW z \in S, z < x PROVE z < y
      <4>1. z \in Int /\ x \in Int /\ y \in Int
        OBVIOUS
      <4> QED BY <4>1, <3>1, <1>4
    <3> QED BY <3>1, <1>4
  <2>2. Cardinality(Below(x) \union {x}) <= Cardinality(Below(y))
    BY <2>1, <1>1, FS_Subset
  <2>3. Cardinality(Below(x)) + 1 <= Cardinality(Below(y))
        /\ Cardinality(Below(x)) \in Nat /\ Cardinality(Below(y)) \in Nat
    BY <2>2, <1>1
  <2>4. Rank(x, S) = Cardinality(Below(x)) /\ Rank(y, S) = Cardinality(Below(y))
    BY DEF Rank
  <2> QED BY <2>3, <2>4
<1> QED BY <1>3, <1>4

LEMMA RankIsInjective ==
  ASSUME NEW S \in SUBSET Int, IsFiniteSet(S), NEW x \in S, NEW y \in S, x # y
  PROVE  Rank(x, S) # Rank(y, S)
<1>1. x < y \/ y < x
  OBVIOUS
<1>2. Rank(x, S) \in Int /\ Rank(y, S) \in Int
  BY RankOrders
<1>3. CASE x < y
  BY <1>2, <1>3, RankOrders
<1>4. CASE y < x
  BY <1>2, <1>4, RankOrders
<1> QED BY <1>1, <1>3, <1>4

(* Every number below its cardinality is the rank of an element.           *)
LEMMA RankIsSurjective ==
  ASSUME NEW S \in SUBSET Int, IsFiniteSet(S), NEW k \in 0..(Cardinality(S) - 1)
  PROVE  \E x \in S : Rank(x, S) = k
<1> DEFINE T == 0..(Cardinality(S) - 1)
           f == [x \in S |-> Rank(x, S)]
<1>1. Cardinality(S) \in Nat
  BY FS_CardinalityType
<1>2. IsFiniteSet(T) /\ Cardinality(T) = Cardinality(S)
  <2>1. 0 \in Int /\ Cardinality(S) - 1 \in Int
        /\ (IF 0 > Cardinality(S) - 1 THEN 0 ELSE Cardinality(S) - 1 - 0 + 1) = Cardinality(S)
    BY <1>1
  <2> QED BY <2>1, FS_Interval
<1>3. f \in [S -> T]
  BY RankOrders
<1>4. \A x, y \in S : f[x] = f[y] => x = y
  BY RankIsInjective
<1>5. f \in Injection(S, T)
  BY <1>3, <1>4 DEF Injection, IsInjective
<1>6. f \in Surjection(S, T)
  BY <1>2, <1>5, FS_Injection
<1>7. \A t \in T : \E x \in S : f[x] = t
  BY <1>6 DEF Surjection
<1> QED BY <1>7

-----------------------------------------------------------------------------
(* The rows of a request's prompts lie one after the other, without a gap, *)
(* in the first Total blocks, and these are not more than there are.       *)
LengthsOK == \A r \in Used : len[r] > 0 /\ len[r] <= MaxSeq

Filled == {x \in Rows \X Cols : x[2] < Need(x[1])}

LEMMA Needs ==
  ASSUME KVTypeOK, LengthsOK
  PROVE  /\ Used \subseteq Rows
         /\ \A r \in Used : Need(r) \in Nat /\ Need(r) > 0 /\ Need(r) <= BlocksFor(MaxSeq)
         /\ \A r \in Used : Need(r) = (len[r] - 1) \div BlockSize + 1
         /\ \A r : r \notin Used => Need(r) = 0
<1>1. Used \subseteq Rows
  BY SizesAssumption DEF KVTypeOK, Used, Rows
<1>2. ASSUME NEW r \in Used
      PROVE  /\ Need(r) \in Nat /\ Need(r) > 0 /\ Need(r) <= BlocksFor(MaxSeq)
             /\ Need(r) = (len[r] - 1) \div BlockSize + 1
  <2>1. len[r] \in Nat /\ len[r] > 0 /\ len[r] <= MaxSeq /\ MaxSeq \in Nat
    BY <1>1, SizesAssumption DEF LengthsOK, KVTypeOK
  <2>2. Need(r) = BlocksFor(len[r])
    BY DEF Need
  <2>3. 0 < len[r] /\ BlocksFor(len[r]) <= BlocksFor(MaxSeq)
    BY <2>1, BlocksForOrder
  <2> QED BY <2>1, <2>2, <2>3, BlocksForTokens
<1> QED BY <1>1, <1>2 DEF Need

LEMMA Offsets ==
  ASSUME KVTypeOK, LengthsOK
  PROVE  /\ \A r \in Nat : Offset(r) \in Nat /\ Offset(r) <= NumBlocks
         /\ \A r \in Used : Offset(r + 1) = Offset(r) + Need(r)
         /\ \A r, q \in Nat : r <= q => Offset(r) <= Offset(q)
         /\ Total \in Nat /\ Total <= NumBlocks
         /\ IsFiniteSet(Filled) /\ Cardinality(Filled) = Total
<1> DEFINE Before(r) == {x \in Rows \X Cols : x[1] < r /\ x[2] < Need(x[1])}
<1>1. ASSUME NEW r \in Nat
      PROVE  /\ IsFiniteSet(Before(r)) /\ Cardinality(Before(r)) = Offset(r)
             /\ Offset(r) \in Nat /\ Offset(r) <= NumBlocks
  <2>1. Before(r) \in SUBSET (Rows \X Cols)
    OBVIOUS
  <2>2. IsFiniteSet(Before(r)) /\ Cardinality(Before(r)) <= Cardinality(Rows \X Cols)
    BY <2>1, Places, FS_Subset
  <2>3. Cardinality(Before(r)) \in Nat
    BY <2>2, FS_CardinalityType
  <2> QED BY <2>2, <2>3, Places DEF Offset
<1>2. ASSUME NEW r \in Nat, NEW q \in Nat, r <= q
      PROVE  Offset(r) <= Offset(q)
  <2>1. Before(r) \in SUBSET Before(q)
    <3>1. ASSUME NEW x \in Rows \X Cols, x[1] < r PROVE x[1] < q
      <4>1. x[1] \in Int
        BY DEF Rows
      <4> QED BY <4>1, <3>1, <1>2
    <3> QED BY <3>1
  <2>2. Cardinality(Before(r)) <= Cardinality(Before(q))
    BY <2>1, <1>1, FS_Subset
  <2> QED BY <2>2, <1>1
<1>3. ASSUME NEW r \in Used
      PROVE  Offset(r + 1) = Offset(r) + Need(r)
  <2> DEFINE Own == {r} \X (0..(Need(r) - 1))
  <2>1. r \in Nat /\ r + 1 \in Nat /\ r \in Rows
    BY Needs DEF Rows
  <2>2. Need(r) \in Nat /\ Need(r) > 0 /\ Need(r) <= BlocksFor(MaxSeq) /\ BlocksFor(MaxSeq) \in Nat
    BY Needs, Places
  <2>3. IsFiniteSet(Own) /\ Cardinality(Own) = Need(r)
    <3>1. IsFiniteSet({r}) /\ Cardinality({r}) = 1
      BY FS_Singleton
    <3>2. 0 \in Int /\ Need(r) - 1 \in Int /\ ~(0 > Need(r) - 1) /\ Need(r) - 1 - 0 + 1 = Need(r)
      BY <2>2
    <3>3. IsFiniteSet(0..(Need(r) - 1)) /\ Cardinality(0..(Need(r) - 1)) = Need(r)
      BY <3>2, FS_Interval
    <3>4. Cardinality({r}) * Cardinality(0..(Need(r) - 1)) = Need(r)
      BY <3>1, <3>3, <2>2
    <3>5. IsFiniteSet(Own) /\ Cardinality(Own) = Cardinality({r}) * Cardinality(0..(Need(r) - 1))
      BY ONLY <3>1, <3>3, FS_Product
    <3> QED BY <3>4, <3>5
  <2>4. Before(r + 1) = Before(r) \union Own
    <3>1. ASSUME NEW x \in Rows \X Cols
          PROVE  (x[1] < r + 1 /\ x[2] < Need(x[1])) <=> ((x[1] < r /\ x[2] < Need(x[1])) \/ x \in Own)
      <4>1. x[1] \in Int /\ x[2] \in Nat /\ x = <<x[1], x[2]>>
        BY DEF Rows, Cols
      <4>2. x \in Own <=> (x[1] = r /\ x[2] < Need(r))
        BY <4>1, <2>2
      <4>3. x[1] < r + 1 <=> (x[1] < r \/ x[1] = r)
        BY <4>1, <2>1
      <4>4. x[1] = r => ~(x[1] < r)
        BY <4>1, <2>1
      <4> HIDE DEF Own
      <4> QED BY <4>2, <4>3, <4>4
    <3>2. Own \in SUBSET (Rows \X Cols)
      <4>1. 0..(Need(r) - 1) \in SUBSET Cols
        BY <2>2 DEF Cols
      <4> QED BY <4>1, <2>1
    <3> HIDE DEF Own
    <3> QED BY <3>1, <3>2
  <2>5. Before(r) \cap Own = {}
    <3>1. ASSUME NEW x \in Own PROVE ~(x[1] < r)
      BY <2>1
    <3> HIDE DEF Own
    <3> QED BY <3>1
  <2>6. Cardinality(Before(r) \union Own) = Cardinality(Before(r)) + Cardinality(Own) - 0
    <3> HIDE DEF Own
    <3>1. IsFiniteSet(Before(r))
      BY <1>1, <2>1
    <3> HIDE DEF Before
    <3> QED BY <3>1, <2>3, <2>5, FS_Union, FS_EmptySet
  <2> HIDE DEF Own
  <2>7. Cardinality(Before(r + 1)) = Offset(r + 1) /\ Cardinality(Before(r)) = Offset(r)
        /\ Offset(r) \in Nat
    BY <1>1, <2>1
  <2> HIDE DEF Before
  <2> QED BY <2>2, <2>3, <2>4, <2>6, <2>7
<1>4. batch \in Nat
  BY SizesAssumption DEF KVTypeOK
<1>5. Filled = Before(batch)
  <2>1. ASSUME NEW x \in Rows \X Cols, x[2] < Need(x[1]) PROVE x[1] < batch
    <3>1. x[1] \in Nat /\ x[2] \in Nat
      BY DEF Rows, Cols
    <3>2. Need(x[1]) # 0
      BY <3>1, <2>1
    <3>3. x[1] \in Used
      BY <3>2, Needs
    <3> QED BY <3>1, <3>3, <1>4 DEF Used
  <2> QED BY <2>1 DEF Filled
<1>6. Total = Offset(batch)
  BY DEF Total
<1>7. /\ IsFiniteSet(Filled) /\ Cardinality(Filled) = Total
      /\ Total \in Nat /\ Total <= NumBlocks
  BY <1>1, <1>4, <1>5, <1>6
<1> QED BY <1>1, <1>2, <1>3, <1>7

LEMMA RowsDoNotOverlap ==
  ASSUME KVTypeOK, LengthsOK, NEW r \in Used, NEW c \in Cols, c < Need(r)
  PROVE  /\ Offset(r) + c \in 0..(Total - 1)
         /\ \A q \in Used, d \in Cols :
              (d < Need(q) /\ Offset(r) + c = Offset(q) + d) => r = q /\ c = d
<1>1. ASSUME NEW q \in Used, NEW d \in Cols, d < Need(q)
      PROVE  /\ q \in Nat /\ d \in Nat /\ Offset(q) \in Nat /\ Offset(q) + d < Offset(q + 1)
             /\ Offset(q + 1) \in Nat
             /\ \A p \in Nat : q < p => Offset(q + 1) <= Offset(p) /\ Offset(p) \in Nat
  <2>1. q \in Nat /\ d \in Nat /\ q + 1 \in Nat
    BY Needs DEF Rows, Cols
  <2>2. Offset(q + 1) = Offset(q) + Need(q) /\ Offset(q) \in Nat /\ Need(q) \in Nat
    BY <2>1, Offsets, Needs
  <2>3. Offset(q) + d < Offset(q + 1) /\ Offset(q + 1) \in Nat
    BY <2>1, <2>2, <1>1
  <2>4. ASSUME NEW p \in Nat, q < p PROVE Offset(q + 1) <= Offset(p) /\ Offset(p) \in Nat
    <3>1. q + 1 <= p
      BY <2>1, <2>4
    <3> QED BY <2>1, <3>1, Offsets
  <2> QED BY <2>1, <2>2, <2>3, <2>4
<1>2. Offset(r) + c \in 0..(Total - 1)
  <2>1. batch \in Nat /\ r < batch
    BY SizesAssumption DEF KVTypeOK, Used
  <2>2. /\ Offset(r) \in Nat /\ c \in Nat /\ Offset(r) + c < Offset(r + 1)
        /\ Offset(r + 1) \in Nat /\ Offset(r + 1) <= Offset(batch) /\ Offset(batch) \in Nat
    BY <1>1, <2>1
  <2> QED BY <2>2 DEF Total
<1>3. ASSUME NEW q \in Used, NEW d \in Cols, d < Need(q), Offset(r) + c = Offset(q) + d
      PROVE  r = q /\ c = d
  <2>1. /\ r \in Nat /\ c \in Nat /\ Offset(r) \in Nat /\ Offset(r) + c < Offset(r + 1)
        /\ Offset(r + 1) \in Nat
        /\ \A p \in Nat : r < p => Offset(r + 1) <= Offset(p) /\ Offset(p) \in Nat
    BY <1>1
  <2>2. /\ q \in Nat /\ d \in Nat /\ Offset(q) \in Nat /\ Offset(q) + d < Offset(q + 1)
        /\ Offset(q + 1) \in Nat
        /\ \A p \in Nat : q < p => Offset(q + 1) <= Offset(p) /\ Offset(p) \in Nat
    BY <1>1, <1>3
  <2>3. ~(r < q)
    <3>1. SUFFICES ASSUME r < q PROVE FALSE
      OBVIOUS
    <3>2. Offset(r + 1) <= Offset(q)
      BY <2>1, <2>2, <3>1
    <3> QED BY <2>1, <2>2, <3>2, <1>3
  <2>4. ~(q < r)
    <3>1. SUFFICES ASSUME q < r PROVE FALSE
      OBVIOUS
    <3>2. Offset(q + 1) <= Offset(r)
      BY <2>1, <2>2, <3>1
    <3> QED BY <2>1, <2>2, <3>2, <1>3
  <2>5. r = q
    BY <2>1, <2>2, <2>3, <2>4
  <2> QED BY <2>1, <2>2, <2>5, <1>3
<1> QED BY <1>2, <1>3

-----------------------------------------------------------------------------
(* The inductive invariant. *)

(* The request has prompts, of lengths that the API let through. *)
RequestInv ==
  pc # "idle" =>
    /\ batch > 0
    /\ \A r \in Used : len[r] > 0 /\ len[r] + left <= MaxSeq
    /\ pc = "prefill" => left > 0

(* Between the reset and the allocation the cache is empty, whatever the   *)
(* last request has left and however often it is reset again.              *)
FreshInv ==
  pc = "prefill" =>
    /\ \A r \in Rows, c \in Cols : table[r][c] = NoBlock
    /\ free = Blocks
    /\ \A b \in Blocks : size[b] = 0

(* A free block is empty.  A row has no block beyond the one of its next   *)
(* token, and if it has that one, then not more tokens are counted on it   *)
(* than the row has there.                                                 *)
SlotsInv ==
  /\ \A b \in free : size[b] = 0
  /\ pc = "decode" => \A r \in Used :
       /\ \A c \in Cols : c > Column(r) => table[r][c] = NoBlock
       /\ (Column(r) \in Cols /\ table[r][Column(r)] # NoBlock) =>
             size[table[r][Column(r)]] <= len[r] % BlockSize

KVInv ==
  /\ KVTypeOK
  /\ BlocksNotShared
  /\ CounterIsExact
  /\ RequestInv
  /\ FreshInv
  /\ SlotsInv

(* The state after a reset, whatever was before. *)
EmptyCache ==
  /\ table = [r \in Rows |-> [c \in Cols |-> NoBlock]]
  /\ free = Blocks
  /\ available = NumBlocks
  /\ size = [b \in Blocks |-> 0]

LEMMA EmptyCacheIsSound ==
  ASSUME EmptyCache
  PROVE  /\ table \in [Rows -> [Cols -> Blocks \union {NoBlock}]]
         /\ free \subseteq Blocks /\ available \in Int
         /\ size \in [Blocks -> Nat]
         /\ BlocksNotShared /\ CounterIsExact
         /\ \A r \in Rows, c \in Cols : table[r][c] = NoBlock
         /\ \A b \in Blocks : size[b] = 0
<1>1. \A r \in Rows, c \in Cols : table[r][c] = NoBlock
  BY DEF EmptyCache
<1>2. Held = {}
  BY <1>1 DEF Held
<1>3. CounterIsExact
  <2>1. Cardinality(Held) = 0
    BY <1>2, FS_EmptySet
  <2> QED BY <2>1, Places DEF CounterIsExact, EmptyCache
<1> QED BY <1>1, <1>2, <1>3, Places DEF EmptyCache, BlocksNotShared

LEMMA LengthsWithinMaximum ==
  ASSUME KVTypeOK, RequestInv, pc # "idle"
  PROVE  LengthsOK /\ Used \subseteq Rows
<1>1. Used \subseteq Rows
  BY SizesAssumption DEF KVTypeOK, Used, Rows
<1>2. ASSUME NEW r \in Used PROVE len[r] > 0 /\ len[r] <= MaxSeq
  <2>1. len[r] \in Nat /\ left \in Nat /\ MaxSeq \in Nat
    BY <1>1, SizesAssumption DEF KVTypeOK
  <2>2. len[r] > 0 /\ len[r] + left <= MaxSeq
    BY DEF RequestInv
  <2> QED BY <2>1, <2>2
<1> QED BY <1>1, <1>2 DEF LengthsOK

(* The lengths after a step: one token more in every row of the request.   *)
LEMMA OneTokenMore ==
  ASSUME KVTypeOK, RequestInv, pc # "idle", left > 0,
         len' = [r \in Rows |-> IF r \in Used THEN len[r] + 1 ELSE len[r]],
         left' = left - 1, batch' = batch, pc' = "decode"
  PROVE  /\ len' \in [Rows -> Nat] /\ left' \in Nat
         /\ Used' = Used
         /\ \A r \in Used : len'[r] = len[r] + 1
         /\ RequestInv'
<1>1. Used \subseteq Rows
  BY LengthsWithinMaximum
<1>2. len' \in [Rows -> Nat] /\ left' \in Nat
  BY <1>1 DEF KVTypeOK
<1>3. \A r \in Used : len'[r] = len[r] + 1
  BY <1>1
<1>4. Used' = Used
  BY DEF Used
<1>5. ASSUME NEW r \in Used PROVE len'[r] > 0 /\ len'[r] + left' <= MaxSeq
  <2>1. len[r] \in Nat /\ left \in Nat /\ MaxSeq \in Nat
    BY <1>1, SizesAssumption DEF KVTypeOK
  <2>2. len[r] > 0 /\ len[r] + left <= MaxSeq
    BY DEF RequestInv
  <2> QED BY <2>1, <2>2, <1>3
<1>6. RequestInv'
  BY <1>4, <1>5 DEF RequestInv
<1> QED BY <1>2, <1>3, <1>4, <1>6

-----------------------------------------------------------------------------
(* The allocation for the prompts. *)

(* The first window begins at block 0. *)
LEMMA WindowAtStart ==
  ASSUME KVTypeOK, RequestInv, FreshInv, pc = "prefill"
  PROVE  0 \in Windows /\ Min(Windows) = 0
<1>1. Total \in Nat /\ Total <= NumBlocks /\ NumBlocks \in Nat /\ NumBlocks > 0
  BY LengthsWithinMaximum, Offsets, Places
<1>2. 0 \in Blocks /\ 0 + Total <= NumBlocks
  BY <1>1 DEF Blocks
<1>3. 0..(0 + Total - 1) \subseteq free
  BY <1>1 DEF FreshInv, Blocks
<1>4. 0 \in Windows
  BY <1>2, <1>3 DEF Windows
<1>5. \A s \in Windows : s \in Nat
  BY DEF Windows, Blocks
<1>6. \A y \in Windows : 0 =< y
  BY <1>5
<1>7. Min(Windows) \in Windows /\ \A y \in Windows : Min(Windows) =< y
  BY <1>4, <1>6 DEF Min
<1>8. Min(Windows) =< 0 /\ Min(Windows) \in Nat
  BY <1>4, <1>5, <1>7
<1> QED BY <1>4, <1>8

(* What the allocation leaves behind. *)
LEMMA PrefillFills ==
  ASSUME KVTypeOK, CounterIsExact, RequestInv, FreshInv, Prefill
  PROVE  /\ \A r \in Rows, c \in Cols :
              table'[r][c] = IF c < Need(r) THEN Offset(r) + c ELSE NoBlock
         /\ table' \in [Rows -> [Cols -> Blocks \union {NoBlock}]]
         /\ free' = {b \in Blocks : b >= Total}
         /\ available' = NumBlocks - Total
         /\ size' \in [Blocks -> Nat]
         /\ refs' \in [Blocks -> Nat]
         /\ \A b \in free' : size'[b] = 0
         /\ \A r \in Used, c \in Cols :
              c = Need(r) - 1 => size'[Offset(r) + c] = LastSize(len[r])
<1> DEFINE s == Min(Windows)
           last == {RowOf(s, r, Need(r) - 1) : r \in Used}
           owner(b) == CHOOSE r \in Used : RowOf(s, r, Need(r) - 1) = b
           taken == s..(s + Total - 1)
<1>1. pc = "prefill" /\ s = 0 /\ LengthsOK /\ Used \subseteq Rows
  BY WindowAtStart, LengthsWithinMaximum DEF Prefill
<1>2. /\ Total \in Nat /\ Total <= NumBlocks /\ NumBlocks \in Nat
      /\ \A r \in Used : /\ Offset(r) \in Nat /\ Need(r) \in Nat /\ Need(r) > 0
                          /\ Need(r) - 1 \in Cols
      /\ \A r : r \notin Used => Need(r) = 0
  <2>1. \A r \in Used : r \in Nat
    BY <1>1 DEF Rows
  <2>2. \A r \in Used : Need(r) \in Nat /\ Need(r) > 0 /\ Need(r) <= BlocksFor(MaxSeq)
    BY <1>1, Needs
  <2>3. \A r \in Used : Need(r) - 1 \in Cols
    BY <2>2, Places DEF Cols
  <2>4. \A r : r \notin Used => Need(r) = 0
    BY <1>1, Needs
  <2> QED BY <1>1, <2>1, <2>2, <2>3, <2>4, Offsets, Places
<1>3. ASSUME NEW r \in Used, NEW c \in Cols, c < Need(r)
      PROVE  /\ RowOf(s, r, c) = Offset(r) + c
             /\ Offset(r) + c \in 0..(Total - 1)
             /\ \A q \in Used, d \in Cols :
                  (d < Need(q) /\ Offset(r) + c = Offset(q) + d) => r = q /\ c = d
  <2>1. c \in Nat
    BY DEF Cols
  <2>2. RowOf(s, r, c) = Offset(r) + c
    BY <1>1, <1>2, <2>1 DEF RowOf
  <2> QED BY <1>1, <2>2, <1>3, RowsDoNotOverlap
<1>4. ASSUME NEW r \in Rows, NEW c \in Cols
      PROVE  /\ table'[r][c] = IF c < Need(r) THEN Offset(r) + c ELSE NoBlock
             /\ table'[r][c] \in Blocks \union {NoBlock}
  <2>1. table'[r][c] = IF r \in Used /\ c < Need(r) THEN RowOf(s, r, c) ELSE table[r][c]
    BY DEF Prefill
  <2>2. table[r][c] = NoBlock /\ c \in Nat
    BY <1>1 DEF FreshInv, Cols
  <2>3. CASE r \in Used /\ c < Need(r)
    <3>1. Offset(r) + c \in Blocks
      BY <1>2, <1>3, <2>3 DEF Blocks
    <3> QED BY <1>3, <2>1, <2>3, <3>1
  <2>4. CASE ~(r \in Used /\ c < Need(r))
    <3>1. ~(c < Need(r))
      BY <2>4, <2>2, <1>2
    <3> QED BY <3>1, <2>1, <2>2, <2>4
  <2> QED BY <2>3, <2>4
<1>5. table' \in [Rows -> [Cols -> Blocks \union {NoBlock}]]
  <2>1. table' = [r \in Rows |-> [c \in Cols |-> table'[r][c]]]
    BY DEF Prefill
  <2> QED BY <2>1, <1>4
<1>6. free' = {b \in Blocks : b >= Total}
  <2>1. free' = Blocks \ (s..(s + Total - 1))
    BY <1>1 DEF Prefill, FreshInv
  <2>2. s..(s + Total - 1) = 0..(Total - 1)
    BY <1>1, <1>2
  <2>3. \A b \in Blocks : b \in Nat
    BY DEF Blocks
  <2>4. \A b \in Blocks : b \in 0..(Total - 1) <=> ~(b >= Total)
    BY <2>3, <1>2
  <2> QED BY <2>1, <2>2, <2>4
<1>7. available' = NumBlocks - Total
  <2>1. available = NumBlocks
    BY <1>1, Places DEF FreshInv, CounterIsExact
  <2> QED BY <2>1 DEF Prefill
<1>8. ASSUME NEW b \in Blocks
      PROVE  /\ size'[b] = IF b \in last THEN LastSize(len[owner(b)])
                           ELSE IF b \in 0..(Total - 1) THEN BlockSize ELSE 0
             /\ size'[b] \in Nat
  <2>1. size'[b] = IF b \in last THEN size[b] + LastSize(len[owner(b)])
                   ELSE IF b \in taken THEN size[b] + BlockSize ELSE size[b]
    BY DEF Prefill
  <2>2. size[b] = 0 /\ taken = 0..(Total - 1)
    BY <1>1, <1>2 DEF FreshInv
  <2>3. CASE b \in last
    <3>1. owner(b) \in Used
      BY <2>3
    <3>2. len[owner(b)] \in Nat
      BY <1>1, <3>1 DEF KVTypeOK
    <3>3. LastSize(len[owner(b)]) \in Nat
      <4>1. ASSUME NEW n \in Nat PROVE LastSize(n) \in Nat
        <5>1. n % BlockSize \in 0..(BlockSize - 1)
          BY Division
        <5> QED BY <5>1, SizesAssumption DEF LastSize
      <4> QED BY <4>1, <3>2
    <3> HIDE DEF owner, last, taken
    <3> QED BY <2>1, <2>2, <2>3, <3>3
  <2>4. CASE b \notin last
    <3> HIDE DEF owner, last, taken
    <3> QED BY <2>1, <2>2, <2>4, SizesAssumption
  <2> QED BY <2>3, <2>4
<1>9. size' \in [Blocks -> Nat]
  <2>1. size' = [b \in Blocks |-> size'[b]]
    BY DEF Prefill
  <2> QED BY <2>1, <1>8
<1>10. refs' \in [Blocks -> Nat]
  <2>1. \A b \in Blocks : refs[b] \in Nat
    BY DEF KVTypeOK
  <2> QED BY <2>1 DEF Prefill
<1>11. ASSUME NEW b \in free' PROVE size'[b] = 0
  <2>1. b \in Blocks /\ b >= Total /\ b \in Nat
    BY <1>6 DEF Blocks
  <2>2. b \notin 0..(Total - 1)
    BY <2>1, <1>2
  <2>3. b \notin last
    <3>1. ASSUME NEW r \in Used PROVE RowOf(s, r, Need(r) - 1) # b
      <4>1. Need(r) - 1 \in Cols /\ Need(r) - 1 < Need(r)
        BY <1>2
      <4>2. RowOf(s, r, Need(r) - 1) \in 0..(Total - 1)
        BY <4>1, <1>3
      <4> QED BY <4>2, <2>2
    <3> QED BY <3>1
  <2> HIDE DEF last, owner
  <2> QED BY <1>8, <2>1, <2>2, <2>3
<1>12. ASSUME NEW r \in Used, NEW c \in Cols, c = Need(r) - 1
       PROVE  size'[Offset(r) + c] = LastSize(len[r])
  <2> DEFINE b == Offset(r) + c
  <2>1. c < Need(r)
    BY <1>2, <1>12
  <2>2. b \in Blocks /\ RowOf(s, r, c) = b
    BY <2>1, <1>2, <1>3 DEF Blocks
  <2>3. b \in last
    BY <2>2, <1>12
  <2>4. owner(b) = r
    <3>1. ASSUME NEW q \in Used, RowOf(s, q, Need(q) - 1) = b PROVE q = r
      <4>1. Need(q) - 1 \in Cols /\ Need(q) - 1 < Need(q)
        BY <1>2
      <4>2. RowOf(s, q, Need(q) - 1) = Offset(q) + (Need(q) - 1)
        BY <4>1, <1>3
      <4>3. Offset(r) + c = Offset(q) + (Need(q) - 1)
        BY <4>2, <3>1
      <4> QED BY <4>1, <4>3, <2>1, <1>3
    <3>2. RowOf(s, r, Need(r) - 1) = b
      BY <2>2, <1>12
    <3> HIDE DEF b, s
    <3> QED BY <3>1, <3>2
  <2> HIDE DEF last, owner, b
  <2>5. size'[b] = LastSize(len[r])
    BY <1>8, <2>2, <2>3, <2>4
  <2> QED BY <2>5 DEF b
<1> QED BY <1>4, <1>5, <1>6, <1>7, <1>9, <1>10, <1>11, <1>12

LEMMA PrefillIsSound ==
  ASSUME KVInv, Prefill
  PROVE  KVInv'
<1> USE DEF KVInv
<1>1. pc = "prefill" /\ LengthsOK /\ Used \subseteq Rows /\ left > 0
  BY LengthsWithinMaximum DEF Prefill, RequestInv
<1>2. /\ len' \in [Rows -> Nat] /\ left' \in Nat
      /\ Used' = Used
      /\ \A r \in Used : len'[r] = len[r] + 1
      /\ RequestInv'
      /\ pc' = "decode"
  BY <1>1, OneTokenMore DEF Prefill
<1>3. KVTypeOK'
  BY <1>2, PrefillFills DEF KVTypeOK, Prefill
<1>4. Held' = Filled
  <2>1. \A x \in Rows \X Cols : table'[x[1]][x[2]] # NoBlock <=> x[2] < Need(x[1])
    <3>1. ASSUME NEW x \in Rows \X Cols
          PROVE  table'[x[1]][x[2]] # NoBlock <=> x[2] < Need(x[1])
      <4>1. x[1] \in Rows /\ x[2] \in Cols /\ x[1] \in Nat /\ x[2] \in Nat
        BY DEF Rows, Cols
      <4>2. Offset(x[1]) \in Nat
        BY <1>1, <4>1, Offsets
      <4>3. Offset(x[1]) + x[2] # NoBlock
        BY <4>1, <4>2 DEF NoBlock
      <4> QED BY <4>1, <4>3, PrefillFills
    <3> QED BY <3>1
  <2> QED BY <2>1 DEF Held, Filled
<1>5. ASSUME NEW x \in Filled
      PROVE  /\ x[1] \in Used /\ x[2] \in Cols /\ x[2] < Need(x[1])
             /\ table'[x[1]][x[2]] = Offset(x[1]) + x[2]
             /\ x = <<x[1], x[2]>>
  <2>1. x[1] \in Rows /\ x[2] \in Cols /\ x[2] \in Nat /\ x[2] < Need(x[1]) /\ x = <<x[1], x[2]>>
    BY DEF Filled, Cols
  <2>2. Need(x[1]) # 0
    BY <2>1
  <2>3. x[1] \in Used
    BY <1>1, <2>2, Needs
  <2> QED BY <2>1, <2>3, PrefillFills
<1>6. BlocksNotShared'
  <2>1. ASSUME NEW x \in Filled, NEW y \in Filled, x # y
        PROVE  table'[x[1]][x[2]] # table'[y[1]][y[2]]
    <3>1. Offset(x[1]) + x[2] = Offset(y[1]) + y[2] => x[1] = y[1] /\ x[2] = y[2]
      BY <1>1, <1>5, RowsDoNotOverlap
    <3> QED BY <2>1, <3>1, <1>5
  <2>2. ASSUME NEW x \in Filled
        PROVE  table'[x[1]][x[2]] \notin free'
    <3>1. Offset(x[1]) + x[2] \in 0..(Total - 1) /\ Total \in Nat
      BY <1>1, <1>5, RowsDoNotOverlap, Offsets
    <3>2. ~(Offset(x[1]) + x[2] >= Total)
      BY <3>1
    <3> QED BY <3>2, <1>5, PrefillFills
  <2> QED BY <2>1, <2>2, <1>4 DEF BlocksNotShared
<1>7. CounterIsExact'
  <2>1. Total \in Nat /\ Total <= NumBlocks /\ NumBlocks \in Nat
    BY <1>1, Offsets, Places
  <2>2. Cardinality(free') = NumBlocks - Total
    <3>1. free' = Total..(NumBlocks - 1)
      <4>1. \A b \in Blocks : b \in Nat /\ b <= NumBlocks - 1
        BY <2>1 DEF Blocks
      <4>2. free' = {b \in Blocks : b >= Total}
        BY PrefillFills
      <4> QED BY <2>1, <4>1, <4>2 DEF Blocks
    <3>2. Total \in Int /\ NumBlocks - 1 \in Int
          /\ (IF Total > NumBlocks - 1 THEN 0 ELSE NumBlocks - 1 - Total + 1) = NumBlocks - Total
      BY <2>1
    <3>3. Cardinality(Total..(NumBlocks - 1)) =
            IF Total > NumBlocks - 1 THEN 0 ELSE NumBlocks - 1 - Total + 1
      BY <3>2, FS_Interval
    <3> QED BY <3>1, <3>2, <3>3
  <2>3. Cardinality(Held') = Total
    BY <1>1, <1>4, Offsets
  <2>4. Cardinality(Held') + Cardinality(free') = NumBlocks
    BY <2>1, <2>2, <2>3
  <2> QED BY <2>2, <2>4, PrefillFills, <1>1 DEF CounterIsExact, Prefill, NumBlocks
<1>8. FreshInv'
  BY <1>2 DEF FreshInv
<1>9. ASSUME NEW r \in Used
      PROVE  /\ \A c \in Cols : c > Column(r)' => table'[r][c] = NoBlock
             /\ (Column(r)' \in Cols /\ table'[r][Column(r)'] # NoBlock) =>
                   size'[table'[r][Column(r)']] <= len'[r] % BlockSize
  <2> DEFINE l == len[r]
  <2>1. l \in Nat /\ l > 0 /\ l - 1 \in Nat /\ len'[r] = l + 1 /\ r \in Rows
    BY <1>1, <1>2 DEF LengthsOK, KVTypeOK
  <2>2. Column(r)' = (l + 1) \div BlockSize
    BY <2>1 DEF Column
  <2>3. Need(r) = (l - 1) \div BlockSize + 1
    BY <1>1, Needs
  <2> HIDE DEF l
  <2>4. (l - 1) + 1 = l
    BY <2>1
  <2>5. /\ (l - 1) \div BlockSize \in Nat /\ l \div BlockSize \in Nat /\ (l + 1) \div BlockSize \in Nat
        /\ l % BlockSize \in 0..(BlockSize - 1) /\ (l - 1) % BlockSize \in 0..(BlockSize - 1)
    <3>1. l + 1 \in Nat /\ l \in Nat /\ l - 1 \in Nat
      BY <2>1
    <3> QED BY <3>1, Division
  <2>6. /\ l % BlockSize = IF (l - 1) % BlockSize = BlockSize - 1 THEN 0
                            ELSE ((l - 1) % BlockSize) + 1
        /\ l \div BlockSize = IF (l - 1) % BlockSize = BlockSize - 1 THEN (l - 1) \div BlockSize + 1
                               ELSE (l - 1) \div BlockSize
    BY <2>1, <2>4, Division
  <2>7. /\ (l + 1) % BlockSize = IF l % BlockSize = BlockSize - 1 THEN 0 ELSE (l % BlockSize) + 1
        /\ (l + 1) \div BlockSize = IF l % BlockSize = BlockSize - 1 THEN l \div BlockSize + 1
                                     ELSE l \div BlockSize
    BY <2>1, Division
  <2>8. (l + 1) \div BlockSize >= Need(r) - 1
    BY <2>3, <2>5, <2>6, <2>7
  <2>9. ASSUME NEW c \in Cols, c > Column(r)' PROVE table'[r][c] = NoBlock
    <3>1. c \in Nat
      BY DEF Cols
    <3>2. ~(c < Need(r))
      BY <3>1, <2>2, <2>3, <2>5, <2>8, <2>9
    <3> QED BY <3>2, <2>1, PrefillFills
  <2>10. ASSUME Column(r)' \in Cols, table'[r][Column(r)'] # NoBlock
         PROVE  size'[table'[r][Column(r)']] <= len'[r] % BlockSize
    <3> DEFINE c == (l + 1) \div BlockSize
    <3>1. c \in Cols /\ c < Need(r) /\ table'[r][c] = Offset(r) + c
      BY <2>1, <2>2, <2>10, PrefillFills
    <3>2. c \in Nat /\ c = Need(r) - 1
      BY <3>1, <2>3, <2>5, <2>8
    <3>3. size'[Offset(r) + c] = LastSize(l)
      BY <3>1, <3>2, PrefillFills DEF l
    <3>4. l % BlockSize # 0 /\ (l + 1) % BlockSize = (l % BlockSize) + 1
      BY <3>2, <2>3, <2>5, <2>6, <2>7
    <3>5. LastSize(l) <= (l + 1) % BlockSize
      BY <3>4, <2>5 DEF LastSize
    <3> QED BY <3>1, <3>3, <3>5, <2>1, <2>2
  <2> QED BY <2>9, <2>10
<1>10. SlotsInv'
  <2>1. \A b \in free' : size'[b] = 0
    BY PrefillFills
  <2> QED BY <1>2, <1>9, <2>1 DEF SlotsInv
<1> QED BY <1>2, <1>3, <1>6, <1>7, <1>8, <1>10

-----------------------------------------------------------------------------
(* Room for one token per row. *)

(* While steps may still come, the next token of a row has a column, and   *)
(* there is a free block for every row that wants one: the places of these *)
(* tokens are entries of the table without a block.                        *)
LEMMA DecodeHasRoom ==
  ASSUME KVInv, pc = "decode", left > 0
  PROVE  /\ \A r \in Used : Column(r) \in Cols
         /\ Wanting \subseteq Rows
         /\ IsFiniteSet(Wanting) /\ IsFiniteSet(free)
         /\ Cardinality(Wanting) <= Cardinality(free)
         /\ Cardinality(Wanting) \in Nat
<1> USE DEF KVInv
<1>1. LengthsOK /\ Used \subseteq Rows
  BY LengthsWithinMaximum
<1>2. ASSUME NEW r \in Used PROVE Column(r) \in Cols
  <2>1. len[r] \in Nat /\ left \in Nat /\ MaxSeq \in Nat /\ MaxSeq > 0 /\ len[r] + left <= MaxSeq
    BY <1>1, SizesAssumption DEF KVTypeOK, RequestInv
  <2>2. MaxSeq - 1 \in Nat /\ len[r] <= MaxSeq - 1
    BY <2>1
  <2>3. len[r] \div BlockSize <= (MaxSeq - 1) \div BlockSize
    BY <2>1, <2>2, Division
  <2>4. len[r] \div BlockSize \in Nat /\ (MaxSeq - 1) \div BlockSize \in Nat
    BY <2>1, <2>2, Division
  <2>5. BlocksFor(MaxSeq) = (MaxSeq - 1) \div BlockSize + 1
    BY <2>1, BlocksForTokens
  <2> QED BY <2>3, <2>4, <2>5 DEF Column, Cols
<1>3. Wanting \subseteq Rows /\ IsFiniteSet(Wanting) /\ Cardinality(Wanting) \in Nat
  <2>1. Wanting \in SUBSET Rows
    BY <1>1 DEF Wanting
  <2> QED BY <2>1, Places, FS_Subset, FS_CardinalityType
<1>4. IsFiniteSet(free) /\ Cardinality(free) \in Nat
  <2>1. free \in SUBSET Blocks
    BY DEF KVTypeOK
  <2> QED BY <2>1, Places, FS_Subset, FS_CardinalityType
<1>5. Held \in SUBSET (Rows \X Cols)
  BY DEF Held
<1>6. IsFiniteSet(Held) /\ Cardinality(Held) \in Nat
  BY <1>5, Places, FS_Subset, FS_CardinalityType
<1> DEFINE Gaps == (Rows \X Cols) \ Held
           place == [r \in Wanting |-> <<r, Column(r)>>]
<1>7. IsFiniteSet(Gaps) /\ Cardinality(Gaps) = Cardinality(free)
  <2>1. (Rows \X Cols) \cap Held = Held
    BY <1>5
  <2>2. IsFiniteSet(Gaps) /\ Cardinality(Gaps) = Cardinality(Rows \X Cols) - Cardinality((Rows \X Cols) \cap Held)
    BY Places, FS_Difference
  <2>3. Cardinality(Held) + Cardinality(free) = NumBlocks /\ NumBlocks \in Nat
    BY Places DEF CounterIsExact
  <2>4. Cardinality(Rows \X Cols) = NumBlocks
    BY Places
  <2> HIDE DEF Gaps
  <2>5. Cardinality(Gaps) = NumBlocks - Cardinality(Held)
    BY <2>1, <2>2, <2>4 DEF Gaps
  <2> QED BY <2>2, <2>3, <2>5, <1>4, <1>6 DEF Gaps
<1>8. place \in Injection(Wanting, Gaps)
  <2>1. ASSUME NEW r \in Wanting PROVE <<r, Column(r)>> \in Gaps
    <3>1. r \in Used /\ r \in Rows /\ Column(r) \in Cols /\ table[r][Column(r)] = NoBlock
      BY <1>1, <1>2 DEF Wanting
    <3> QED BY <3>1 DEF Held
  <2>2. place \in [Wanting -> Gaps]
    BY <2>1
  <2>3. \A q, r \in Wanting : place[q] = place[r] => q = r
    OBVIOUS
  <2> QED BY <2>2, <2>3 DEF Injection, IsInjective
<1>9. Cardinality(Wanting) <= Cardinality(Gaps)
  <2> HIDE DEF place, Gaps
  <2> QED BY <1>7, <1>8, FS_Injection
<1> QED BY <1>2, <1>3, <1>4, <1>7, <1>9

(* The wanting rows get different blocks, all of them free. *)
LEMMA NewBlocks ==
  ASSUME KVInv, pc = "decode", left > 0
  PROVE  /\ \A r \in Wanting : NewBlock(r) \in free
         /\ \A q, r \in Wanting : q # r => NewBlock(q) # NewBlock(r)
<1>1. /\ Wanting \in SUBSET Int /\ IsFiniteSet(Wanting)
      /\ free \in SUBSET Int /\ IsFiniteSet(free)
      /\ Cardinality(Wanting) <= Cardinality(free)
      /\ Cardinality(Wanting) \in Nat /\ Cardinality(free) \in Nat
  <2>1. Wanting \in SUBSET Int /\ free \in SUBSET Int
    BY DecodeHasRoom DEF Rows, Blocks, KVInv, KVTypeOK
  <2> QED BY <2>1, DecodeHasRoom, FS_CardinalityType
<1>2. ASSUME NEW r \in Wanting
      PROVE  NewBlock(r) \in free /\ Rank(NewBlock(r), free) = Rank(r, Wanting)
  <2>1. Rank(r, Wanting) \in 0..(Cardinality(Wanting) - 1)
    BY <1>1, RankOrders
  <2>2. Rank(r, Wanting) \in 0..(Cardinality(free) - 1)
    BY <1>1, <2>1
  <2>3. \E b \in free : Rank(b, free) = Rank(r, Wanting)
    BY <1>1, <2>2, RankIsSurjective
  <2> QED BY <2>3 DEF NewBlock
<1>3. ASSUME NEW q \in Wanting, NEW r \in Wanting, q # r
      PROVE  NewBlock(q) # NewBlock(r)
  <2>1. Rank(q, Wanting) # Rank(r, Wanting)
    BY <1>1, <1>3, RankIsInjective
  <2>2. Rank(NewBlock(q), free) = Rank(q, Wanting) /\ Rank(NewBlock(r), free) = Rank(r, Wanting)
    BY <1>2
  <2> QED BY <2>1, <2>2
<1> QED BY <1>2, <1>3

LEMMA DecodeIsSound ==
  ASSUME KVInv, Decode
  PROVE  KVInv'
<1> USE DEF KVInv
<1> DEFINE taken == {NewBlock(r) : r \in Wanting}
           target(r) == IF r \in Wanting THEN NewBlock(r) ELSE table[r][Column(r)]
           new == {<<r, Column(r)>> : r \in Wanting}
<1>1. pc = "decode" /\ left > 0 /\ LengthsOK /\ Used \subseteq Rows /\ Wanting \subseteq Used
  BY LengthsWithinMaximum DEF Decode, Wanting
<1>2. /\ len' \in [Rows -> Nat] /\ left' \in Nat
      /\ Used' = Used
      /\ \A r \in Used : len'[r] = len[r] + 1
      /\ RequestInv'
      /\ pc' = "decode"
  BY <1>1, OneTokenMore DEF Decode
<1>3. /\ \A r \in Used : Column(r) \in Cols
      /\ Cardinality(Wanting) <= Cardinality(free)
      /\ IsFiniteSet(Wanting) /\ Cardinality(Wanting) \in Nat /\ IsFiniteSet(free)
      /\ \A r \in Wanting : NewBlock(r) \in free /\ NewBlock(r) \in Blocks
      /\ \A q, r \in Wanting : q # r => NewBlock(q) # NewBlock(r)
      /\ \A r \in Wanting : table[r][Column(r)] = NoBlock
  BY <1>1, DecodeHasRoom, NewBlocks DEF KVTypeOK, Wanting
<1>4. ASSUME NEW r \in Rows, NEW c \in Cols
      PROVE  /\ table'[r][c] = IF r \in Wanting /\ c = Column(r) THEN NewBlock(r) ELSE table[r][c]
             /\ table'[r][c] \in Blocks \union {NoBlock}
  <2>1. table'[r] = IF r \in Wanting THEN [table[r] EXCEPT ![Column(r)] = NewBlock(r)] ELSE table[r]
    BY DEF Decode
  <2>2. table[r] \in [Cols -> Blocks \union {NoBlock}]
    BY DEF KVTypeOK
  <2> QED BY <2>1, <2>2, <1>3
<1>5. table' \in [Rows -> [Cols -> Blocks \union {NoBlock}]]
  <2>1. table' = [r \in Rows |-> IF r \in Wanting
                                 THEN [table[r] EXCEPT ![Column(r)] = NewBlock(r)] ELSE table[r]]
    BY DEF Decode
  <2>2. ASSUME NEW r \in Rows
        PROVE  (IF r \in Wanting THEN [table[r] EXCEPT ![Column(r)] = NewBlock(r)] ELSE table[r])
                 \in [Cols -> Blocks \union {NoBlock}]
    <3>1. table[r] \in [Cols -> Blocks \union {NoBlock}]
      BY DEF KVTypeOK
    <3> QED BY <3>1, <1>3
  <2> QED BY <2>1, <2>2
<1>6. free' = free \ taken /\ available' = available - Cardinality(Wanting)
  <2>1. {([q \in Wanting |-> NewBlock(q)])[r] : r \in Wanting} = taken
    OBVIOUS
  <2> QED BY <2>1 DEF Decode, TakenCount
<1>7. refs' \in [Blocks -> Nat]
  <2>1. \A b \in Blocks : refs[b] \in Nat
    BY DEF KVTypeOK
  <2> QED BY <2>1 DEF Decode
<1>8. ASSUME NEW b \in Blocks
      PROVE  /\ size'[b] = size[b] + Cardinality({r \in Used : target(r) = b})
             /\ IsFiniteSet({r \in Used : target(r) = b})
             /\ size'[b] \in Nat
  <2>1. size'[b] = size[b] + Cardinality({q \in Used :
          [r \in Used |-> IF r \in Wanting THEN ([p \in Wanting |-> NewBlock(p)])[r]
                                           ELSE table[r][Column(r)]][q] = b})
    BY DEF Decode
  <2>2. {q \in Used : [r \in Used |-> IF r \in Wanting THEN ([p \in Wanting |-> NewBlock(p)])[r]
                                                       ELSE table[r][Column(r)]][q] = b}
          = {r \in Used : target(r) = b}
    OBVIOUS
  <2> DEFINE counted == {r \in Used : target(r) = b}
  <2>3. counted \in SUBSET Rows
    BY <1>1
  <2> HIDE DEF counted
  <2>4. IsFiniteSet(counted) /\ Cardinality(counted) \in Nat
    BY <2>3, Places, FS_Subset, FS_CardinalityType
  <2>5. size[b] \in Nat
    BY DEF KVTypeOK
  <2>6. size'[b] = size[b] + Cardinality(counted)
    BY <2>1, <2>2 DEF counted
  <2> QED BY <2>4, <2>5, <2>6 DEF counted
<1>9. size' \in [Blocks -> Nat]
  <2>1. size' = [b \in Blocks |-> size'[b]]
    BY DEF Decode
  <2> QED BY <2>1, <1>8
<1>10. KVTypeOK'
  <2>1. available \in Int /\ free \subseteq Blocks /\ batch' = batch
    BY DEF KVTypeOK, Decode
  <2>2. free' \subseteq Blocks /\ available' \in Int
    BY <2>1, <1>3, <1>6
  <2> QED BY <1>2, <1>5, <1>7, <1>9, <2>1, <2>2 DEF KVTypeOK
<1>11. ASSUME NEW r \in Used
       PROVE  /\ target(r) \in Blocks
              /\ r \in Wanting => target(r) \in free
              /\ r \notin Wanting => <<r, Column(r)>> \in Held /\ target(r) \notin free
  <2>1. CASE r \in Wanting
    BY <2>1, <1>3
  <2>2. CASE r \notin Wanting
    <3>1. table[r][Column(r)] # NoBlock /\ r \in Rows /\ Column(r) \in Cols
      BY <2>2, <1>1, <1>3 DEF Wanting
    <3>2. table[r][Column(r)] \in Blocks
      BY <3>1 DEF KVTypeOK
    <3>3. <<r, Column(r)>> \in Held
      BY <3>1 DEF Held
    <3>4. table[r][Column(r)] \notin free
      BY <3>3 DEF BlocksNotShared
    <3> QED BY <2>2, <3>2, <3>3, <3>4
  <2> QED BY <2>1, <2>2
<1>12. ASSUME NEW q \in Used, NEW r \in Used, target(q) = target(r)
       PROVE  q = r
  <2>1. CASE q \in Wanting /\ r \in Wanting
    BY <2>1, <1>3, <1>12
  <2>2. CASE q \notin Wanting /\ r \notin Wanting
    <3>1. <<q, Column(q)>> \in Held /\ <<r, Column(r)>> \in Held
      BY <1>11, <2>2
    <3>2. table[q][Column(q)] = table[r][Column(r)]
      BY <1>12, <2>2
    <3>3. <<q, Column(q)>> = <<r, Column(r)>>
      BY <3>1, <3>2 DEF BlocksNotShared
    <3> QED BY <3>3
  <2>3. CASE q \in Wanting /\ r \notin Wanting
    BY <2>3, <1>11, <1>12
  <2>4. CASE q \notin Wanting /\ r \in Wanting
    BY <2>4, <1>11, <1>12
  <2> QED BY <2>1, <2>2, <2>3, <2>4
<1>13. Held' = Held \union new /\ Held \cap new = {}
  <2>1. ASSUME NEW x \in Rows \X Cols
        PROVE  table'[x[1]][x[2]] # NoBlock <=> (x \in Held \/ x \in new)
    <3>1. x[1] \in Rows /\ x[2] \in Cols /\ x = <<x[1], x[2]>>
      OBVIOUS
    <3>2. x \in new <=> (x[1] \in Wanting /\ x[2] = Column(x[1]))
      BY <3>1
    <3>3. x \in Held <=> table[x[1]][x[2]] # NoBlock
      BY DEF Held
    <3>4. CASE x \in new
      <4>1. table'[x[1]][x[2]] \in Blocks
        BY <3>1, <3>2, <3>4, <1>3, <1>4
      <4> QED BY <4>1, <3>4, Places DEF Blocks, NoBlock
    <3>5. CASE x \notin new
      BY <3>1, <3>2, <3>3, <3>5, <1>4
    <3> QED BY <3>4, <3>5
  <2>2. new \in SUBSET (Rows \X Cols)
    BY <1>1, <1>3
  <2>3. ASSUME NEW x \in new PROVE x \notin Held
    BY <1>3 DEF Held
  <2> HIDE DEF new
  <2> QED BY <2>1, <2>2, <2>3 DEF Held
<1>14. ASSUME NEW x \in Held
       PROVE  /\ table'[x[1]][x[2]] = table[x[1]][x[2]]
              /\ table[x[1]][x[2]] \notin free
  <2>1. x[1] \in Rows /\ x[2] \in Cols /\ table[x[1]][x[2]] # NoBlock
    BY DEF Held
  <2>2. ~(x[1] \in Wanting /\ x[2] = Column(x[1]))
    BY <2>1, <1>3
  <2> QED BY <2>1, <2>2, <1>4 DEF BlocksNotShared
<1>15. ASSUME NEW r \in Wanting
       PROVE  /\ table'[r][Column(r)] = NewBlock(r)
              /\ NewBlock(r) \in free /\ NewBlock(r) \in taken
  BY <1>1, <1>3, <1>4
<1>16. BlocksNotShared'
  <2>1. ASSUME NEW x \in Held \union new
        PROVE  table'[x[1]][x[2]] \notin free \ taken
    <3>1. CASE x \in Held
      BY <3>1, <1>14
    <3>2. CASE x \in new
      <4>1. PICK r \in Wanting : x = <<r, Column(r)>>
        BY <3>2
      <4> QED BY <4>1, <1>15
    <3> QED BY <3>1, <3>2
  <2>2. ASSUME NEW x \in Held \union new, NEW y \in Held \union new, x # y
        PROVE  table'[x[1]][x[2]] # table'[y[1]][y[2]]
    <3>1. CASE x \in Held /\ y \in Held
      BY <3>1, <2>2, <1>14 DEF BlocksNotShared
    <3>2. CASE x \in new /\ y \in new
      <4>1. PICK q \in Wanting : x = <<q, Column(q)>>
        BY <3>2
      <4>2. PICK r \in Wanting : y = <<r, Column(r)>>
        BY <3>2
      <4>3. q # r
        BY <4>1, <4>2, <2>2
      <4> QED BY <4>1, <4>2, <4>3, <1>3, <1>15
    <3>3. CASE x \in Held /\ y \in new
      <4>1. PICK r \in Wanting : y = <<r, Column(r)>>
        BY <3>3
      <4> QED BY <4>1, <3>3, <1>14, <1>15
    <3>4. CASE x \in new /\ y \in Held
      <4>1. PICK r \in Wanting : x = <<r, Column(r)>>
        BY <3>4
      <4> QED BY <4>1, <3>4, <1>14, <1>15
    <3> QED BY <3>1, <3>2, <3>3, <3>4
  <2> HIDE DEF new, taken
  <2> QED BY <2>1, <2>2, <1>6, <1>13 DEF BlocksNotShared
<1>17. /\ IsFiniteSet(new) /\ Cardinality(new) = Cardinality(Wanting)
       /\ IsFiniteSet(taken) /\ Cardinality(taken) = Cardinality(Wanting)
  <2> DEFINE f == [r \in Wanting |-> <<r, Column(r)>>]
             g == [r \in Wanting |-> NewBlock(r)]
  <2>1. f \in Bijection(Wanting, new)
    <3>1. f \in [Wanting -> new] /\ \A q, r \in Wanting : f[q] = f[r] => q = r
      OBVIOUS
    <3>2. \A t \in new : \E r \in Wanting : f[r] = t
      OBVIOUS
    <3> QED BY <3>1, <3>2 DEF Bijection, Injection, IsInjective, Surjection
  <2>2. g \in Bijection(Wanting, taken)
    <3>1. g \in [Wanting -> taken] /\ \A q, r \in Wanting : g[q] = g[r] => q = r
      BY <1>3
    <3>2. \A t \in taken : \E r \in Wanting : g[r] = t
      OBVIOUS
    <3> QED BY <3>1, <3>2 DEF Bijection, Injection, IsInjective, Surjection
  <2>3. ExistsBijection(Wanting, new) /\ ExistsBijection(Wanting, taken)
    <3> HIDE DEF f, g, new, taken
    <3> QED BY <2>1, <2>2 DEF ExistsBijection
  <2> HIDE DEF new, taken
  <2> QED BY <2>3, <1>3, FS_Bijection
<1>18. CounterIsExact'
  <2>1. /\ Cardinality(free) \in Nat /\ available = Cardinality(free)
        /\ Cardinality(Held) + Cardinality(free) = NumBlocks
    BY <1>3, FS_CardinalityType DEF CounterIsExact
  <2>2. Held \in SUBSET (Rows \X Cols)
    BY DEF Held
  <2>3. IsFiniteSet(Held) /\ Cardinality(Held) \in Nat
    BY <2>2, Places, FS_Subset, FS_CardinalityType
  <2>4. free \cap taken = taken
    BY <1>3
  <2> HIDE DEF new, taken
  <2>5. Cardinality(free') = Cardinality(free) - Cardinality(Wanting)
    <3>1. Cardinality(free \ taken) = Cardinality(free) - Cardinality(free \cap taken)
      BY <1>3, FS_Difference
    <3> QED BY <3>1, <2>4, <1>6, <1>17
  <2>6. Cardinality(Held \union new) = Cardinality(Held) + Cardinality(new) - Cardinality(Held \cap new)
    BY <2>3, <1>17, FS_Union
  <2>7. Cardinality(Held') = Cardinality(Held) + Cardinality(Wanting)
    <3>1. Cardinality(Held \cap new) = 0
      BY <1>13, FS_EmptySet
    <3> QED BY <3>1, <2>3, <2>6, <1>3, <1>13, <1>17
  <2>8. Cardinality(Held') + Cardinality(free') = NumBlocks
    BY <2>1, <2>3, <2>5, <2>7, <1>3
  <2> QED BY <2>1, <2>5, <2>8, <1>6 DEF CounterIsExact, NumBlocks
<1>19. ASSUME NEW b \in free' PROVE size'[b] = 0
  <2>1. b \in free /\ b \notin taken /\ b \in Blocks
    BY <1>6 DEF KVTypeOK
  <2>2. ASSUME NEW r \in Used PROVE target(r) # b
    BY <2>1, <1>3, <1>11
  <2>3. {r \in Used : target(r) = b} = {}
    BY <2>2
  <2>4. size[b] = 0
    BY <2>1 DEF SlotsInv
  <2> HIDE DEF target
  <2> QED BY <2>1, <2>3, <2>4, <1>8, FS_EmptySet
<1>20. ASSUME NEW r \in Used PROVE size'[target(r)] = size[target(r)] + 1
  <2>1. {q \in Used : target(q) = target(r)} = {r}
    BY <1>12
  <2>2. target(r) \in Blocks
    BY <1>11
  <2> HIDE DEF target
  <2>3. Cardinality({q \in Used : target(q) = target(r)}) = 1
    BY <2>1, FS_Singleton
  <2> QED BY <2>2, <2>3, <1>8
<1>21. ASSUME NEW r \in Used
       PROVE  /\ \A c \in Cols : c > Column(r)' => table'[r][c] = NoBlock
              /\ (Column(r)' \in Cols /\ table'[r][Column(r)'] # NoBlock) =>
                    size'[table'[r][Column(r)']] <= len'[r] % BlockSize
  <2> DEFINE l == len[r]
  <2>1. l \in Nat /\ len'[r] = l + 1 /\ r \in Rows
    BY <1>1, <1>2 DEF KVTypeOK
  <2>2. Column(r)' = (l + 1) \div BlockSize /\ Column(r) = l \div BlockSize
    BY <2>1 DEF Column
  <2>3. l % BlockSize \in 0..(BlockSize - 1) /\ l \div BlockSize \in Nat
    BY <2>1, Division
  <2>4. /\ (l + 1) % BlockSize = IF l % BlockSize = BlockSize - 1 THEN 0 ELSE (l % BlockSize) + 1
        /\ (l + 1) \div BlockSize = IF l % BlockSize = BlockSize - 1 THEN l \div BlockSize + 1
                                     ELSE l \div BlockSize
    BY <2>1, Division
  <2>5. /\ \A c \in Cols : c > Column(r) => table[r][c] = NoBlock
        /\ (Column(r) \in Cols /\ table[r][Column(r)] # NoBlock) =>
              size[table[r][Column(r)]] <= l % BlockSize
    BY <1>1 DEF SlotsInv
  <2> HIDE DEF l
  <2>6. ASSUME NEW c \in Cols, c > Column(r) PROVE table'[r][c] = NoBlock
    <3>1. c # Column(r)
      BY <2>2, <2>3, <2>6 DEF Cols
    <3> QED BY <3>1, <2>1, <2>5, <2>6, <1>4
  <2>7. ASSUME NEW c \in Cols, c > Column(r)' PROVE c > Column(r)
    <3>1. c \in Nat
      BY DEF Cols
    <3> QED BY <3>1, <2>2, <2>3, <2>4, <2>7
  <2>8. ASSUME Column(r)' \in Cols, table'[r][Column(r)'] # NoBlock
        PROVE  size'[table'[r][Column(r)']] <= len'[r] % BlockSize
    <3>1. ~((l + 1) \div BlockSize > l \div BlockSize)
      BY <2>2, <2>6, <2>8
    <3>2. Column(r)' = Column(r) /\ len'[r] % BlockSize = (l % BlockSize) + 1
      BY <3>1, <2>1, <2>2, <2>3, <2>4
    <3>3. table'[r][Column(r)] = target(r)
      BY <2>1, <1>3, <1>4
    <3>4. size[target(r)] <= l % BlockSize
      <4>1. CASE r \in Wanting
        <5>1. size[target(r)] = 0
          BY <4>1, <1>3 DEF SlotsInv
        <5> HIDE DEF target
        <5> QED BY <5>1, <2>3
      <4>2. CASE r \notin Wanting
        BY <4>2, <2>5, <1>3 DEF Wanting
      <4> QED BY <4>1, <4>2
    <3>5. size[target(r)] \in Nat
      BY <1>11 DEF KVTypeOK
    <3> HIDE DEF target
    <3>6. size'[target(r)] <= (l % BlockSize) + 1
      BY <3>4, <3>5, <1>20, <2>3
    <3> QED BY <3>2, <3>3, <3>6
  <2> QED BY <2>6, <2>7, <2>8
<1>22. SlotsInv'
  BY <1>2, <1>19, <1>21 DEF SlotsInv
<1>23. FreshInv'
  BY <1>2 DEF FreshInv
<1> QED BY <1>2, <1>10, <1>16, <1>18, <1>22, <1>23

-----------------------------------------------------------------------------
(* The invariant is inductive. *)
LEMMA KVInvInit == KVInit => KVInv
<1> SUFFICES ASSUME KVInit PROVE KVInv
  OBVIOUS
<1>1. EmptyCache /\ pc = "idle"
  BY DEF KVInit, EmptyCache
<1>2. /\ table \in [Rows -> [Cols -> Blocks \union {NoBlock}]]
      /\ free \subseteq Blocks /\ available \in Int
      /\ size \in [Blocks -> Nat]
      /\ BlocksNotShared /\ CounterIsExact
      /\ \A b \in Blocks : size[b] = 0
  BY <1>1, EmptyCacheIsSound
<1>3. KVTypeOK
  BY <1>2, SizesAssumption DEF KVInit, KVTypeOK
<1>4. RequestInv /\ FreshInv /\ SlotsInv
  BY <1>1, <1>2 DEF RequestInv, FreshInv, SlotsInv
<1> QED BY <1>2, <1>3, <1>4 DEF KVInv

LEMMA ResetEmpties ==
  ASSUME KVTypeOK, Reset
  PROVE  /\ table' \in [Rows -> [Cols -> Blocks \union {NoBlock}]]
         /\ free' \subseteq Blocks /\ available' \in Int
         /\ size' \in [Blocks -> Nat] /\ refs' \in [Blocks -> Nat]
         /\ BlocksNotShared' /\ CounterIsExact'
         /\ \A r \in Rows, c \in Cols : table'[r][c] = NoBlock
         /\ \A b \in Blocks : size'[b] = 0
         /\ free' = Blocks
<1>1. /\ table' = [r \in Rows |-> [c \in Cols |-> NoBlock]]
      /\ free' = Blocks /\ available' = NumBlocks
      /\ size' = [b \in Blocks |-> 0] /\ refs' = refs
  BY DEF Reset
<1>2. \A r \in Rows, c \in Cols : table'[r][c] = NoBlock
  BY <1>1
<1>3. Held' = {}
  BY <1>2 DEF Held
<1>4. Cardinality(Held') = 0
  BY <1>3, FS_EmptySet
<1>5. CounterIsExact'
  BY <1>1, <1>4, Places DEF CounterIsExact, NumBlocks
<1>6. BlocksNotShared'
  BY <1>3 DEF BlocksNotShared
<1>7. refs' \in [Blocks -> Nat]
  BY <1>1 DEF KVTypeOK
<1> QED BY <1>1, <1>2, <1>5, <1>6, <1>7, Places

LEMMA BeginIsSound ==
  ASSUME KVInv, NEW bs \in 1..MaxBatch, NEW ls \in [0..(bs - 1) -> 1..MaxSeq],
         NEW m \in 1..MaxSeq, Permitted(bs, ls, m), Begin(bs, ls, m)
  PROVE  KVInv'
<1> USE DEF KVInv
<1>1. Reset /\ pc' = "prefill" /\ batch' = bs /\ left' = m
  BY DEF Begin
<1>2. bs \in Nat /\ bs > 0 /\ bs <= MaxBatch /\ m \in Nat /\ m > 0 /\ MaxSeq \in Nat /\ MaxBatch \in Nat
  BY SizesAssumption
<1>3. \A r \in Rows : r \in Nat /\ len'[r] = IF r < bs THEN ls[r] ELSE 0
  BY DEF Begin, Rows
<1>4. \A r \in 0..(bs - 1) : r \in Rows /\ ls[r] \in Nat /\ ls[r] > 0 /\ r < bs
  BY <1>2 DEF Rows
<1>5. len' \in [Rows -> Nat]
  <2>1. \A r \in Rows : r < bs => r \in 0..(bs - 1)
    BY <1>2, <1>3
  <2>2. \A r \in Rows : (IF r < bs THEN ls[r] ELSE 0) \in Nat
    BY <2>1, <1>4
  <2> QED BY <2>2 DEF Begin
<1>6. KVTypeOK'
  BY <1>1, <1>2, <1>5, ResetEmpties DEF KVTypeOK
<1>7. RequestInv'
  <2>1. Used' = 0..(bs - 1)
    BY <1>1 DEF Used
  <2>2. \A r \in 0..(bs - 1) : len'[r] = ls[r] /\ ls[r] + m <= MaxSeq
    BY <1>3, <1>4 DEF Permitted
  <2> QED BY <2>1, <2>2, <1>1, <1>2, <1>4 DEF RequestInv
<1>8. FreshInv' /\ SlotsInv'
  BY <1>1, ResetEmpties DEF FreshInv, SlotsInv
<1> QED BY <1>1, <1>6, <1>7, <1>8, ResetEmpties

(* A reset under a running request leaves its rows without blocks. *)
LEMMA ResetUnderIsSound ==
  ASSUME KVInv, ResetUnder
  PROVE  KVInv'
<1> USE DEF KVInv
<1>1. Reset /\ pc' = pc /\ batch' = batch /\ len' = len /\ left' = left
  BY DEF ResetUnder, request
<1>2. KVTypeOK'
  BY <1>1, ResetEmpties DEF KVTypeOK
<1>3. RequestInv' /\ Used' = Used
  BY <1>1 DEF RequestInv, Used
<1>4. FreshInv'
  BY <1>1, ResetEmpties DEF FreshInv
<1>5. SlotsInv'
  <2>1. ASSUME pc = "decode", NEW r \in Used
        PROVE  \A c \in Cols : table'[r][c] = NoBlock
    <3>1. r \in Rows
      BY <2>1, LengthsWithinMaximum
    <3> QED BY <1>1, <3>1, ResetEmpties
  <2>2. \A b \in free' : size'[b] = 0
    BY <1>1, ResetEmpties
  <2> QED BY <1>1, <1>3, <2>1, <2>2 DEF SlotsInv
<1> QED BY <1>1, <1>2, <1>3, <1>4, <1>5, ResetEmpties

LEMMA KVInvNext == KVInv /\ [KVNext]_kvVars => KVInv'
<1> SUFFICES ASSUME KVInv, [KVNext]_kvVars PROVE KVInv'
  OBVIOUS
<1>1. CASE \E bs \in 1..MaxBatch : \E ls \in [0..(bs - 1) -> 1..MaxSeq], m \in 1..MaxSeq :
             /\ \A b \in Blocks : refs[b] < MaxRefs
             /\ Permitted(bs, ls, m)
             /\ Begin(bs, ls, m)
  BY <1>1, BeginIsSound
<1>2. CASE Prefill
  BY <1>2, PrefillIsSound
<1>3. CASE Decode
  BY <1>3, DecodeIsSound
<1>4. CASE End
  <2>1. pc' = "idle" /\ UNCHANGED <<batch, len, left, table, free, available, size, refs>>
    BY <1>4 DEF End, cache
  <2>2. Held' = Held /\ KVTypeOK'
    BY <2>1 DEF Held, KVInv, KVTypeOK
  <2>3. BlocksNotShared' /\ CounterIsExact'
    BY <2>1, <2>2 DEF KVInv, BlocksNotShared, CounterIsExact, NumBlocks
  <2>4. RequestInv' /\ FreshInv' /\ SlotsInv'
    BY <2>1 DEF KVInv, RequestInv, FreshInv, SlotsInv
  <2> QED BY <2>2, <2>3, <2>4 DEF KVInv
<1>5. CASE ResetUnder
  BY <1>5, ResetUnderIsSound
<1>6. CASE UNCHANGED kvVars
  <2>1. UNCHANGED <<pc, batch, len, left, table, free, available, size, refs>>
    BY <1>6 DEF kvVars, request, cache
  <2>2. Held' = Held /\ Used' = Used /\ KVTypeOK'
    BY <2>1 DEF Held, Used, KVInv, KVTypeOK
  <2>3. BlocksNotShared' /\ CounterIsExact'
    BY <2>1, <2>2 DEF KVInv, BlocksNotShared, CounterIsExact, NumBlocks
  <2>4. RequestInv' /\ FreshInv' /\ SlotsInv'
    BY <2>1, <2>2 DEF KVInv, RequestInv, FreshInv, SlotsInv, Column
  <2> QED BY <2>2, <2>3, <2>4 DEF KVInv
<1> QED BY <1>1, <1>2, <1>3, <1>4, <1>5, <1>6 DEF KVNext

THEOREM CacheInvariant == KVSpec => []KVInv
BY KVInvInit, KVInvNext, PTL DEF KVSpec

-----------------------------------------------------------------------------
(* Theorems. *)

(* The tables name blocks and nothing else, and no size or count is        *)
(* negative, whatever the sizes of the cache and of the requests.          *)
THEOREM CacheTypes == KVSpec => []KVTypeOK
<1>1. KVInv => KVTypeOK
  BY DEF KVInv
<1> QED BY <1>1, CacheInvariant, PTL

(* No block of the cache belongs to two sequences, or to one and the free  *)
(* ones, after any number of requests and of resets under a running one.   *)
THEOREM NoBlockIsShared == KVSpec => []BlocksNotShared
<1>1. KVInv => BlocksNotShared
  BY DEF KVInv
<1> QED BY <1>1, CacheInvariant, PTL

(* No block leaks: each is free or in a table, and _available_blocks is    *)
(* the number of the free ones.                                            *)
THEOREM NoBlockLeaks == KVSpec => []CounterIsExact
<1>1. KVInv => CounterIsExact
  BY DEF KVInv
<1> QED BY <1>1, CacheInvariant, PTL

(* The prompts of a request that the API server lets through always have   *)
(* contiguous room: the other branch of allocate_cache_blocks_to_tables,   *)
(* and the one for too few blocks, are never taken.                        *)
THEOREM ContiguousRoom == KVSpec => []PromptsFit
<1>1. KVInv => PromptsFit
  BY WindowAtStart DEF KVInv, PromptsFit
<1> QED BY <1>1, CacheInvariant, PTL

(* The next tokens of a running request always have columns, blocks and    *)
(* slots: no sequence is put back for want of blocks, and the assertion of *)
(* _allocate_on_block holds.                                               *)
THEOREM RoomForEveryToken == KVSpec => []PoolSuffices
<1>1. KVInv => PoolSuffices
  <2> SUFFICES ASSUME KVInv, pc = "decode", left > 0
               PROVE  /\ \A r \in Used : Column(r) \in Cols
                      /\ Cardinality(Wanting) <= available
                      /\ \A r \in Used \ Wanting : size[table[r][Column(r)]] < BlockSize
    BY DEF PoolSuffices
  <2>1. Cardinality(Wanting) <= available /\ \A r \in Used : Column(r) \in Cols
    BY DecodeHasRoom DEF KVInv, CounterIsExact
  <2>2. ASSUME NEW r \in Used \ Wanting PROVE size[table[r][Column(r)]] < BlockSize
    <3>1. r \in Rows /\ len[r] \in Nat
      BY LengthsWithinMaximum DEF KVInv, KVTypeOK
    <3>2. Column(r) \in Cols /\ table[r][Column(r)] # NoBlock
      BY <2>1 DEF Wanting
    <3>3. size[table[r][Column(r)]] <= len[r] % BlockSize
      BY <3>2 DEF KVInv, SlotsInv
    <3>4. table[r][Column(r)] \in Blocks
      BY <3>1, <3>2 DEF KVInv, KVTypeOK
    <3>5. size[table[r][Column(r)]] \in Nat
      BY <3>4 DEF KVInv, KVTypeOK
    <3>6. len[r] % BlockSize \in 0..(BlockSize - 1)
      BY <3>1, Division
    <3> QED BY <3>3, <3>5, <3>6, SizesAssumption
  <2> QED BY <2>1, <2>2
<1> QED BY <1>1, CacheInvariant, PTL
=============================================================================
