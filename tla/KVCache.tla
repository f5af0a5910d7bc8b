-------------------------------- MODULE KVCache --------------------------------
(***************************************************************************)
(* The bookkeeping of the key/value cache: CacheManager and CacheBlock of  *)
(* inference/kv_cache, driven by InferenceEngine.generate.  A request      *)
(* resets the cache, allocates blocks for its prompts, and then, before    *)
(* every further step, room for one token per sequence.                    *)
(*                                                                         *)
(* A worker whose rank has changed to 0 still has the receive loop of its  *)
(* old rank, which calls generate() on the root's engine: it resets the    *)
(* cache and fails, whatever request is running (ResetUnder).              *)
(*                                                                         *)
(* Prompt and new tokens together are within the maximum, which the API    *)
(* server checks.  For such requests the branches for a pool that is too   *)
(* small or has no contiguous room are dead: PoolSuffices and PromptsFit   *)
(* say so, and the actions leave these branches out.                       *)
(***************************************************************************)
EXTENDS Integers, FiniteSets, FiniteSetsExt

CONSTANTS MaxBatch,   \* max_batch_size
          MaxSeq,     \* max_seq_length_during_gen
          BlockSize,  \* block_size
          MaxRefs     \* bound: requests, counted in references to a block

ASSUME SizesAssumption ==
  MaxBatch \in Nat \ {0} /\ MaxSeq \in Nat \ {0} /\ BlockSize \in Nat \ {0}

(* Blocks that hold len tokens. *)
BlocksFor(len) == (len + BlockSize - 1) \div BlockSize

Rows == 0..(MaxBatch - 1)
Cols == 0..(BlocksFor(MaxSeq) - 1)
NumBlocks == BlocksFor(MaxSeq) * MaxBatch
Blocks == 0..(NumBlocks - 1)
NoBlock == -1

VARIABLES pc,         \* "idle", "prefill" after a reset, or "decode"
          batch,      \* number of sequences of the request
          len,        \* context_lengths
          left,       \* steps that may still come
          table,      \* _block_tables
          free,       \* blocks whose _block_states is 1
          available,  \* _available_blocks
          size,       \* allocated_size of the blocks
          refs        \* ref_count of the blocks

request == <<pc, batch, len, left>>
cache == <<table, free, available, size, refs>>
kvVars == <<request, cache>>

Used == 0..(batch - 1)

KVInit ==
  /\ pc = "idle"
  /\ batch = 0
  /\ len = [r \in Rows |-> 0]
  /\ left = 0
  /\ table = [r \in Rows |-> [c \in Cols |-> NoBlock]]
  /\ free = Blocks
  /\ available = NumBlocks
  /\ size = [b \in Blocks |-> 0]
  /\ refs = [b \in Blocks |-> 0]

-----------------------------------------------------------------------------
(* Mutant: the sizes of the blocks are not reset. *)
ResetKeepsSizes ==
  /\ table' = [r \in Rows |-> [c \in Cols |-> NoBlock]]
  /\ free' = Blocks
  /\ available' = NumBlocks
  /\ UNCHANGED <<size, refs>>

(* Mutant: the states of the blocks are not reset. *)
ResetKeepsBlocks ==
  /\ table' = [r \in Rows |-> [c \in Cols |-> NoBlock]]
  /\ available' = NumBlocks
  /\ size' = [b \in Blocks |-> 0]
  /\ UNCHANGED <<free, refs>>

(* reset_kv_cache.  It assigns _ref_count, which nobody reads: ref_count   *)
(* keeps what earlier requests have added to it.                           *)
Reset ==
  /\ table' = [r \in Rows |-> [c \in Cols |-> NoBlock]]
  /\ free' = Blocks
  /\ available' = NumBlocks
  /\ size' = [b \in Blocks |-> 0]
  /\ UNCHANGED refs

(* generate at its beginning, for prompts of the lengths ls and m new      *)
(* tokens at most.                                                         *)
Begin(bs, ls, m) ==
  /\ pc = "idle"
  /\ Reset
  /\ pc' = "prefill"
  /\ batch' = bs
  /\ len' = [r \in Rows |-> IF r < bs THEN ls[r] ELSE 0]
  /\ left' = m

Need(r) == IF r \in Used THEN BlocksFor(len[r]) ELSE 0

(* The blocks of the rows before r, which lie one after the other. *)
Offset(r) == Cardinality({x \in Rows \X Cols : x[1] < r /\ x[2] < Need(x[1])})
Total == Offset(batch)

Windows == {s \in Blocks : s + Total <= NumBlocks /\ s..(s + Total - 1) \subseteq free}

(* What is allocated on the last block of a sequence. *)
LastSize(n) == IF n % BlockSize = 0 THEN BlockSize ELSE n % BlockSize

(* Mutant: the blocks of a row begin one too late. *)
RowOfLate(s, r, c) == s + Offset(r) + c + 1

(* The blocks of a row are the next ones of the window that begins at s.   *)
RowOf(s, r, c) == s + Offset(r) + c

(* allocate_cache_blocks_to_tables: the first window that is large enough. *)
Prefill ==
  /\ pc = "prefill"
  /\ LET s == Min(Windows)
         last == {RowOf(s, r, Need(r) - 1) : r \in Used}
         owner(b) == CHOOSE r \in Used : RowOf(s, r, Need(r) - 1) = b
         taken == s..(s + Total - 1)
     IN /\ table' = [r \in Rows |-> [c \in Cols |->
                       IF r \in Used /\ c < Need(r) THEN RowOf(s, r, c) ELSE table[r][c]]]
        /\ free' = free \ taken
        /\ available' = available - Total
        /\ size' = [b \in Blocks |->
                      IF b \in last THEN size[b] + LastSize(len[owner(b)])
                      ELSE IF b \in taken THEN size[b] + BlockSize ELSE size[b]]
        /\ refs' = [b \in Blocks |-> IF b \in taken THEN refs[b] + 1 ELSE refs[b]]
  /\ pc' = "decode"
  /\ len' = [r \in Rows |-> IF r \in Used THEN len[r] + 1 ELSE len[r]]
  /\ left' = left - 1
  /\ UNCHANGED batch

(* The column a row's next token is counted in. *)
Column(r) == len[r] \div BlockSize
Wanting == {r \in Used : table[r][Column(r)] = NoBlock}

(* The k-th wanting row gets the k-th free block. *)
Rank(x, S) == Cardinality({y \in S : y < x})

(* Mutant: every wanting row gets the first free block. *)
NewBlockFirst(r) == Min(free)

NewBlock(r) == CHOOSE b \in free : Rank(b, free) = Rank(r, Wanting)

(* Mutant: the counter is decreased once for the batch. *)
TakenOnce(S) == IF S = {} THEN 0 ELSE 1

TakenCount(S) == Cardinality(S)

(* allocate_cache_blocks_to_tables_for_new_tokens, and the step after it.  *)
Decode ==
  /\ pc = "decode" /\ left > 0
  /\ LET given == [r \in Wanting |-> NewBlock(r)]
         taken == {given[r] : r \in Wanting}
         target == [r \in Used |-> IF r \in Wanting THEN given[r] ELSE table[r][Column(r)]]
     IN /\ table' = [r \in Rows |-> IF r \in Wanting
                                    THEN [table[r] EXCEPT ![Column(r)] = given[r]]
                                    ELSE table[r]]
        /\ free' = free \ taken
        /\ available' = available - TakenCount(Wanting)
        /\ refs' = [b \in Blocks |-> IF b \in taken THEN refs[b] + 1 ELSE refs[b]]
        /\ size' = [b \in Blocks |-> size[b] + Cardinality({r \in Used : target[r] = b})]
  /\ len' = [r \in Rows |-> IF r \in Used THEN len[r] + 1 ELSE len[r]]
  /\ left' = left - 1
  /\ UNCHANGED <<pc, batch>>

(* The generation is complete, or has failed somewhere else. *)
End == pc # "idle" /\ pc' = "idle" /\ UNCHANGED <<batch, len, left, cache>>

ResetUnder == Reset /\ UNCHANGED request

(* The lengths that the API server lets through: validate_request. *)
Permitted(bs, ls, m) == \A r \in 0..(bs - 1) : ls[r] + m <= MaxSeq

KVNext ==
  \/ \E bs \in 1..MaxBatch : \E ls \in [0..(bs - 1) -> 1..MaxSeq], m \in 1..MaxSeq :
       /\ \A b \in Blocks : refs[b] < MaxRefs
       /\ Permitted(bs, ls, m)
       /\ Begin(bs, ls, m)
  \/ Prefill
  \/ Decode
  \/ End
  \/ ResetUnder

KVSpec == KVInit /\ [][KVNext]_kvVars

-----------------------------------------------------------------------------
(* Properties. *)

Held == {x \in Rows \X Cols : table[x[1]][x[2]] # NoBlock}

KVTypeOK ==
  /\ pc \in {"idle", "prefill", "decode"}
  /\ batch \in 0..MaxBatch
  /\ len \in [Rows -> Nat]
  /\ left \in Nat
  /\ table \in [Rows -> [Cols -> Blocks \union {NoBlock}]]
  /\ free \subseteq Blocks
  /\ available \in Int
  /\ size \in [Blocks -> Nat]
  /\ refs \in [Blocks -> Nat]

(* No block belongs to two sequences, or to one and the free ones, over    *)
(* any number of requests and of resets under a running one: a sequence    *)
(* would overwrite the keys of another.                                    *)
BlocksNotShared ==
  /\ \A x, y \in Held : x # y => table[x[1]][x[2]] # table[y[1]][y[2]]
  /\ \A x \in Held : table[x[1]][x[2]] \notin free

(* Every block is free or in a table, and the counter agrees: none leaks.  *)
CounterIsExact ==
  /\ available = Cardinality(free)
  /\ Cardinality(Held) + Cardinality(free) = NumBlocks

(* The prompts of a request of the permitted size have contiguous room.    *)
PromptsFit == pc = "prefill" => Windows # {}

(* While a request runs, its next tokens have columns in the table, blocks *)
(* for the sequences that need one, and a slot in the others: neither the  *)
(* assertion of _allocate_on_block nor the branch that takes the blocks of *)
(* a sequence away is ever reached.                                        *)
PoolSuffices ==
  (pc = "decode" /\ left > 0) =>
    /\ \A r \in Used : Column(r) \in Cols
    /\ Cardinality(Wanting) <= available
    /\ \A r \in Used \ Wanting : size[table[r][Column(r)]] < BlockSize

=============================================================================
