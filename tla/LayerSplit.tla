------------------------------- MODULE LayerSplit -------------------------------
(***************************************************************************)
(* How the layers of the model are divided: compute_proportions of         *)
(* hardware.py, the split specifications of pipeline_split, and the        *)
(* loading of a stage's weights from a sharded checkpoint.                 *)
(*                                                                         *)
(* Proportions are integers over a common denominator: hundredths, or one  *)
(* n-th each.                                                              *)
(* Memories are in tenths of a GB.                                         *)
(***************************************************************************)
EXTENDS Sums

SumFirst(s, k) == SumOver(s, 1..k)
Total(s) == SumFirst(s, Len(s))

(* w / total in hundredths; a tie goes to the even one. *)
Hundredths(w, total) ==
  LET q == (100 * w) \div total
      rest == 2 * ((100 * w) % total)
  IN IF rest > total \/ (rest = total /\ q % 2 = 1) THEN q + 1 ELSE q

(* get_hardware_info, for a machine with the given memories.  `cuda' is    *)
(* that of its first GPU, 0 without one; without psutil a guess is used.   *)
(* Left out are the calls that raise: an output of nvidia-smi that is no   *)
(* number, and a GPU that only torch sees.                                 *)
Machines == [cuda : Nat, mps : BOOLEAN, psutil : BOOLEAN, ram : Nat, free : Nat]

Unified(machine) == IF machine.psutil THEN machine.ram ELSE 80
Available(machine) == IF machine.psutil THEN machine.free ELSE 40

HardwareInfo(machine) ==
  IF machine.cuda > 0 THEN [type |-> "cuda", memory |-> machine.cuda]
  ELSE IF machine.mps THEN [type |-> "mps", memory |-> Unified(machine)]
  ELSE [type |-> "cpu", memory |-> Available(machine)]

Factor == [cuda |-> 10, mps |-> 4, cpu |-> 1]

(* compute_proportions, for hardware[i] of rank i - 1.  The last one takes *)
(* what the others leave, and may be 0 or less.                            *)
ComputeProportions(hardware) ==
  LET n == Len(hardware)
      weights == [i \in 1..n |-> hardware[i].memory * Factor[hardware[i].type]]
      total == Total(weights)
      rounded == [i \in 1..n |-> Hundredths(weights[i], total)]
  IN IF total = 0 THEN [parts |-> [i \in 1..n |-> 1], of |-> n]
     ELSE [parts |-> [rounded EXCEPT ![n] = 100 - SumFirst(rounded, n - 1)], of |-> 100]

(* get_layers_per_stage without proportions: the middle stages take what   *)
(* is left over.                                                           *)
EvenSplit(layers, n) ==
  LET over == layers % n
      first == n \div 2 - over \div 2
  IN [i \in 1..n |-> layers \div n + IF i - 1 \in first..(first + over - 1) THEN 1 ELSE 0]

(* int(), which rounds towards zero. *)
Truncate(a, b) == IF a >= 0 THEN a \div b ELSE -((-a) \div b)

(* Mutant: a stage may be left without a layer. *)
GiveNone(counts) == counts

(* Every stage with 0 layers takes one from the first of the largest; one  *)
(* with less than 0 does not.                                              *)
GiveEachOne(counts) ==
  LET give[i \in 0..Len(counts)] ==
        IF i = 0 THEN counts
        ELSE LET before == give[i - 1]
                 donor == Min({d \in DOMAIN before : \A j \in DOMAIN before : before[j] <= before[d]})
             IN IF before[i] # 0 THEN before
                ELSE [[before EXCEPT ![donor] = @ - 1] EXCEPT ![i] = 1]
  IN give[Len(counts)]

(* _get_layers_proportional: rounded down, what is left over to the        *)
(* largest fractions, of equal ones to the later stage.                    *)
ProportionalSplit(layers, p) ==
  LET n == Len(p.parts)
      floor == [i \in 1..n |-> Truncate(p.parts[i] * layers, p.of)]
      fraction(i) == p.parts[i] * layers - p.of * floor[i]
      ahead(i) == {j \in 1..n : fraction(j) > fraction(i) \/ (fraction(j) = fraction(i) /\ j > i)}
      over == layers - Total(floor)
  IN GiveEachOne([i \in 1..n |-> floor[i] + IF Cardinality(ahead(i)) < over THEN 1 ELSE 0])

(* get_stage_layer_indices: the layers of a stage, counted from 1 here. *)
StageLayers(counts, rank) ==
  LET before == SumFirst(counts, rank)
  IN (before + 1)..(before + counts[rank + 1])

(* get_stage_layers without the head.  "rotary", which every stage keeps,  *)
(* has no parameters.                                                      *)
Body(counts, rank) ==
  {<<"layer", k>> : k \in StageLayers(counts, rank)}
    \union (IF rank = 0 THEN {<<"embed", 0>>} ELSE {})
    \union (IF rank = Len(counts) - 1 THEN {<<"norm", 0>>} ELSE {})

(* The leaf keeps the head, and the embedding if they share their weights. *)
HeadOf(counts, rank, tied) ==
  IF rank # Len(counts) - 1 THEN {}
  ELSE {<<"head", 0>>} \union (IF tied THEN {<<"embed", 0>>} ELSE {})

(* get_stage_layers of the model classes with a head.                      *)
LlamaKeeps(counts, rank, tied) == Body(counts, rank) \union HeadOf(counts, rank, tied)
QwenKeeps(counts, rank, tied) == Body(counts, rank) \union HeadOf(counts, rank, tied)
MistralKeeps(counts, rank, tied) == Body(counts, rank) \union HeadOf(counts, rank, tied)
Phi3Keeps(counts, rank, tied) == Body(counts, rank) \union HeadOf(counts, rank, tied)

(* name_spec_mapping.  What is not kept is dropped by set_tensors_to_none. *)
(* (The classes for Phi-1 and Phi-2 ask for a module that these models do  *)
(* not have; their leaf does not start.)                                   *)
Families == {"llama", "qwen2", "mistral", "phi3"}
Held(family, tied, counts, rank) ==
  CASE family = "llama" -> LlamaKeeps(counts, rank, tied)
    [] family = "qwen2" -> QwenKeeps(counts, rank, tied)
    [] family = "mistral" -> MistralKeeps(counts, rank, tied)
    [] family = "phi3" -> Phi3Keeps(counts, rank, tied)

(* The parameters of a model, and those of its checkpoint: a head that     *)
(* shares its weights is not stored.                                       *)
Whole(layers) == {<<"layer", k>> : k \in 1..layers} \union {<<"embed", 0>>, <<"norm", 0>>, <<"head", 0>>}
Stored(tied, layers) == Whole(layers) \ (IF tied THEN {<<"head", 0>>} ELSE {})

(* load_stage_weights_from_checkpoint: each file that holds one of the     *)
(* stage's parameters is read once, and gives it all it keeps of it; a     *)
(* head that shares its weights has those of the embedding.                *)
Loaded(held, fileOf) ==
  LET stored == held \intersect DOMAIN fileOf
      read == {p \in stored : fileOf[p] \in {fileOf[q] : q \in stored}}
  IN read \union (IF <<"embed", 0>> \in read /\ <<"head", 0>> \notin DOMAIN fileOf
                  THEN {<<"head", 0>>} ELSE {})

=============================================================================
