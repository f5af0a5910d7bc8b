-------------------------------- MODULE Formation --------------------------------
(***************************************************************************)
(* clusterize of operations/utils.py, with genetic.py, cluster.py and      *)
(* node.py of operations: providers are grouped into clusters that each    *)
(* hold the whole model, and every trainable parameter is assigned to a    *)
(* ring of providers, one ring per provider of the largest cluster.  The   *)
(* slices of parameter names that node.py cuts from the stored metadata    *)
(* are part of it.                                                         *)
(*                                                                         *)
(* Parameters are 1 .. Params, in the order of the model; each is used by  *)
(* one node of its graph, and the model has no buffers.                    *)
(***************************************************************************)
EXTENDS Sums

CONSTANTS Ram,           \* Ram[n], memory of provider n, a sequence
          Bandwidth,     \* Bandwidth[n]
          ModelSize,     \* full_model_size
          MaxClusters,   \* max_clusters
          WorstFitness,  \* the first value of best_fitness
          Params,
          Models         \* possible sizes of the parameters

ASSUME FormationAssumption ==
  /\ {Ram, Bandwidth} \subseteq Seq(Nat \ {0})
  /\ Len(Ram) > 0 /\ Len(Bandwidth) = Len(Ram)
  /\ {ModelSize, MaxClusters, WorstFitness, Params} \subseteq Nat \ {0}
  /\ Models \subseteq [1..Params -> Nat \ {0}]

Providers == DOMAIN Ram
Keys == 1..Params
Individuals == [Providers -> 0..(MaxClusters - 1)]
NoIndividual == <<>>

VARIABLES stage,       \* "search", "cut", "formed" or "failed"
          best,        \* best_individual
          bestFitness, \* best_fitness
          members,     \* nodes of each cluster, in their order
          keys,        \* trainable_param_keys of each provider
          ringKeys,    \* ring_param_keys of each provider: ring -> parameters
          address      \* param_address_mapping of each provider

formationVars == <<stage, best, bestFitness, members, keys, ringKeys, address>>

(* A pool without enough memory for the model is refused at once. *)
FormationInit ==
  /\ stage = IF SumOver(Ram, Providers) > ModelSize THEN "search" ELSE "failed"
  /\ best = NoIndividual
  /\ bestFitness = WorstFitness
  /\ members = <<>>
  /\ keys = [n \in Providers |-> {}]
  /\ ringKeys = [n \in Providers |-> <<>>]
  /\ address = [n \in Providers |-> <<>>]

-----------------------------------------------------------------------------
(* The genetic search. *)

InCluster(individual, c) == {n \in Providers : individual[n] = c}
RamOf(S) == SumOver(Ram, S)
SpeedOf(S) == SumOver([n \in Providers |-> Ram[n] \div Bandwidth[n]], S)

(* calculate_fitness. *)
Fitness(individual) ==
  LET ids == {individual[n] : n \in Providers}
      lack == [c \in ids |-> LET ram == RamOf(InCluster(individual, c))
                             IN IF ram <= ModelSize THEN ModelSize - ram ELSE 0]
      speeds == {SpeedOf(InCluster(individual, c)) : c \in ids}
  IN 100 * SumOver(lack, ids) + Max(speeds) - Min(speeds)

(* Mutant: the last individual replaces the best. *)
EvaluateLast ==
  /\ stage = "search"
  /\ \E individual \in Individuals :
       best' = individual /\ bestFitness' = Fitness(individual)
  /\ UNCHANGED <<stage, members, keys, ringKeys, address>>

(* One individual of one generation.  The first population is random, and  *)
(* mutate may turn a child of any parents into any individual.             *)
Evaluate ==
  /\ stage = "search"
  /\ \E individual \in Individuals :
       /\ Fitness(individual) < bestFitness
       /\ best' = individual
       /\ bestFitness' = Fitness(individual)
  /\ UNCHANGED <<stage, members, keys, ringKeys, address>>

(* A set of numbers in ascending order: before the i-th are i - 1 others. *)
Sorted(S) == [i \in 1..Cardinality(S) |-> CHOOSE x \in S : Cardinality({y \in S : y < x}) = i - 1]

(* decode_solution, and the renumbering of cluster_formation. *)
Decode(individual) ==
  LET ids == Sorted({individual[n] : n \in Providers})
  IN [i \in DOMAIN ids |-> Sorted(InCluster(individual, ids[i]))]

-----------------------------------------------------------------------------
(* Quotas. *)

(* The provider with the largest remainder, the first of several. *)
Largest(rest) == Min({i \in DOMAIN rest : \A j \in DOMAIN rest : rest[j] <= rest[i]})

(* round_percentages, by largest remainder; the percentages are            *)
(* 100 * rams[i] / total.                                                  *)
RoundPercentages(rams) ==
  LET total == FoldSeq(+, 0, rams)
      floor == [i \in DOMAIN rams |-> (100 * rams[i]) \div total]
      rest == [i \in DOMAIN rams |-> (100 * rams[i]) % total]
      missing == 100 - FoldSeq(+, 0, floor)
      give[m \in 0..missing] ==
        IF m = 0 THEN [parts |-> floor, rest |-> rest]
        ELSE LET before == give[m - 1]
                 i == Largest(before.rest)
             IN [parts |-> [before.parts EXCEPT ![i] = @ + 1],
                 rest |-> [before.rest EXCEPT ![i] = 0]]
  IN give[missing].parts

(* Mutant: the last unit of the remainder is lost. *)
SplitsLosingOne(rams) ==
  LET floor == [i \in DOMAIN rams |-> (ModelSize * RoundPercentages(rams)[i]) \div 100]
      missing == ModelSize - FoldSeq(+, 0, floor)
  IN [i \in DOMAIN rams |-> floor[i] + Cardinality({u \in 0..(missing - 2) : u % Len(rams) = i - 1})]

(* calculate_split_percentages, after its check. *)
Splits(rams) ==
  LET floor == [i \in DOMAIN rams |-> (ModelSize * RoundPercentages(rams)[i]) \div 100]
      missing == ModelSize - FoldSeq(+, 0, floor)
  IN [i \in DOMAIN rams |-> floor[i] + Cardinality({u \in 0..(missing - 1) : u % Len(rams) = i - 1})]

RamsOf(cluster) == [i \in DOMAIN cluster |-> Ram[cluster[i]]]

(* cluster_formation: a cluster without enough memory raises ValueError,   *)
(* and so does a search that has found nothing.                            *)
Form ==
  /\ stage = "search"
  /\ IF best # NoIndividual /\ \A i \in DOMAIN Decode(best) :
          FoldSeq(+, 0, RamsOf(Decode(best)[i])) >= ModelSize
     THEN stage' = "cut" /\ members' = Decode(best)
     ELSE stage' = "failed" /\ UNCHANGED members
  /\ best' = NoIndividual /\ bestFitness' = 0
  /\ UNCHANGED <<keys, ringKeys, address>>

-----------------------------------------------------------------------------
(* Submodels and rings.  K gives every provider its parameters. *)

(* cluster_proportions, in tenths: round(1 / size, 1) each, and what is    *)
(* left over for the last one.                                             *)
Proportions(size) ==
  LET rest == 2 * (10 % size)
      each == 10 \div size + IF rest > size \/ (rest = size /\ (10 \div size) % 2 = 1) THEN 1 ELSE 0
  IN [i \in 1..size |-> IF i < size THEN each ELSE 10 - (size - 1) * each]

(* remake_proportions: a tenth from the largest to its successor. *)
Remade(tenths) ==
  LET i == Min({j \in DOMAIN tenths : \A k \in DOMAIN tenths : tenths[k] <= tenths[j]})
      next == IF i = Len(tenths) THEN 1 ELSE i + 1
  IN [[tenths EXCEPT ![next] = @ + 1] EXCEPT ![i] = @ - 1]

(* _split_on_size_thresholds_with_max_stages: the last parameters of the   *)
(* submodels.  One that is too large for an empty submodel ends it; one    *)
(* that does not fit begins the next.                                      *)
Ends(sizes, tenths) ==
  LET threshold(i) == (tenths[Min({i, Len(tenths)})] * SumOver(sizes, Keys)) \div 10
      scan[k \in 0..Params] ==
        IF k = 0 THEN [size |-> 0, ends |-> <<>>]
        ELSE LET before == scan[k - 1]
                 fits == before.size + sizes[k] <= threshold(Len(before.ends) + 1)
             IN IF fits THEN [before EXCEPT !.size = @ + sizes[k]]
                ELSE IF before.size = 0 THEN [before EXCEPT !.ends = Append(@, k)]
                ELSE [size |-> sizes[k], ends |-> Append(before.ends, k - 1)]
  IN scan[Params].ends

(* The parameters of the i-th of size submodels; ends beyond the size - 1  *)
(* that are needed are not used.                                           *)
Submodel(ends, size, i) ==
  (IF i = 1 THEN 1 ELSE ends[i - 1] + 1)..(IF i = size THEN Params ELSE ends[i])

Position(n, cluster) == CHOOSE i \in DOMAIN cluster : cluster[i] = n
ClusterOf(n) == CHOOSE c \in DOMAIN members : n \in Range(members[c])

RingSize == Len(members)
NextCluster(c) == IF c = RingSize THEN 1 ELSE c + 1

(* max_c: the first of the largest clusters. *)
MaxCluster ==
  Min({c \in DOMAIN members : \A d \in DOMAIN members : Len(members[d]) <= Len(members[c])})

(* all_param_to_ring: one ring per provider of the largest cluster. *)
ParamToRing(K, k) ==
  (CHOOSE i \in DOMAIN members[MaxCluster] : k \in K[members[MaxCluster][i]]) - 1

(* ring_ids: the first parameter of each ring at a provider. *)
RingIds(K, n) ==
  [r \in {ParamToRing(K, k) : k \in K[n]} |-> Min({k \in K[n] : ParamToRing(K, k) = r})]

(* Mutant: the slice of a ring ends one parameter too late. *)
RingParamKeysOneMore(own, ids) ==
  [r \in DOMAIN ids |->
     {k \in own : k >= ids[r] /\ (r = Max(DOMAIN ids) \/ k <= ids[r + 1])}]

(* ring_param_keys of node.py: from the first parameter of the ring up to  *)
(* the one of the next ring.                                               *)
RingParamKeys(own, ids) ==
  [r \in DOMAIN ids |->
     {k \in own : k >= ids[r] /\ (r = Max(DOMAIN ids) \/ k < ids[r + 1])}]

(* address_to_param: the first parameter of n that a provider of the next  *)
(* cluster holds.                                                          *)
AddressToParam(K, n) ==
  LET next == Range(members[NextCluster(ClusterOf(n))])
  IN [m \in {o \in next : K[n] \intersect K[o] # {}} |-> Min(K[n] \intersect K[m])]

(* param_address_mapping of node.py: the last target whose first parameter *)
(* is not after k.                                                         *)
ParamAddressMapping(own, targets) ==
  [k \in own |-> CHOOSE m \in DOMAIN targets :
     /\ targets[m] <= k
     /\ \A o \in DOMAIN targets : targets[o] <= k => targets[o] <= targets[m]]

(* clusterize from split_model_equal on, and the nodes that load what it   *)
(* has stored.  A cluster may have its proportions remade, because the     *)
(* first submodels did not run.  Too few submodels, or one without a       *)
(* parameter in the largest cluster, end in an error.                      *)
CutModel ==
  /\ stage = "cut"
  /\ \E sizes \in Models, remade \in SUBSET DOMAIN members :
       LET tenths(c) == IF c \in remade THEN Remade(Proportions(Len(members[c])))
                        ELSE Proportions(Len(members[c]))
           ends == [c \in DOMAIN members |-> Ends(sizes, tenths(c))]
           own(n) == LET c == ClusterOf(n)
                     IN Submodel(ends[c], Len(members[c]), Position(n, members[c]))
           enough == \A c \in DOMAIN members : Len(ends[c]) >= Len(members[c]) - 1
           K == [n \in Providers |-> IF enough THEN own(n) ELSE {}]
       IN IF enough /\ \A n \in Range(members[MaxCluster]) : K[n] # {}
          THEN /\ stage' = "formed"
               /\ keys' = K
               /\ ringKeys' = [n \in Providers |-> RingParamKeys(K[n], RingIds(K, n))]
               /\ address' = [n \in Providers |-> ParamAddressMapping(K[n], AddressToParam(K, n))]
          ELSE stage' = "failed" /\ UNCHANGED <<keys, ringKeys, address>>
  /\ UNCHANGED <<best, bestFitness, members>>

FormationNext == Evaluate \/ Form \/ CutModel

FormationSpec == FormationInit /\ [][FormationNext]_formationVars

-----------------------------------------------------------------------------
(* Properties. *)

FormationTypeOK ==
  /\ stage \in {"search", "cut", "formed", "failed"}
  /\ best \in Individuals \union {NoIndividual}
  /\ bestFitness \in 0..WorstFitness
  /\ members \in Seq(Seq(Providers))
  /\ stage = "formed" =>
       /\ keys \in [Providers -> SUBSET Keys]
       /\ \A n \in Providers : address[n] \in [keys[n] -> Providers]

(* The quotas of a cluster add up to the model: rounding the percentages   *)
(* and dividing loses nothing, and gives no provider more than a rounding  *)
(* step above its share.                                                   *)
QuotasCoverTheModel ==
  stage = "cut" => \A c \in DOMAIN members :
    LET rams == RamsOf(members[c])
        total == FoldSeq(+, 0, rams)
    IN /\ FoldSeq(+, 0, RoundPercentages(rams)) = 100
       /\ FoldSeq(+, 0, Splits(rams)) = ModelSize
       /\ \A i \in DOMAIN rams : 100 * total * (Splits(rams)[i] - 1) <= ModelSize * (100 * rams[i] + total)

(* Every cluster holds the whole model, and each of its parameters is      *)
(* averaged in exactly one ring, the same in every cluster, and is sent to *)
(* its holder in the next cluster.                                         *)
RingsAgree ==
  stage = "formed" =>
    /\ \A c \in DOMAIN members : \A k \in Keys : \E n \in Range(members[c]) :
         {m \in Range(members[c]) : k \in keys[m]} = {n}
    /\ \A n \in Providers : \A k \in keys[n] :
      /\ {r \in DOMAIN ringKeys[n] : k \in ringKeys[n][r]} = {ParamToRing(keys, k)}
      /\ address[n][k] \in Range(members[NextCluster(ClusterOf(n))])
      /\ k \in keys[address[n][k]]

=============================================================================
