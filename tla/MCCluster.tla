------------------------------ MODULE MCCluster ------------------------------
(***************************************************************************)
(* Cluster for TLC, and what the source says of it that it does not keep.  *)
(***************************************************************************)
EXTENDS Cluster

Failing(kinds) == [k \in FailureKinds |-> IF k \in kinds THEN 1 ELSE 0]

(* Any two failures; what starts again has stopped before. *)
PairsOfFailures ==
  {f \in [FailureKinds -> 0 .. 2] :
     /\ f["crash"] + f["restart"] + f["shutdown"] + f["lapse"] + f["loss"] = 2
     /\ f["restart"] <= f["crash"] + f["shutdown"]}

StopsAndPairs == {Failing({"crash"}), Failing({"shutdown"})} \union PairsOfFailures
OneLoss == {Failing({"loss"})}

(* Either all three workers start and one of them stops, so that two       *)
(* survivors meet at the barrier; or two workers start and any two failures*)
(* happen, a start of the third worker among them.                         *)
MCInit ==
  /\ ClusterInit
  /\ IF faults \in PairsOfFailures THEN \A w \in Nodes : Alive(w) <=> w # 3
                                   ELSE \A w \in Nodes : Alive(w)

MCSpec == MCInit /\ [][ClusterNext]_vars /\ Fairness

(* What the comment in configure_pipeline says of the peers it is given,   *)
(* "{rank_int: ip_string}": every key is an integer.                       *)
PeersKeyedByRank == \A w \in Nodes : cfg[w] # NoConfig => ~Rankless(cfg[w])
=============================================================================
