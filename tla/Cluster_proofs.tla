---------------------------- MODULE Cluster_proofs ----------------------------
(***************************************************************************)
(* What the coordinator guarantees for any set of node ids and any order   *)
(* of calls; and the cluster for any set of node ids, any min_nodes and    *)
(* any number of failures of any kind: what it takes from the coordinator, *)
(* and what its workers agree on.                                          *)
(***************************************************************************)
EXTENDS Cluster, FiniteSetTheorems, TLAPS

-----------------------------------------------------------------------------
(* The coordinator. *)

(* Index of an id in a finite set: a natural number. *)
LEMMA PositionIsNat ==
  ASSUME NEW S \in SUBSET Nodes, NEW n \in Nodes
  PROVE  Position(S, n) \in Nat
<1>1. IsFiniteSet({m \in S : m < n})
  BY NodesAssumption, FS_Subset
<1>. QED
  BY <1>1, FS_CardinalityType DEF Position

(* A later id has a larger index. *)
LEMMA PositionIncreases ==
  ASSUME NEW S \in SUBSET Nodes, NEW m \in S, NEW n \in S, m < n
  PROVE  Position(S, m) < Position(S, n)
<1>. DEFINE Below(k) == {j \in S : j < k}
<1>1. IsFiniteSet(Below(n))
  BY NodesAssumption, FS_Subset
<1>2. Below(m) \subseteq Below(n) /\ Below(m) # Below(n)
  <2>1. S \subseteq Int
    BY NodesAssumption
  <2>2. ASSUME NEW j \in Below(m)
        PROVE  j \in Below(n)
    BY <2>1, m < n
  <2>3. m \in Below(n) /\ m \notin Below(m)
    BY <2>1, m < n
  <2>. QED
    BY <2>2, <2>3
<1>3. Cardinality(Below(m)) < Cardinality(Below(n))
  BY <1>1, <1>2, FS_Subset, FS_CardinalityType
<1>. QED
  BY <1>3 DEF Position

(* An index is smaller than the number of members. *)
LEMMA PositionBound ==
  ASSUME NEW S \in SUBSET Nodes, NEW n \in S
  PROVE  Position(S, n) < Cardinality(S)
<1>. DEFINE Below == {j \in S : j < n}
<1>1. IsFiniteSet(S)
  BY NodesAssumption, FS_Subset
<1>2. Below \subseteq S /\ Below # S
  BY NodesAssumption
<1>3. Cardinality(Below) < Cardinality(S)
  BY <1>1, <1>2, FS_Subset, FS_CardinalityType
<1>. QED
  BY <1>3 DEF Position

-----------------------------------------------------------------------------
(* Type correctness of ClusterState. *)
LEMMA RecomputeType ==
  ASSUME CoordTypeOK, NEW S \in SUBSET Nodes, Recompute(S)
  PROVE  /\ rank' \in [Nodes -> Nat \union {NoRank}]
         /\ version' \in Nat
         /\ ready' \subseteq Nat \X Nodes
<1>1. \A n \in S : Position(S, n) \in Nat
  BY PositionIsNat
<1>. QED
  BY <1>1 DEF Recompute, CoordTypeOK

(* Every call to the coordinator keeps the types.                          *)
LEMMA CoordTypeStep == CoordTypeOK /\ [CoordNext]_coordVars => CoordTypeOK'
<1>. SUFFICES ASSUME CoordTypeOK, [CoordNext]_coordVars
              PROVE  CoordTypeOK'
  OBVIOUS
<1>1. ASSUME NEW n \in Nodes, Register(n)
      PROVE  CoordTypeOK'
  <2>1. members' \subseteq Nodes /\ stale' \subseteq members'
    BY <1>1 DEF CoordTypeOK, Register
  <2>2. CASE n \notin members
    <3>1. Recompute(members')
      BY <1>1, <2>2 DEF Register
    <3>. QED
      BY <2>1, <3>1, RecomputeType DEF CoordTypeOK
  <2>3. CASE n \in members
    BY <1>1, <2>1, <2>3 DEF CoordTypeOK, Register, Recompute
  <2>. QED
    BY <2>2, <2>3
<1>2. ASSUME NEW n \in Nodes, Heartbeat(n)
      PROVE  CoordTypeOK'
  BY <1>2 DEF CoordTypeOK, Heartbeat
<1>3. ASSUME NEW n \in Nodes, Leave(n)
      PROVE  CoordTypeOK'
  <2>1. CASE n \in members
    <3>1. members' \subseteq Nodes /\ stale' \subseteq members' /\ Recompute(members')
      BY <1>3, <2>1 DEF CoordTypeOK, Leave
    <3>. QED
      BY <3>1, RecomputeType DEF CoordTypeOK
  <2>2. CASE n \notin members
    BY <1>3, <2>2 DEF CoordTypeOK, Leave, coordVars
  <2>. QED
    BY <2>1, <2>2
<1>4. ASSUME NEW n \in Nodes, Lapse(n)
      PROVE  CoordTypeOK'
  BY <1>4 DEF CoordTypeOK, Lapse
<1>5. ASSUME NEW n \in Nodes, NEW v \in 0 .. version, SignalReady(n, v)
      PROVE  CoordTypeOK'
  BY <1>5 DEF CoordTypeOK, SignalReady
<1>6. ASSUME CheckHeartbeats
      PROVE  CoordTypeOK'
  <2>1. members' \subseteq Nodes /\ stale' \subseteq members' /\ Recompute(members')
    BY <1>6 DEF CoordTypeOK, CheckHeartbeats
  <2>. QED
    BY <2>1, RecomputeType DEF CoordTypeOK
<1>7. CASE UNCHANGED coordVars
  BY <1>7 DEF CoordTypeOK, coordVars
<1>. QED
  BY <1>1, <1>2, <1>3, <1>4, <1>5, <1>6, <1>7 DEF CoordNext

(* Whatever calls arrive in whatever order, ClusterState's fields keep     *)
(* their types.                                                            *)
THEOREM CoordinatorTypes == CoordSpec => []CoordTypeOK
<1>1. CoordInit => CoordTypeOK
  BY DEF CoordInit, CoordTypeOK
<1>. QED
  BY <1>1, CoordTypeStep, PTL DEF CoordSpec

-----------------------------------------------------------------------------
(* Ranks are the indices of the sorted ids: Recompute makes them so, and   *)
(* every step that touches the membership without it only takes ranks away.*)
LEMMA RecomputeRanks ==
  ASSUME NEW S \in SUBSET Nodes, Recompute(S), members' = S
  PROVE  RanksFollowIdOrder'
<1>. SUFFICES ASSUME NEW n \in Nodes, rank'[n] # NoRank
              PROVE  n \in S /\ rank'[n] = Position(S, n)
  BY DEF RanksFollowIdOrder, Position
<1>. QED
  BY DEF Recompute

(* Every call keeps ranks None or equal to the index.                      *)
LEMMA RanksStep ==
  CoordTypeOK /\ RanksFollowIdOrder /\ [CoordNext]_coordVars => RanksFollowIdOrder'
<1>. SUFFICES ASSUME CoordTypeOK, RanksFollowIdOrder, [CoordNext]_coordVars
              PROVE  RanksFollowIdOrder'
  OBVIOUS
<1>1. ASSUME NEW n \in Nodes, Register(n)
      PROVE  RanksFollowIdOrder'
  <2>1. CASE n \notin members
    BY <1>1, <2>1, RecomputeRanks DEF CoordTypeOK, Register
  <2>2. CASE n \in members
    <3>1. members' = members /\ rank' = [rank EXCEPT ![n] = NoRank]
      BY <1>1, <2>2 DEF Register, Recompute
    <3>. QED
      BY <3>1 DEF CoordTypeOK, RanksFollowIdOrder, Position
  <2>. QED
    BY <2>1, <2>2
<1>2. ASSUME NEW n \in Nodes, Leave(n)
      PROVE  RanksFollowIdOrder'
  <2>1. CASE n \in members
    BY <1>2, <2>1, RecomputeRanks DEF CoordTypeOK, Leave
  <2>2. CASE n \notin members
    BY <1>2, <2>2 DEF Leave, coordVars, RanksFollowIdOrder, Position
  <2>. QED
    BY <2>1, <2>2
<1>3. ASSUME CheckHeartbeats
      PROVE  RanksFollowIdOrder'
  BY <1>3, RecomputeRanks DEF CoordTypeOK, CheckHeartbeats
<1>4. CASE UNCHANGED <<members, rank>>
  BY <1>4 DEF RanksFollowIdOrder, Position
<1>. QED
  BY <1>1, <1>2, <1>3, <1>4
  DEF CoordNext, coordVars, Heartbeat, Lapse, SignalReady

(* A rank that register() has not wiped is the index in sorted(self.nodes), *)
(* for any set of ids and any calls: rank 0 is the master.                 *)
THEOREM RanksAreIndices == CoordSpec => []RanksFollowIdOrder
<1>1. CoordInit => RanksFollowIdOrder
  BY DEF CoordInit, RanksFollowIdOrder
<1>. QED
  BY <1>1, RanksStep, CoordinatorTypes, PTL DEF CoordSpec

(* What the configurations handed out rely on: two members never share a   *)
(* rank, every rank addresses a position of the pipeline, and the member   *)
(* of rank 0 is the one get_node_config calls the master.                  *)
RanksFitPipeline ==
  \A m, n \in members :
    rank[m] # NoRank /\ rank[n] # NoRank =>
      /\ rank[m] = rank[n] => m = n
      /\ rank[m] \in 0 .. Cardinality(members) - 1
      /\ rank[m] = 0 => m <= n

(* Indices below a bound, each taken once: what a pipeline needs.          *)
LEMMA IndicesFitPipeline == CoordTypeOK /\ RanksFollowIdOrder => RanksFitPipeline
<1>. SUFFICES ASSUME CoordTypeOK, RanksFollowIdOrder,
                     NEW m \in members, NEW n \in members,
                     rank[m] # NoRank, rank[n] # NoRank
              PROVE  /\ rank[m] = rank[n] => m = n
                     /\ rank[m] \in 0 .. Cardinality(members) - 1
                     /\ rank[m] = 0 => m <= n
  BY DEF RanksFitPipeline
<1>1. members \in SUBSET Nodes /\ m \in Int /\ n \in Int
  BY NodesAssumption DEF CoordTypeOK
<1>2. rank[m] = Position(members, m) /\ rank[n] = Position(members, n)
  BY <1>1 DEF RanksFollowIdOrder
<1>3. rank[m] \in Nat /\ rank[n] \in Nat
  BY <1>1, <1>2, PositionIsNat
<1>4. m < n => rank[m] < rank[n]
  BY <1>1, <1>2, PositionIncreases
<1>5. n < m => rank[n] < rank[m]
  BY <1>1, <1>2, PositionIncreases
<1>6. rank[m] < Cardinality(members)
  BY <1>1, <1>2, PositionBound
<1>7. Cardinality(members) \in Nat
  BY <1>1, NodesAssumption, FS_Subset, FS_CardinalityType
<1>. QED
  BY <1>1, <1>3, <1>4, <1>5, <1>6, <1>7

(* No two members are given the same place in the pipeline and none a      *)
(* place beyond its end (world_size in get_node_config).                   *)
THEOREM PipelineRanks == CoordSpec => []RanksFitPipeline
BY CoordinatorTypes, RanksAreIndices, IndicesFitPipeline, PTL

-----------------------------------------------------------------------------
(* Nobody outside the cluster counts at a barrier. *)
LEMMA ReadyStep ==
  CoordTypeOK /\ ReadyAreMembers /\ [CoordNext]_coordVars => ReadyAreMembers'
<1>. SUFFICES ASSUME CoordTypeOK, ReadyAreMembers, [CoordNext]_coordVars
              PROVE  ReadyAreMembers'
  OBVIOUS
<1>1. ASSUME ready' = {}
      PROVE  ReadyAreMembers'
  BY <1>1 DEF ReadyAreMembers
<1>2. ASSUME NEW n \in Nodes, Register(n)
      PROVE  ReadyAreMembers'
  <2>1. CASE n \in members
    BY <1>2, <2>1 DEF Register, ReadyAreMembers
  <2>. QED
    BY <1>1, <1>2, <2>1 DEF Register, Recompute
<1>3. ASSUME NEW n \in Nodes, Leave(n)
      PROVE  ReadyAreMembers'
  BY <1>1, <1>3 DEF Leave, Recompute, coordVars, ReadyAreMembers
<1>4. ASSUME NEW n \in Nodes, NEW v \in 0 .. version, SignalReady(n, v)
      PROVE  ReadyAreMembers'
  BY <1>4 DEF SignalReady, ReadyAreMembers, CoordTypeOK
<1>5. ASSUME CheckHeartbeats
      PROVE  ReadyAreMembers'
  BY <1>1, <1>5 DEF CheckHeartbeats, Recompute
<1>6. CASE UNCHANGED <<members, version, ready>>
  BY <1>6 DEF ReadyAreMembers
<1>. QED
  BY <1>2, <1>3, <1>4, <1>5, <1>6 DEF CoordNext, coordVars, Heartbeat, Lapse

(* remove() and check_heartbeats() leave no trace of a node in ready_nodes. *)
THEOREM ReadyNodesAreMembers == CoordSpec => []ReadyAreMembers
<1>1. CoordInit => ReadyAreMembers
  BY DEF CoordInit, ReadyAreMembers
<1>. QED
  BY <1>1, ReadyStep, CoordinatorTypes, PTL DEF CoordSpec

-----------------------------------------------------------------------------
(* The cluster. *)

(* Places inside reconfigure() after its entry. *)
InReconfigure == {"load", "signal", "poll", "build", "finish"}

(* A worker is never ahead of the coordinator, and reconfigures only to an *)
(* issued version later than its own.  A new process registers from run(). *)
Forward(w) ==
  /\ current[w] <= version
  /\ Place(w) \in InReconfigure =>
       /\ cfg[w] # NoConfig
       /\ current[w] < cfg[w].version
       /\ cfg[w].version \in 1 .. version
  /\ pc[w] = "refetch" => current[w] < version
  /\ pc[w] = "dead" => regRet[w] = "top"

MovesForward ==
  /\ members # {} => version > 0
  /\ \A w \in Nodes : Forward(w)

-----------------------------------------------------------------------------
(* The heartbeat leads back to the loop or on in reconfigure(). *)
LEMMA AfterBeatPlace ==
  ASSUME NEW w \in Nodes, NEW v, NEW label \in BeatLabels \union {"top"}
  PROVE  /\ AfterBeat(w, label, v) \in {"top", "signal", "finish", "refetch"}
         /\ AfterBeat(w, label, v) = "signal" => label = "load"
         /\ AfterBeat(w, label, v) = "finish" => label = "build"
         /\ AfterBeat(w, label, v) = "refetch" => v # current[w]
BY DEF AfterBeat, BeatLabels

(* A step of the coordinator leaves members and version alone or gives a   *)
(* changed membership the next version.                                    *)
ViewStep ==
  \/ members' \in (SUBSET Nodes) \ {members} /\ version' = version + 1
  \/ UNCHANGED <<members, version>>

(* Every call to the coordinator makes such a step.                        *)
LEMMA VersionStep == CoordTypeOK /\ [CoordNext]_coordVars => ViewStep
<1>. SUFFICES ASSUME CoordTypeOK, [CoordNext]_coordVars
              PROVE  ViewStep
  OBVIOUS
<1>. USE DEF ViewStep, CoordTypeOK
<1>1. ASSUME NEW n \in Nodes, Register(n)
      PROVE  ViewStep
  <2>1. CASE n \in members
    BY <1>1, <2>1 DEF Register
  <2>2. CASE n \notin members
    BY <1>1, <2>2 DEF Register, Recompute
  <2>. QED
    BY <2>1, <2>2
<1>2. ASSUME NEW n \in Nodes, Leave(n)
      PROVE  ViewStep
  BY <1>2 DEF Leave, Recompute, coordVars
<1>3. ASSUME CheckHeartbeats
      PROVE  ViewStep
  <2>1. members' \in SUBSET Nodes
    BY <1>3 DEF CheckHeartbeats
  <2>2. PICK n \in stale : n \in members /\ n \notin members'
    BY <1>3 DEF CheckHeartbeats
  <2>. QED
    BY <1>3, <2>1, <2>2 DEF CheckHeartbeats, Recompute
<1>4. CASE UNCHANGED <<members, version>>
  BY <1>4
<1>. QED
  BY <1>1, <1>2, <1>3, <1>4 DEF CoordNext, coordVars, Heartbeat, Lapse, SignalReady

-----------------------------------------------------------------------------
(* Every step of the cluster is a step of the coordinator or none of its   *)
(* business.                                                               *)
LEMMA CoordinatorPart ==
  ClusterTypeOK /\ MovesForward /\ [ClusterNext]_vars => [CoordNext]_coordVars
<1>. SUFFICES ASSUME ClusterTypeOK, MovesForward, [ClusterNext]_vars
              PROVE  [CoordNext]_coordVars
  OBVIOUS
<1>1. ASSUME NEW w \in Nodes, Register(w) \/ Heartbeat(w) \/ Leave(w) \/ Lapse(w)
      PROVE  CoordNext
  BY <1>1 DEF CoordNext
<1>2. ASSUME NEW w \in Nodes, pc[w] = "signal", SignalReady(w, cfg[w].version)
      PROVE  CoordNext
  <2>1. cfg[w] # NoConfig /\ cfg[w].version <= version
    BY <1>2 DEF MovesForward, Forward, Place, InReconfigure
  <2>2. cfg[w] \in Configs /\ version \in Nat
    BY <2>1 DEF ClusterTypeOK, CoordTypeOK
  <2>3. cfg[w].version \in 0 .. version
    BY <2>1, <2>2 DEF Configs
  <2>. QED
    BY <1>2, <2>3 DEF CoordNext
<1>3. ASSUME NEW w \in Nodes, MainStep(w)
      PROVE  CoordNext \/ UNCHANGED coordVars
  BY <1>1, <1>2, <1>3
  DEF MainStep, RegisterCall, Beat, Contact, FetchConfig, Refetch, Reconfigure,
      Signal, BarrierCleared, BarrierTimeout, BuildDies, Finish
<1>4. ASSUME NEW w \in Nodes, FaultStep(w)
      PROVE  CoordNext \/ UNCHANGED coordVars
  BY <1>1, <1>2, <1>4
  DEF FaultStep, Restart, Crash, Shutdown, FallSilent, RegisterReplyLost,
      BeatLost, ConfigLost, SignalLost
<1>5. ASSUME Monitor
      PROVE  CoordNext
  BY <1>5 DEF Monitor, CoordNext
<1>6. CASE UNCHANGED vars
  BY <1>6 DEF vars
<1>. QED
  BY <1>3, <1>4, <1>5, <1>6 DEF ClusterNext

-----------------------------------------------------------------------------
(* The workers' fields keep their types. *)
LEMMA WorkerTypes ==
  ClusterTypeOK /\ MovesForward /\ [ClusterNext]_vars => ClusterTypeOK'
<1>. SUFFICES ASSUME ClusterTypeOK, MovesForward, [ClusterNext]_vars
              PROVE  ClusterTypeOK'
  OBVIOUS
<1>. USE DEF ClusterTypeOK
<1>1. CoordTypeOK'
  BY CoordinatorPart, CoordTypeStep
<1>2. Labels = {"idle", "load", "build", "beat", "dead", "register", "top",
                "refetch", "signal", "poll", "finish"}
  BY DEF Labels, BeatLabels
<1>3. Config \in Configs
  BY DEF CoordTypeOK, Config, Configs
<1>4. ASSUME NEW kind, Fault(kind)
      PROVE  faults' \in [FailureKinds -> Nat]
  <2>. faults \in [FailureKinds -> Nat]
    OBVIOUS
  <2>1. CASE kind \in FailureKinds
    <3>1. faults[kind] - 1 \in Nat
      BY <1>4, <2>1 DEF Fault
    <3>. QED
      BY <1>4, <3>1 DEF Fault
  <2>2. CASE kind \notin FailureKinds
    BY <1>4, <2>2 DEF Fault
  <2>. QED
    BY <2>1, <2>2
<1>5. ASSUME NEW w \in Nodes, Die(w)
      PROVE  /\ pc' \in [Nodes -> Labels]
             /\ regRet' \in [Nodes -> BeatLabels \union {"top"}]
             /\ recRet' \in [Nodes -> {"top", "beat"}]
             /\ current' \in [Nodes -> Nat \union {-1}]
             /\ cfg' \in [Nodes -> Configs \union {NoConfig}]
             /\ engine' \in [Nodes -> Configs \union {NoConfig}]
             /\ comm' \in [Nodes -> BOOLEAN]
             /\ loops' \in [Nodes -> SUBSET {"api", "leaf"}]
  BY <1>2, <1>5 DEF Die, Goto
<1>6. ASSUME NEW w \in Nodes, MainStep(w)
      PROVE  ClusterTypeOK'
  <2>1. CASE RegisterCall(w)
    <3>1. AfterBeat(w, regRet[w], version') \in Labels
      BY <1>2, AfterBeatPlace
    <3>. QED
      BY <1>1, <2>1, <3>1 DEF RegisterCall, Goto, pipeline
  <2>2. CASE Beat(w)
    <3>1. AfterBeat(w, pc[w], version') \in Labels
      BY <1>2, <2>2, AfterBeatPlace DEF Beat
    <3>. QED
      BY <1>1, <2>2, <3>1 DEF Beat, Goto, pipeline
  <2>3. CASE FetchConfig(w)
    BY <1>1, <1>2, <1>3, <2>3 DEF FetchConfig, Reconfigure, Goto, pipeline
  <2>4. CASE Refetch(w)
    BY <1>1, <1>2, <1>3, <2>4 DEF Refetch, Reconfigure, Goto, pipeline
  <2>5. CASE Signal(w)
    BY <1>1, <1>2, <2>5 DEF Signal, CloseComm, Goto
  <2>6. CASE BarrierCleared(w) \/ BarrierTimeout(w)
    BY <1>1, <1>2, <2>6 DEF BarrierCleared, BarrierTimeout, Goto, pipeline
  <2>7. CASE BuildDies(w)
    BY <1>1, <1>5, <2>7 DEF BuildDies
  <2>8. CASE Finish(w)
    <3>1. cfg[w] \in Configs
      BY <2>8 DEF Finish, MovesForward, Forward, Place, InReconfigure
    <3>2. cfg[w].version \in Nat
      BY <3>1 DEF Configs
    <3>. QED
      BY <1>1, <1>2, <2>8, <3>1, <3>2 DEF Finish, Goto
  <2>. QED
    BY <1>6, <2>1, <2>2, <2>3, <2>4, <2>5, <2>6, <2>7, <2>8 DEF MainStep
<1>7. ASSUME NEW w \in Nodes, FaultStep(w)
      PROVE  ClusterTypeOK'
  <2>1. CASE Restart(w)
    BY <1>1, <1>2, <1>4, <2>1 DEF Restart, Goto, pipeline
  <2>2. CASE Crash(w) \/ Shutdown(w)
    BY <1>1, <1>4, <1>5, <2>2 DEF Crash, Shutdown
  <2>3. CASE FallSilent(w)
    BY <1>1, <1>4, <2>3 DEF FallSilent, NoFault, control, pipeline
  <2>4. CASE RegisterReplyLost(w)
    BY <1>1, <1>2, <1>4, <2>4 DEF RegisterReplyLost, Goto, pipeline
  <2>5. CASE BeatLost(w)
    <3>1. AfterBeat(w, pc[w], current[w]) \in Labels
      BY <1>2, <2>5, AfterBeatPlace DEF BeatLost
    <3>. QED
      BY <1>1, <1>4, <2>5, <3>1 DEF BeatLost, Goto, pipeline
  <2>6. CASE ConfigLost(w)
    BY <1>1, <1>2, <1>4, <2>6 DEF ConfigLost, Goto, pipeline
  <2>7. CASE SignalLost(w)
    BY <1>1, <1>2, <1>4, <2>7 DEF SignalLost, CloseComm, Goto
  <2>. QED
    BY <1>7, <2>1, <2>2, <2>3, <2>4, <2>5, <2>6, <2>7 DEF FaultStep
<1>8. ASSUME Monitor
      PROVE  ClusterTypeOK'
  BY <1>1, <1>8 DEF Monitor, control, pipeline
<1>9. CASE UNCHANGED vars
  BY <1>1, <1>9 DEF vars, control, pipeline
<1>. QED
  BY <1>6, <1>7, <1>8, <1>9 DEF ClusterNext

-----------------------------------------------------------------------------
(* Workers move forward: the only steps that change where a worker stands  *)
(* are its own, and the configuration it starts to reconfigure to is of a  *)
(* version it does not have.                                               *)
LEMMA ForwardStep ==
  ClusterTypeOK /\ MovesForward /\ [ClusterNext]_vars => MovesForward'
<1>. SUFFICES ASSUME ClusterTypeOK, MovesForward, [ClusterNext]_vars
              PROVE  MovesForward'
  OBVIOUS
<1>1. ViewStep
  BY CoordinatorPart, VersionStep DEF ClusterTypeOK
<1>2. /\ version \in Nat /\ version' \in Nat /\ version <= version'
      /\ current \in [Nodes -> Nat \union {-1}]
      /\ cfg \in [Nodes -> Configs \union {NoConfig}]
      /\ pc \in [Nodes -> Labels]
      /\ regRet \in [Nodes -> BeatLabels \union {"top"}]
      /\ recRet \in [Nodes -> {"top", "beat"}]
  BY <1>1 DEF ViewStep, ClusterTypeOK, CoordTypeOK
<1>3. (members # {} => version > 0)'
  BY <1>1, <1>2 DEF ViewStep, MovesForward
<1>4. \A w \in Nodes : Forward(w) /\ (cfg[w] # NoConfig => cfg[w].version \in Nat)
  BY <1>2 DEF MovesForward, Configs
<1>5. ASSUME NEW w \in Nodes, UNCHANGED <<pc[w], regRet[w], cfg[w], current[w]>>
      PROVE  Forward(w)'
  BY <1>2, <1>4, <1>5 DEF Forward, Place
<1>6. ASSUME NEW w \in Nodes, pc'[w] \in {"dead", "top", "idle", "beat", "register"},
             pc'[w] = "register" => regRet'[w] \in {"top", "idle", "beat"},
             pc'[w] = "dead" => regRet'[w] = "top",
             current'[w] \in {current[w], -1}
      PROVE  Forward(w)'
  BY <1>2, <1>4, <1>6 DEF Forward, Place, InReconfigure
<1>7. ASSUME NEW w \in Nodes, pc'[w] \in InReconfigure, Place(w) \in InReconfigure,
             UNCHANGED <<cfg[w], current[w]>>
      PROVE  Forward(w)'
  BY <1>2, <1>4, <1>7 DEF Forward, Place, InReconfigure
<1>8. ASSUME NEW w \in Nodes, Reconfigure(w, "beat") \/ Reconfigure(w, "top"),
             version # current[w], UNCHANGED current
      PROVE  Forward(w)'
  <2>1. pc'[w] = "load" /\ cfg'[w] = Config /\ w \in members /\ version' = version
    BY <1>2, <1>8 DEF Reconfigure, Goto, Heartbeat
  <2>2. Config # NoConfig /\ Config.version = version
    <3>1. Config \in Configs
      BY DEF ClusterTypeOK, CoordTypeOK, Config, Configs
    <3>. QED
      BY <3>1, NoConfigAssumption DEF Config
  <2>3. current[w] < version /\ version > 0
    BY <1>2, <1>4, <1>8, <2>1 DEF Forward, MovesForward
  <2>. QED
    BY <1>2, <1>8, <2>1, <2>2, <2>3 DEF Forward, Place, InReconfigure
<1>9. ASSUME NEW x \in Nodes, NEW w \in Nodes, w # x, MainStep(x) \/ FaultStep(x)
      PROVE  UNCHANGED <<pc[w], regRet[w], cfg[w], current[w]>>
  BY <1>2, <1>9
  DEF MainStep, RegisterCall, Beat, FetchConfig, Refetch, Reconfigure, Signal,
      BarrierCleared, BarrierTimeout, BuildDies, Finish, FaultStep, Restart, Crash,
      Shutdown, FallSilent, RegisterReplyLost, BeatLost, ConfigLost, SignalLost,
      Die, Goto, CloseComm, control, pipeline
<1>10. ASSUME NEW w \in Nodes, MainStep(w)
       PROVE  Forward(w)'
  <2>1. CASE RegisterCall(w)
    <3>1. pc'[w] = AfterBeat(w, regRet[w], version') /\ Place(w) = regRet[w]
      BY <1>2, <2>1 DEF RegisterCall, Goto, Place
    <3>2. UNCHANGED <<cfg[w], current[w]>>
      BY <2>1 DEF RegisterCall, pipeline
    <3>. QED
      BY <1>2, <1>4, <1>6, <1>7, <3>1, <3>2, AfterBeatPlace
      DEF Forward, Place, InReconfigure, BeatLabels
  <2>2. CASE Beat(w)
    <3>1. pc'[w] = AfterBeat(w, pc[w], version') /\ Place(w) = pc[w]
      BY <1>2, <2>2 DEF Beat, Goto, Place, BeatLabels
    <3>2. pc[w] \in BeatLabels /\ UNCHANGED <<cfg[w], current[w]>>
      BY <2>2 DEF Beat, pipeline
    <3>. QED
      BY <1>2, <1>4, <1>6, <1>7, <3>1, <3>2, AfterBeatPlace
      DEF Forward, Place, InReconfigure, BeatLabels
  <2>3. CASE FetchConfig(w)
    BY <1>2, <1>6, <1>8, <2>3 DEF FetchConfig, Goto, pipeline
  <2>4. CASE Refetch(w)
    <3>1. current[w] # version
      BY <1>2, <1>4, <2>4 DEF Refetch, Forward
    <3>. QED
      BY <1>2, <1>6, <1>8, <2>4, <3>1 DEF Refetch, Goto, pipeline
  <2>5. CASE Signal(w) \/ BarrierCleared(w) \/ BarrierTimeout(w)
    BY <1>2, <1>7, <2>5
    DEF Signal, BarrierCleared, BarrierTimeout, CloseComm, Goto, pipeline,
        Place, InReconfigure
  <2>6. CASE BuildDies(w)
    BY <1>2, <1>6, <2>6 DEF BuildDies, Die, Goto
  <2>7. CASE Finish(w)
    <3>1. pc'[w] \in {"top", "beat"} /\ current'[w] = cfg[w].version
      BY <1>2, <2>7 DEF Finish, Goto
    <3>2. current'[w] <= version'
      BY <1>2, <1>4, <2>7, <3>1 DEF Finish, Forward, Place, InReconfigure
    <3>. QED
      BY <3>1, <3>2 DEF Forward, Place, InReconfigure
  <2>. QED
    BY <1>10, <2>1, <2>2, <2>3, <2>4, <2>5, <2>6, <2>7 DEF MainStep
<1>11. ASSUME NEW w \in Nodes, FaultStep(w)
       PROVE  Forward(w)'
  <2>1. CASE Restart(w) \/ Crash(w) \/ Shutdown(w)
    BY <1>2, <1>4, <1>6, <2>1
    DEF Restart, Crash, Shutdown, Die, Goto, pipeline, Forward
  <2>2. CASE FallSilent(w)
    BY <1>5, <2>2 DEF FallSilent, control, pipeline
  <2>3. CASE RegisterReplyLost(w)
    BY <1>2, <1>4, <2>3 DEF RegisterReplyLost, Goto, pipeline, Forward, Place, BeatLabels
  <2>4. CASE BeatLost(w)
    <3>1. pc'[w] = AfterBeat(w, pc[w], current[w]) /\ Place(w) = pc[w]
      BY <1>2, <2>4 DEF BeatLost, Goto, Place, BeatLabels
    <3>2. pc[w] \in BeatLabels /\ UNCHANGED <<cfg[w], current[w]>>
      BY <2>4 DEF BeatLost, pipeline
    <3>. QED
      BY <1>2, <1>6, <1>7, <3>1, <3>2, AfterBeatPlace DEF InReconfigure, BeatLabels
  <2>5. CASE ConfigLost(w)
    BY <1>2, <1>6, <2>5 DEF ConfigLost, Goto, pipeline
  <2>6. CASE SignalLost(w)
    BY <1>2, <1>7, <2>6 DEF SignalLost, CloseComm, Goto, Place, InReconfigure
  <2>. QED
    BY <1>11, <2>1, <2>2, <2>3, <2>4, <2>5, <2>6 DEF FaultStep
<1>12. CASE Monitor \/ UNCHANGED vars
  BY <1>3, <1>5, <1>12 DEF Monitor, vars, control, pipeline, MovesForward
<1>13. CASE \E x \in Nodes : MainStep(x) \/ FaultStep(x)
  BY <1>3, <1>5, <1>9, <1>10, <1>11, <1>13 DEF MovesForward
<1>. QED
  BY <1>12, <1>13 DEF ClusterNext

-----------------------------------------------------------------------------
(* Theorems of ClusterSpec.  Types and forward movement form one inductive *)
(* invariant.                                                              *)
LEMMA ClusterInvariant == ClusterSpec => [](ClusterTypeOK /\ MovesForward)
<1>1. ClusterInit => ClusterTypeOK
  BY FailuresAssumption
  DEF ClusterInit, CoordInit, ClusterTypeOK, CoordTypeOK, Labels, BeatLabels
<1>2. ClusterInit => MovesForward
  BY DEF ClusterInit, CoordInit, MovesForward, Forward, Place, InReconfigure
<1>. QED
  BY <1>1, <1>2, WorkerTypes, ForwardStep, PTL DEF ClusterSpec

(* The coordinator's and the workers' fields keep their types, whatever    *)
(* fails and however often.                                                *)
THEOREM ClusterTypes == ClusterSpec => []ClusterTypeOK
BY ClusterInvariant, PTL

(* run() and reconfigure() never take a worker back to an earlier version, *)
(* nor to one that the coordinator has not issued.                         *)
THEOREM WorkersMoveForward == ClusterSpec => []MovesForward
BY ClusterInvariant, PTL

(* The workers call the coordinator only in ways CoordSpec allows, so all  *)
(* that is proved of the coordinator holds in the cluster.                 *)
THEOREM ClusterImplementsCoordinator == ClusterSpec => CoordSpec
<1>1. ClusterInit => CoordInit
  BY DEF ClusterInit
<1>. QED
  BY <1>1, ClusterInvariant, CoordinatorPart, PTL DEF ClusterSpec, CoordSpec

-----------------------------------------------------------------------------
(* What two configurations of one version have in common follows from what *)
(* each of them has in common with the coordinator: it is the coordinator's*)
(* view as long as its version is current, and its ranks are indices of    *)
(* its own peers.                                                          *)
OfAnIssuedView(c) ==
  /\ c \in Configs
  /\ c.version <= version
  /\ c.version = version => c.peers = members
  /\ \A m \in c.peers : c.rank[m] # NoRank => c.rank[m] = Position(c.peers, m)

ViewsAgree ==
  /\ \A c \in Held : OfAnIssuedView(c)
  /\ \A c, d \in Held : c.version = d.version => c.peers = d.peers

(* The only new configuration a step brings is the coordinator's answer. *)
LEMMA HeldStep ==
  ClusterTypeOK /\ [ClusterNext]_vars => Held' \subseteq Held \union {Config}
<1>. SUFFICES ASSUME ClusterTypeOK, [ClusterNext]_vars
              PROVE  Held' \subseteq Held \union {Config}
  OBVIOUS
<1>1. /\ cfg \in [Nodes -> Configs \union {NoConfig}]
      /\ engine \in [Nodes -> Configs \union {NoConfig}]
  BY DEF ClusterTypeOK
<1>2. \A w \in Nodes : {cfg'[w], engine'[w]} \subseteq {cfg[w], engine[w], Config, NoConfig}
  <2>1. CASE Monitor \/ UNCHANGED vars
    BY <2>1 DEF Monitor, vars, control, pipeline
  <2>2. ASSUME NEW x \in Nodes, MainStep(x) \/ FaultStep(x)
        PROVE  \A w \in Nodes :
                 {cfg'[w], engine'[w]} \subseteq {cfg[w], engine[w], Config, NoConfig}
    BY <1>1, <2>2
    DEF MainStep, RegisterCall, Beat, FetchConfig, Refetch, Reconfigure, Signal,
        BarrierCleared, BarrierTimeout, BuildDies, Finish, FaultStep, Restart, Crash,
        Shutdown, FallSilent, RegisterReplyLost, BeatLost, ConfigLost, SignalLost,
        Die, CloseComm, control, pipeline
  <2>. QED
    BY <2>1, <2>2 DEF ClusterNext
<1>. QED
  BY <1>2 DEF Held

(* Every step of the cluster keeps the agreement on views.                 *)
LEMMA ViewsAgreeStep ==
  /\ ClusterTypeOK /\ MovesForward /\ RanksFollowIdOrder /\ ViewsAgree
  /\ [ClusterNext]_vars
  => ViewsAgree'
<1>. SUFFICES ASSUME ClusterTypeOK, MovesForward, RanksFollowIdOrder, ViewsAgree,
                     [ClusterNext]_vars
              PROVE  ViewsAgree'
  OBVIOUS
<1>1. ViewStep /\ version \in Nat
  BY CoordinatorPart, VersionStep DEF ClusterTypeOK, CoordTypeOK
<1>2. OfAnIssuedView(Config)
  <2>1. Config \in Configs /\ Config.version = version /\ Config.peers = members
        /\ Config.rank = rank
    BY DEF ClusterTypeOK, CoordTypeOK, Config, Configs
  <2>2. \A m \in members : rank[m] # NoRank => rank[m] = Position(members, m)
    BY DEF RanksFollowIdOrder, ClusterTypeOK, CoordTypeOK
  <2>. QED
    BY <1>1, <2>1, <2>2 DEF OfAnIssuedView
<1>3. \A c \in Held \union {Config} : OfAnIssuedView(c)
  BY <1>2 DEF ViewsAgree
<1>4. \A c, d \in Held \union {Config} : c.version = d.version => c.peers = d.peers
  <2>1. Config.version = version /\ Config.peers = members
    BY DEF Config
  <2>. QED
    BY <1>3, <2>1 DEF ViewsAgree, OfAnIssuedView
<1>5. \A c \in Held' : OfAnIssuedView(c)'
  <2>. SUFFICES ASSUME NEW c \in Held'
                PROVE  OfAnIssuedView(c)'
    OBVIOUS
  <2>1. OfAnIssuedView(c)
    BY <1>3, HeldStep
  <2>2. c.version \in Nat
    BY <2>1 DEF OfAnIssuedView, Configs
  <2>. QED
    BY <1>1, <2>1, <2>2 DEF ViewStep, OfAnIssuedView, Configs, Position
<1>. QED
  BY <1>4, <1>5, HeldStep DEF ViewsAgree

(* Equal members have equal indices, so the agreement covers ranks.        *)
LEMMA AgreementOnRanks == ViewsAgree => SameVersionSameMembers
<1>. SUFFICES ASSUME ViewsAgree, NEW c \in Held, NEW d \in Held, c.version = d.version
              PROVE  /\ c.peers = d.peers
                     /\ \A m, n \in c.peers :
                          m # n /\ c.rank[m] # NoRank => c.rank[m] # d.rank[n]
  BY DEF SameVersionSameMembers
<1>1. c.peers = d.peers
  BY DEF ViewsAgree
<1>. SUFFICES ASSUME NEW m \in c.peers, NEW n \in c.peers, m # n,
                     c.rank[m] # NoRank, c.rank[m] = d.rank[n]
              PROVE  FALSE
  BY <1>1
<1>2. c.peers \in SUBSET Nodes /\ m \in Int /\ n \in Int
  BY NodesAssumption DEF ViewsAgree, OfAnIssuedView, Configs
<1>3. c.rank[m] = Position(c.peers, m) /\ d.rank[n] = Position(c.peers, n)
  BY <1>1 DEF ViewsAgree, OfAnIssuedView
<1>4. Position(c.peers, m) \in Nat /\ Position(c.peers, n) \in Nat
  BY <1>2, PositionIsNat
<1>5. m < n => Position(c.peers, m) < Position(c.peers, n)
  BY <1>2, PositionIncreases
<1>6. n < m => Position(c.peers, n) < Position(c.peers, m)
  BY <1>2, PositionIncreases
<1>7. Position(c.peers, m) = Position(c.peers, n)
  BY <1>3
<1>. QED
  BY <1>2, <1>4, <1>5, <1>6, <1>7

(* Workers that reconfigure to, or run, the same cluster_version agree on  *)
(* who is in the cluster and do not take each other's place in the         *)
(* pipeline, though each of them has asked /config at its own time.        *)
THEOREM OneVersionOnePipeline == ClusterSpec => []SameVersionSameMembers
<1>1. ClusterInit => ViewsAgree
  BY DEF ClusterInit, ViewsAgree, Held
<1>2. ClusterSpec => []RanksFollowIdOrder
  BY ClusterImplementsCoordinator, RanksAreIndices, PTL
<1>. QED
  BY <1>1, <1>2, ClusterInvariant, ViewsAgreeStep, AgreementOnRanks, PTL DEF ClusterSpec

-----------------------------------------------------------------------------
(* The cluster is a sequence of numbered views through which the workers   *)
(* move forward: each step changes the view, or has one worker adopt a     *)
(* later view, or ends one process, or is invisible.                       *)
LEMMA ViewsStep ==
  ClusterTypeOK /\ MovesForward /\ [ClusterNext]_vars => [Views!Next]_(Views!vars)
<1>. SUFFICES ASSUME ClusterTypeOK, MovesForward, [ClusterNext]_vars
              PROVE  [Views!Next]_(Views!vars)
  OBVIOUS
<1>1. ViewStep
  BY CoordinatorPart, VersionStep DEF ClusterTypeOK
<1>2. ASSUME UNCHANGED current
      PROVE  [Views!Next]_(Views!vars)
  BY <1>1, <1>2 DEF ViewStep, Views!Next, Views!Change, Views!vars
<1>3. ASSUME NEW w \in Nodes, Die(w), UNCHANGED coordVars \/ Leave(w)
      PROVE  Views!Stop(w)
  BY <1>3 DEF Die, Leave, Recompute, coordVars, Views!Stop
<1>4. ASSUME NEW w \in Nodes, Finish(w)
      PROVE  Views!Adopt(w)
  <2>1. cfg[w].version \in 1 .. version /\ cfg[w].version > current[w]
    <3>1. cfg[w] \in Configs
      BY <1>4 DEF Finish, MovesForward, Forward, Place, InReconfigure, ClusterTypeOK
    <3>. QED
      BY <1>4, <3>1
      DEF Finish, MovesForward, Forward, Place, InReconfigure, Configs, ClusterTypeOK
  <2>2. current' = [current EXCEPT ![w] = cfg[w].version]
        /\ UNCHANGED <<members, version>>
    BY <1>4 DEF Finish, coordVars
  <2>. QED
    BY <2>1, <2>2 DEF Views!Adopt
<1>5. ASSUME NEW w \in Nodes, MainStep(w)
      PROVE  [Views!Next]_(Views!vars)
  <2>1. CASE BuildDies(w)
    BY <1>3, <2>1 DEF BuildDies, Views!Next
  <2>2. CASE Finish(w)
    BY <1>4, <2>2 DEF Views!Next
  <2>3. CASE ~BuildDies(w) /\ ~Finish(w)
    BY <1>2, <1>5, <2>3
    DEF MainStep, RegisterCall, Beat, FetchConfig, Refetch, Signal, BarrierCleared,
        BarrierTimeout, CloseComm, pipeline
  <2>. QED
    BY <2>1, <2>2, <2>3
<1>6. ASSUME NEW w \in Nodes, FaultStep(w)
      PROVE  [Views!Next]_(Views!vars)
  <2>1. CASE Crash(w) \/ Shutdown(w)
    BY <1>3, <2>1 DEF Crash, Shutdown, Views!Next
  <2>2. CASE ~Crash(w) /\ ~Shutdown(w)
    BY <1>2, <1>6, <2>2
    DEF FaultStep, Restart, FallSilent, RegisterReplyLost, BeatLost, ConfigLost,
        SignalLost, CloseComm, pipeline
  <2>. QED
    BY <2>1, <2>2
<1>7. CASE Monitor \/ UNCHANGED vars
  BY <1>2, <1>7 DEF Monitor, vars, pipeline
<1>. QED
  BY <1>5, <1>6, <1>7 DEF ClusterNext

(* Calls lost, repeated and overtaken, the cluster still moves through     *)
(* numbered views, and a worker only forward through them.                 *)
THEOREM ClusterImplementsMembership == ClusterSpec => ImplementsMembership
<1>1. ClusterInit => Views!Init
  BY DEF ClusterInit, CoordInit, Views!Init
<1>. QED
  BY <1>1, ClusterInvariant, ViewsStep, PTL
  DEF ClusterSpec, ImplementsMembership, Views!Spec

-----------------------------------------------------------------------------
(* Who has signalled the current version has arrived, unless the process   *)
(* that signalled has ended: then it is dead, or its successor is about to *)
(* register, or has done so and lost its rank.                             *)
Signalled(w) ==
  <<version, w>> \in ready =>
    \/ ~Alive(w)
    \/ pc[w] = "register" /\ regRet[w] = "top"
    \/ rank[w] = NoRank
    \/ Arrived(w)

SignalledArrived == \A w \in Nodes : Signalled(w)

(* Barriers and ranks survive a step of the coordinator together or not at *)
(* all.                                                                    *)
BarrierKept ==
  /\ version' = version
  /\ \A n \in Nodes : rank'[n] \in {rank[n], NoRank}

(* A step that moves version or ranks forward clears the barriers.         *)
LEMMA BarrierStep ==
  CoordTypeOK /\ [CoordNext]_coordVars => ready' = {} \/ BarrierKept
<1>. SUFFICES ASSUME CoordTypeOK, [CoordNext]_coordVars
              PROVE  ready' = {} \/ BarrierKept
  OBVIOUS
<1>1. ASSUME NEW n \in Nodes, Register(n)
      PROVE  ready' = {} \/ BarrierKept
  BY <1>1 DEF Register, Recompute, BarrierKept, CoordTypeOK
<1>2. ASSUME NEW n \in Nodes, Leave(n)
      PROVE  ready' = {} \/ BarrierKept
  BY <1>2 DEF Leave, Recompute, coordVars, BarrierKept
<1>3. ASSUME CheckHeartbeats
      PROVE  ready' = {}
  BY <1>3 DEF CheckHeartbeats, Recompute
<1>4. CASE UNCHANGED <<rank, version>>
  BY <1>4 DEF BarrierKept
<1>. QED
  BY <1>1, <1>2, <1>3, <1>4 DEF CoordNext, coordVars, Heartbeat, Lapse, SignalReady

(* A signal enters the barrier only by the step in which the worker closes *)
(* its connections and goes on to wait or to build.                        *)
LEMMA SignalledStep ==
  /\ ClusterTypeOK /\ MovesForward /\ SignalledArrived
  /\ [ClusterNext]_vars
  => SignalledArrived'
<1>. SUFFICES ASSUME ClusterTypeOK, MovesForward, SignalledArrived, [ClusterNext]_vars
              PROVE  SignalledArrived'
  OBVIOUS
<1>1. ready' = {} \/ BarrierKept
  BY CoordinatorPart, BarrierStep DEF ClusterTypeOK
<1>2. CASE ready' = {}
  BY <1>2 DEF SignalledArrived, Signalled
<1>3. CASE ready' # {}
  <2>1. BarrierKept
    BY <1>1, <1>3
  <2>2. /\ current \in [Nodes -> Nat \union {-1}]
        /\ cfg \in [Nodes -> Configs \union {NoConfig}]
        /\ pc \in [Nodes -> Labels]
        /\ regRet \in [Nodes -> BeatLabels \union {"top"}]
        /\ comm \in [Nodes -> BOOLEAN]
        /\ rank \in [Nodes -> Nat \union {NoRank}]
    BY DEF ClusterTypeOK, CoordTypeOK
  <2>3. \A w \in Nodes : Signalled(w) /\ Forward(w)
    BY DEF SignalledArrived, MovesForward
  <2>4. ASSUME NEW w \in Nodes, <<version, w>> \notin ready' \/ <<version, w>> \in ready,
               UNCHANGED <<pc[w], regRet[w], cfg[w], current[w], comm[w]>>
        PROVE  Signalled(w)'
    BY <2>1, <2>3, <2>4 DEF BarrierKept, Signalled, Alive, Arrived, Place
  <2>5. ASSUME NEW w \in Nodes, <<version, w>> \in ready,
               Arrived(w) => Arrived(w)',
               Alive(w), pc[w] # "register"
        PROVE  Signalled(w)'
    BY <2>1, <2>3, <2>5 DEF BarrierKept, Signalled
  <2>6. ASSUME NEW w \in Nodes, current[w] = version => current'[w] = version,
               Place(w) \in {"poll", "build", "finish"} =>
                 Place(w)' \in {"poll", "build", "finish"} /\ UNCHANGED cfg[w],
               ~comm[w] => ~comm'[w]
        PROVE  Arrived(w) => Arrived(w)'
    BY <2>1, <2>6 DEF BarrierKept, Arrived
  <2>7. ASSUME NEW x \in Nodes, MainStep(x) \/ FaultStep(x)
        PROVE  \A w \in Nodes \ {x} :
                 /\ UNCHANGED <<pc[w], regRet[w], cfg[w], current[w], comm[w]>>
                 /\ <<version, w>> \notin ready' \/ <<version, w>> \in ready
    <3>1. \A w \in Nodes \ {x} :
            UNCHANGED <<pc[w], regRet[w], cfg[w], current[w], comm[w]>>
      BY <2>2, <2>7
      DEF MainStep, RegisterCall, Beat, FetchConfig, Refetch, Reconfigure, Signal,
          BarrierCleared, BarrierTimeout, BuildDies, Finish, FaultStep, Restart, Crash,
          Shutdown, FallSilent, RegisterReplyLost, BeatLost, ConfigLost, SignalLost,
          Die, Goto, CloseComm, control, pipeline
    <3>2. \A w \in Nodes \ {x} : <<version, w>> \notin ready' \/ <<version, w>> \in ready
      BY <1>3, <2>7
      DEF MainStep, RegisterCall, Beat, Contact, FetchConfig, Refetch, Reconfigure, Signal,
          BarrierCleared, BarrierTimeout, BuildDies, Finish, FaultStep, Restart, Crash,
          Shutdown, FallSilent, RegisterReplyLost, BeatLost, ConfigLost, SignalLost,
          Register, Heartbeat, Leave, Lapse, SignalReady, Recompute, coordVars
    <3>. QED
      BY <3>1, <3>2
  <2>8. ASSUME NEW w \in Nodes, MainStep(w)
        PROVE  Signalled(w)'
    <3>1. CASE RegisterCall(w)
      <4>1. w \in members /\ rank' = [rank EXCEPT ![w] = NoRank]
        BY <1>3, <3>1 DEF RegisterCall, Register, Recompute
      <4>. QED
        BY <2>2, <4>1 DEF Signalled
    <3>2. CASE Beat(w)
      <4>1. pc'[w] = AfterBeat(w, pc[w], version') /\ pc[w] \in BeatLabels
            /\ UNCHANGED <<regRet, cfg, current, comm>>
        BY <2>2, <3>2 DEF Beat, Goto, pipeline
      <4>2. Heartbeat(w) \/ rank'[w] = NoRank
        BY <1>3, <2>2, <3>2 DEF Beat, Contact, Register, Recompute
      <4>3. pc[w] = "build" => pc'[w] = "finish"
        BY <4>1 DEF AfterBeat
      <4>. QED
        BY <2>3, <2>5, <2>6, <4>1, <4>2, <4>3, AfterBeatPlace
        DEF Heartbeat, Signalled, Place, BeatLabels, Alive
    <3>3. CASE FetchConfig(w) \/ Refetch(w)
      <4>1. UNCHANGED <<ready, regRet, current, comm>> /\ pc[w] \in {"top", "refetch"}
        BY <3>3 DEF FetchConfig, Refetch, Reconfigure, Heartbeat, coordVars, pipeline
      <4>. QED
        BY <2>1, <2>2, <2>3, <4>1
        DEF BarrierKept, Signalled, Arrived, Place, Alive
    <3>4. CASE Signal(w)
      <4>1. CASE SignalReady(w, cfg[w].version) /\ pc'[w] = "poll"
        BY <2>1, <2>2, <2>3, <3>4, <4>1
        DEF Signal, CloseComm, SignalReady, BarrierKept, Signalled, Arrived, Place, Alive
      <4>2. CASE UNCHANGED ready /\ pc'[w] = "build"
        BY <2>1, <2>2, <2>5, <2>6, <3>4, <4>2
        DEF Signal, CloseComm, BarrierKept, Signalled, Place, Alive
      <4>. QED
        BY <2>2, <3>4, <4>1, <4>2 DEF Signal, Goto, coordVars
    <3>5. CASE BarrierCleared(w) \/ BarrierTimeout(w)
      BY <2>1, <2>2, <2>5, <2>6, <3>5
      DEF BarrierCleared, BarrierTimeout, Goto, pipeline, coordVars, BarrierKept,
          Signalled, Place, Alive
    <3>6. CASE BuildDies(w)
      BY <2>2, <3>6 DEF BuildDies, Die, Goto, Signalled, Alive
    <3>7. CASE Finish(w)
      <4>1. pc[w] = "finish" /\ current'[w] = cfg[w].version
            /\ UNCHANGED <<ready, rank, version>>
        BY <2>2, <3>7 DEF Finish, coordVars
      <4>2. current[w] < cfg[w].version /\ cfg[w].version <= version
            /\ current[w] \in Int /\ version \in Int /\ cfg[w].version \in Int
        <5>1. cfg[w] \in Configs /\ version \in Nat
          BY <2>2, <2>3, <4>1
          DEF Forward, Place, InReconfigure, ClusterTypeOK, CoordTypeOK
        <5>. QED
          BY <2>2, <2>3, <4>1, <5>1 DEF Forward, Place, InReconfigure, Configs
      <4>3. Arrived(w) => cfg[w].version = version
        BY <4>1, <4>2 DEF Arrived
      <4>. QED
        BY <2>3, <4>1, <4>3 DEF Signalled, Arrived, Alive
    <3>. QED
      BY <2>8, <3>1, <3>2, <3>3, <3>4, <3>5, <3>6, <3>7 DEF MainStep
  <2>9. ASSUME NEW w \in Nodes, FaultStep(w)
        PROVE  Signalled(w)'
    <3>1. CASE Restart(w)
      BY <2>2, <2>3, <3>1 DEF Restart, Goto, Forward, Signalled
    <3>2. CASE Crash(w) \/ Shutdown(w)
      BY <2>2, <3>2 DEF Crash, Shutdown, Die, Goto, Signalled, Alive
    <3>3. CASE FallSilent(w)
      BY <2>4, <3>3 DEF FallSilent, Lapse, control, pipeline
    <3>4. CASE RegisterReplyLost(w)
      <4>1. w \in members /\ rank' = [rank EXCEPT ![w] = NoRank]
        BY <1>3, <3>4 DEF RegisterReplyLost, Register, Recompute
      <4>. QED
        BY <2>2, <4>1 DEF Signalled
    <3>5. CASE BeatLost(w)
      <4>1. pc'[w] = AfterBeat(w, pc[w], current[w]) /\ pc[w] \in BeatLabels
            /\ UNCHANGED <<ready, regRet, cfg, current, comm>>
        BY <2>2, <3>5 DEF BeatLost, Heartbeat, coordVars, Goto, pipeline
      <4>2. pc[w] = "build" => pc'[w] = "finish"
        BY <4>1 DEF AfterBeat
      <4>. QED
        BY <2>1, <2>3, <2>5, <2>6, <4>1, <4>2, AfterBeatPlace
        DEF BarrierKept, Signalled, Place, BeatLabels, Alive
    <3>6. CASE ConfigLost(w)
      BY <2>1, <2>2, <2>3, <3>6
      DEF ConfigLost, Goto, coordVars, pipeline, BarrierKept, Signalled, Arrived, Place,
          Alive
    <3>7. CASE SignalLost(w)
      <4>1. pc[w] = "signal" /\ pc'[w] = "build" /\ comm'[w] = FALSE
            /\ UNCHANGED <<regRet, cfg, current>>
        BY <2>2, <3>7 DEF SignalLost, CloseComm, Goto
      <4>2. CASE SignalReady(w, cfg[w].version)
        BY <2>1, <2>3, <4>1, <4>2
        DEF SignalReady, BarrierKept, Signalled, Arrived, Place, Alive
      <4>3. CASE UNCHANGED ready
        BY <2>1, <2>3, <4>1, <4>3 DEF BarrierKept, Signalled, Arrived, Place, Alive
      <4>. QED
        BY <3>7, <4>2, <4>3 DEF SignalLost, coordVars
    <3>. QED
      BY <2>9, <3>1, <3>2, <3>3, <3>4, <3>5, <3>6, <3>7 DEF FaultStep
  <2>10. CASE Monitor \/ UNCHANGED vars
    BY <1>3, <2>4, <2>10
    DEF Monitor, CheckHeartbeats, Recompute, vars, coordVars, control, pipeline,
        SignalledArrived
  <2>11. CASE \E x \in Nodes : MainStep(x) \/ FaultStep(x)
    BY <2>4, <2>7, <2>8, <2>9, <2>11 DEF SignalledArrived
  <2>. QED
    BY <2>10, <2>11 DEF ClusterNext
<1>. QED
  BY <1>2, <1>3

(* The barrier of reconfigure(): clear for the current version, it means   *)
(* that every live member that kept its rank has fetched this version and  *)
(* closed its old connections.                                             *)
THEOREM BarrierMeansArrived == ClusterSpec => []ClearBarrierMeansArrived
<1>1. ClusterInit => SignalledArrived
  BY DEF ClusterInit, CoordInit, SignalledArrived, Signalled
<1>2. ClusterTypeOK /\ SignalledArrived => ClearBarrierMeansArrived
  BY DEF ClusterTypeOK, CoordTypeOK, SignalledArrived, Signalled,
     ClearBarrierMeansArrived, CheckBarrier, Place
<1>. QED
  BY <1>1, <1>2, ClusterInvariant, SignalledStep, PTL DEF ClusterSpec

=============================================================================
