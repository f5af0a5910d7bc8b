----------------------------- MODULE Coordinator -----------------------------
(***************************************************************************)
(* The cluster coordinator: class ClusterState of ravnest/coordinator.py.  *)
(* Every method runs under self.lock, so every method is one action.       *)
(*                                                                         *)
(* A node id is an integer: the code uses ids only as dictionary keys and  *)
(* in sorted(), so all that matters is equality and the order.  Hardware,  *)
(* proportions and the event log are left out.  last_seen is represented   *)
(* by `stale', the members whose last_seen is more than heartbeat_timeout  *)
(* ago.                                                                    *)
(***************************************************************************)
EXTENDS Integers, FiniteSets

CONSTANTS Nodes,     \* ids of the machines that may ever register
          MinNodes,  \* members needed before /config answers
          NoRank     \* Python's None, the rank before the first _recompute

ASSUME NodesAssumption == Nodes \subseteq Int /\ IsFiniteSet(Nodes)
ASSUME MinNodesAssumption == MinNodes \in Nat
ASSUME NoRankAssumption == NoRank \notin Nat

VARIABLES members,   \* keys of self.nodes
          rank,      \* self.nodes[n]["rank"]; NoRank for a non-member
          version,   \* self.cluster_version
          ready,     \* self.ready_nodes, as pairs <<version, node>>
          stale      \* members not heard of for heartbeat_timeout seconds

coordVars == <<members, rank, version, ready, stale>>

(* Mutant: an index that forgets the first id. *)
PositionOffByOne(S, n) == Cardinality({m \in S : m < n}) - 1

(* The index of n in sorted(S). *)
Position(S, n) == Cardinality({m \in S : m < n})

CoordInit ==
  /\ members = {}
  /\ rank = [n \in Nodes |-> NoRank]
  /\ version = 0
  /\ ready = {}
  /\ stale = {}

(* Mutant: only the nodes without a rank get one. *)
RecomputeUnrankedOnly(S) ==
  /\ ready' = {}
  /\ rank' = [n \in Nodes |-> IF n \notin S THEN NoRank
                             ELSE IF rank[n] = NoRank THEN Position(S, n) ELSE rank[n]]
  /\ version' = version + 1

(* Mutant: the line that clears the old barriers is missing. *)
RecomputeKeepsBarriers(S) ==
  /\ UNCHANGED ready
  /\ rank' = [n \in Nodes |-> IF n \in S THEN Position(S, n) ELSE NoRank]
  /\ version' = version + 1

(* _recompute, for the membership S that the calling method leaves behind. *)
Recompute(S) ==
  /\ ready' = {}
  /\ rank' = [n \in Nodes |-> IF n \in S THEN Position(S, n) ELSE NoRank]
  /\ version' = version + 1

(* Mutant: is_new is not looked at. *)
RegisterAlwaysRecomputes(n) ==
  /\ members' = members \union {n}
  /\ stale' = stale \ {n}
  /\ Recompute(members')

(* register: a known id gets a fresh entry without a rank, and only a new  *)
(* one causes a _recompute.                                                *)
Register(n) ==
  /\ members' = members \union {n}
  /\ stale' = stale \ {n}
  /\ \/ n \notin members /\ Recompute(members')
     \/ /\ n \in members
        /\ rank' = [rank EXCEPT ![n] = NoRank]
        /\ UNCHANGED <<version, ready>>

(* heartbeat, for a member; for any other id it raises and changes nothing.*)
Heartbeat(n) ==
  /\ n \in members
  /\ stale' = stale \ {n}
  /\ UNCHANGED <<members, rank, version, ready>>

(* remove, called by POST /leave. *)
Leave(n) ==
  \/ /\ n \in members
     /\ members' = members \ {n}
     /\ stale' = stale \ {n}
     /\ Recompute(members')
  \/ n \notin members /\ UNCHANGED coordVars

(* heartbeat_timeout seconds go by without a call from member n. *)
Lapse(n) ==
  /\ n \in members \ stale
  /\ stale' = stale \union {n}
  /\ UNCHANGED <<members, rank, version, ready>>

(* Mutant: dead nodes are deleted and _recompute is not called. *)
CheckHeartbeatsOnlyDeletes ==
  /\ stale # {}
  /\ members' = members \ stale
  /\ stale' = {}
  /\ rank' = [n \in Nodes |-> IF n \in stale THEN NoRank ELSE rank[n]]
  /\ UNCHANGED <<version, ready>>

(* check_heartbeats: all stale members go at once, with one _recompute. *)
CheckHeartbeats ==
  /\ stale # {}
  /\ members' = members \ stale
  /\ stale' = {}
  /\ Recompute(members')

(* signal_ready: v is not compared with cluster_version. *)
SignalReady(n, v) ==
  /\ n \in members
  /\ ready' = ready \union {<<v, n>>}
  /\ UNCHANGED <<members, rank, version, stale>>

(* Mutant: min_nodes ready nodes are enough. *)
CheckBarrierCounts(v) ==
  Cardinality({n \in Nodes : <<v, n>> \in ready}) >= MinNodes

(* _check_barrier: the key v exists once somebody has signalled v. *)
CheckBarrier(v) ==
  /\ \E n \in Nodes : <<v, n>> \in ready
  /\ \A n \in members : <<v, n>> \in ready

(* GET /config/n: 404 for a non-member, 503 below min_nodes, otherwise the *)
(* version and the peers with their ranks.  The caller's own rank,         *)
(* world_size and master_addr are functions of these.                      *)
ConfigAvailable(n) == n \in members /\ Cardinality(members) >= MinNodes
Config == [version |-> version, peers |-> members, rank |-> rank]

(* The coordinator under any order of calls.  A caller signals only a      *)
(* version it has been given.                                              *)
CoordNext ==
  \/ \E n \in Nodes :
       \/ Register(n)
       \/ Heartbeat(n)
       \/ Leave(n)
       \/ Lapse(n)
       \/ \E v \in 0 .. version : SignalReady(n, v)
  \/ CheckHeartbeats

CoordSpec == CoordInit /\ [][CoordNext]_coordVars

-----------------------------------------------------------------------------
(* What GET /config may answer. *)
Configs ==
  [version : Nat, peers : SUBSET Nodes, rank : [Nodes -> Nat \union {NoRank}]]

(* The types of ClusterState's fields: members are registered ids, ranks   *)
(* are None or indices, the barrier table holds pairs of numbers and ids.  *)
CoordTypeOK ==
  /\ members \subseteq Nodes
  /\ rank \in [Nodes -> Nat \union {NoRank}]
  /\ version \in Nat
  /\ ready \subseteq Nat \X Nodes
  /\ stale \subseteq members

(* Whatever mix of joins, leaves, timeouts and repeated registrations has  *)
(* happened, a rank that is not None is the member's index in sorted ids   *)
(* (get_node_config takes sorted_nodes[0] as the master and trusts that it *)
(* is also rank 0), and a non-member has none.                             *)
RanksFollowIdOrder ==
  \A n \in Nodes :
    rank[n] # NoRank => n \in members /\ rank[n] = Position(members, n)

(* The barrier table never counts a node that has left: a removed node     *)
(* that comes back must signal again, and nobody is waiting for a version  *)
(* that has not been issued.                                               *)
ReadyAreMembers ==
  \A p \in ready : p[1] <= version /\ p[2] \in members
=============================================================================
