-------------------------------- MODULE Sessions --------------------------------
(***************************************************************************)
(* How the nodes of a pipeline build their communication sessions, once    *)
(* their processes run: Communication_Dynamic._setup_connections, and      *)
(* Communication_Torch.__init__ with its groups and the warm-up of nccl.   *)
(*                                                                         *)
(* With the dynamic back end every node listens, threads accept from the   *)
(* previous node (at the root: from all others) and connect to the next    *)
(* one and to the root, and the constructor joins them, each for a while.  *)
(* With gloo and nccl every node goes through a program of groups, and     *)
(* waits at each for the other members: new_group is called by the whole   *)
(* world, and the first operation on an nccl group by all its members.     *)
(*                                                                         *)
(* A node loads its model first, for any time, and may exit at any time.   *)
(* Timers run out only on a peer that is not there yet, or no more.        *)
(***************************************************************************)
EXTENDS Integers, Sequences, FiniteSets, SequencesExt

CONSTANT World \* world_size

ASSUME WorldAssumption == World \in Nat \ {0, 1}

Members == 0..(World - 1)
LastRank == World - 1

VARIABLES backend,  \* "dynamic", "gloo" or "nccl"
          training, \* NodeModes.TRAIN rather than INFERENCE
          phase,    \* where the constructor of a node is
          link,     \* the threads connect_next and connect_metadata
          waiting,  \* ranks that have connected to a node, not accepted yet
          peers,    \* ranks accepted from: peers[prev], peers["meta_r"]
          accepts,  \* accept_prev or accept_metadata is alive
          step,     \* of the program of groups
          expired   \* nodes where a timer has run out

sessionVars == <<backend, training, phase, link, waiting, peers, accepts, step, expired>>

(* The rank that a thread connects to, and the ranks a node accepts from.  *)
Target(r, kind) == IF kind = "next" THEN r + 1 ELSE 0
Threads(r) == (IF r < LastRank THEN {"next"} ELSE {}) \union (IF r > 0 THEN {"meta"} ELSE {})
Callers(r) == IF r = 0 THEN Members \ {0} ELSE {r - 1}

SessionsInit ==
  /\ backend \in {"dynamic", "gloo", "nccl"}
  /\ training \in BOOLEAN
  /\ backend = "dynamic" => ~training
  /\ phase = [r \in Members |-> "loading"]
  /\ link = [r \in Members |-> [k \in {"next", "meta"} |-> "none"]]
  /\ waiting = [r \in Members |-> {}]
  /\ peers = [r \in Members |-> {}]
  /\ accepts = [r \in Members |-> FALSE]
  /\ step = [r \in Members |-> 1]
  /\ expired = {}

(* The model is loaded; listen, and start the threads. *)
Listen(r) ==
  /\ phase[r] = "loading"
  /\ phase' = [phase EXCEPT ![r] = "joining"]
  /\ IF backend # "dynamic" THEN UNCHANGED <<link, accepts>>
     ELSE /\ link' = [link EXCEPT ![r] = [k \in {"next", "meta"} |->
                                            IF k \in Threads(r) THEN "trying" ELSE "none"]]
          /\ accepts' = [accepts EXCEPT ![r] = TRUE]
  /\ UNCHANGED <<backend, training, waiting, peers, step, expired>>

NodeExits(r) ==
  /\ phase[r] # "gone"
  /\ phase' = [phase EXCEPT ![r] = "gone"]
  /\ UNCHANGED <<backend, training, link, waiting, peers, accepts, step, expired>>

-----------------------------------------------------------------------------
(* The dynamic back end. *)

Lives(r) == phase[r] \in {"joining", "ready"}

(* connect, and sendall of the own rank. *)
ConnectPeer(r, kind) ==
  /\ Lives(r) /\ link[r][kind] = "trying" /\ Lives(Target(r, kind))
  /\ link' = [link EXCEPT ![r][kind] = "done"]
  /\ waiting' = [waiting EXCEPT ![Target(r, kind)] = @ \union {r}]
  /\ UNCHANGED <<backend, training, phase, peers, accepts, step, expired>>

(* RuntimeError after max_attempts: it ends the thread, not the node. *)
ConnectFails(r, kind) ==
  /\ Lives(r) /\ link[r][kind] = "trying" /\ ~Lives(Target(r, kind))
  /\ link' = [link EXCEPT ![r][kind] = "failed"]
  /\ expired' = expired \union {r}
  /\ UNCHANGED <<backend, training, phase, waiting, peers, accepts, step>>

(* Mutant: the root accepts metadata channels of one rank less. *)
AcceptOneLess(r) ==
  /\ Lives(r) /\ accepts[r]
  /\ \E s \in waiting[r] :
       /\ peers' = [peers EXCEPT ![r] = @ \union {s}]
       /\ waiting' = [waiting EXCEPT ![r] = @ \ {s}]
  /\ accepts' = [accepts EXCEPT ![r] = Cardinality(peers'[r]) < Cardinality(Callers(r)) - 1]
  /\ UNCHANGED <<backend, training, phase, link, step, expired>>

(* accept, and recv of the rank. *)
AcceptPeer(r) ==
  /\ Lives(r) /\ accepts[r]
  /\ \E s \in waiting[r] :
       /\ peers' = [peers EXCEPT ![r] = @ \union {s}]
       /\ waiting' = [waiting EXCEPT ![r] = @ \ {s}]
  /\ accepts' = [accepts EXCEPT ![r] = Cardinality(peers'[r]) < Cardinality(Callers(r))]
  /\ UNCHANGED <<backend, training, phase, link, step, expired>>

(* A caller is not there, or has given up. *)
Missing(r) ==
  {s \in Callers(r) \ (peers[r] \union waiting[r]) :
     ~Lives(s) \/ link[s][IF r = 0 THEN "meta" ELSE "next"] = "failed"}

(* accept raises socket.timeout after 300 s, which ends its thread. *)
AcceptExpires(r) ==
  /\ Lives(r) /\ accepts[r] /\ waiting[r] = {} /\ Missing(r) # {}
  /\ accepts' = [accepts EXCEPT ![r] = FALSE]
  /\ expired' = expired \union {r}
  /\ UNCHANGED <<backend, training, phase, link, waiting, peers, step>>

Works(r) == accepts[r] \/ \E k \in Threads(r) : link[r][k] = "trying"
Lacks(r) == \/ Missing(r) # {}
            \/ \E k \in Threads(r) : link[r][k] # "done" /\ ~Lives(Target(r, k))

(* The threads are joined, or conn_timeout + 10 s are over for the last    *)
(* one: the node goes on with the peers it has.                            *)
Joined(r) ==
  /\ backend = "dynamic" /\ phase[r] = "joining"
  /\ \/ ~Works(r) /\ UNCHANGED expired
     \/ Works(r) /\ Lacks(r) /\ expired' = expired \union {r}
  /\ phase' = [phase EXCEPT ![r] = "ready"]
  /\ UNCHANGED <<backend, training, link, waiting, peers, accepts, step>>

-----------------------------------------------------------------------------
(* torch.distributed.  A group is [name, members]. *)

Group(name, members) == [name |-> name, members |-> members]
Pair(name, i) == Group(<<name, i>>, {i, i + 1})
Everybody(name) == Group(<<name, World>>, Members)

(* prepare_process_groups: the whole world meets at each new_group. *)
PreparedGroups ==
  LET of(i) == IF training THEN <<Everybody(<<"forward", i>>), Everybody(<<"backward", i>>)>>
               ELSE <<Everybody(<<"forward", i>>)>>
      pairs == FlattenSeq([i \in 1..LastRank |-> of(i - 1)])
  IN <<Everybody("world")>> \o pairs
       \o (IF training THEN <<>>
           ELSE <<Everybody("metadata"), Everybody("feedback"), Everybody("memory")>>)

(* Mutant: a stem waits for metadata before feedback. *)
SharedCrossed(r) ==
  IF r \in {0, LastRank} THEN <<Everybody("feedback"), Everybody("metadata"), Everybody("memory")>>
  ELSE <<Everybody("metadata"), Everybody("feedback"), Everybody("memory")>>

(* The groups of all nodes, in the order in which a node warms them up. *)
Shared(r) == <<Everybody("feedback"), Everybody("metadata"), Everybody("memory")>>

(* nccl_warmup_groups: one operation on every group, in this order. *)
WarmUp(r) ==
  (IF r > 0 THEN <<Pair("forward", r - 1)>> ELSE <<>>)
    \o (IF r < LastRank THEN <<Pair("forward", r)>> ELSE <<>>)
    \o (IF ~training THEN Shared(r)
        ELSE (IF r < LastRank THEN <<Pair("backward", r)>> ELSE <<>>)
               \o (IF r > 0 THEN <<Pair("backward", r - 1)>> ELSE <<>>))

Program(r) == PreparedGroups \o (IF backend = "nccl" THEN WarmUp(r) ELSE <<>>)
IsAt(r, g) == phase[r] = "joining" /\ step[r] <= Len(Program(r)) /\ Program(r)[step[r]] = g

(* The members of r's group have all come: each of them goes on. *)
Meet(r) ==
  /\ backend # "dynamic" /\ phase[r] = "joining" /\ step[r] <= Len(Program(r))
  /\ LET g == Program(r)[step[r]]
     IN /\ r = CHOOSE q \in g.members : TRUE
        /\ \A q \in g.members : IsAt(q, g)
        /\ step' = [q \in Members |-> step[q] + IF q \in g.members THEN 1 ELSE 0]
  /\ UNCHANGED <<backend, training, phase, link, waiting, peers, accepts, expired>>

Prepared(r) ==
  /\ backend # "dynamic" /\ phase[r] = "joining" /\ step[r] > Len(Program(r))
  /\ phase' = [phase EXCEPT ![r] = "ready"]
  /\ UNCHANGED <<backend, training, link, waiting, peers, accepts, step, expired>>

(* A member does not come within dist_timeout: the error ends the node. *)
GroupFails(r) ==
  /\ backend # "dynamic" /\ phase[r] = "joining" /\ step[r] <= Len(Program(r))
  /\ \E q \in Program(r)[step[r]].members : phase[q] \in {"loading", "gone"}
  /\ phase' = [phase EXCEPT ![r] = "gone"]
  /\ expired' = expired \union {r}
  /\ UNCHANGED <<backend, training, link, waiting, peers, accepts, step>>

-----------------------------------------------------------------------------
SessionStep ==
  \E r \in Members : \/ Listen(r) \/ AcceptPeer(r) \/ AcceptExpires(r) \/ Joined(r)
                     \/ Meet(r) \/ Prepared(r) \/ GroupFails(r)
                     \/ \E k \in {"next", "meta"} :
                           ConnectPeer(r, k) \/ ConnectFails(r, k)

SessionsNext == SessionStep \/ \E r \in Members : NodeExits(r)

(* The set-up is over at every node.  Unless a node has exited or a timer  *)
(* has run out, every session is whole: each end of a connection has it.   *)
HasAllPeers(r) ==
  backend = "dynamic" => peers[r] = Callers(r) /\ \A k \in Threads(r) : link[r][k] = "done"
SessionsOver ==
  /\ \A r \in Members : phase[r] \in {"ready", "gone"}
  /\ (\A r \in Members : phase[r] = "ready") /\ expired = {} => \A r \in Members : HasAllPeers(r)
=============================================================================
