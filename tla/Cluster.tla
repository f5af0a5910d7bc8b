------------------------------- MODULE Cluster -------------------------------
(***************************************************************************)
(* Workers (ravnest/worker.py) running against the coordinator: the main   *)
(* loop run(), reconfigure() with its barrier, and the failures they meet. *)
(* An HTTP call is one step, processed by the coordinator and answered, or *)
(* lost: then the coordinator may or may not have processed it and the     *)
(* worker sees an exception.                                               *)
(*                                                                         *)
(* self.reconfiguring does not appear: the main loop's branch for a paused *)
(* worker makes the same calls and takes the same decisions as the branch  *)
(* for one that is not.                                                    *)
(***************************************************************************)
EXTENDS Coordinator

CONSTANTS NoConfig,          \* Python's None where a configuration may stand
          HeartbeatTimeout,  \* ravnest coordinator --heartbeat-timeout
          Failures           \* what may fail: how often each kind, at most

FailureKinds == {"crash", "restart", "shutdown", "lapse", "loss"}

ASSUME NoConfigAssumption == NoConfig \notin Configs
ASSUME TimeoutAssumption == HeartbeatTimeout \in Nat
ASSUME FailuresAssumption == Failures \subseteq [FailureKinds -> Nat]

(* Seconds: the wait at the barrier, and between two looks of the monitor. *)
BarrierWait == 90
MonitorPeriod == 5

VARIABLES pc,       \* where the main thread is
          regRet,   \* where register() returns to
          recRet,   \* where reconfigure() returns to
          cfg,      \* the configuration reconfigure() works on
          current,  \* self.current_version
          engine,   \* the configuration self.engine was built for
          comm,     \* are the sockets of self.node open
          loops,    \* which of the API server and the leaf loop thread run
          faults    \* how many failures of each kind may still come

control == <<pc, regRet, recRet, cfg>>
pipeline == <<current, engine, comm, loops>>
vars == <<coordVars, control, pipeline, faults>>

(* Labels at which the main thread is about to POST /heartbeat. *)
BeatLabels == {"idle", "load", "build", "beat"}
Labels == BeatLabels \union
          {"dead", "register", "top", "refetch", "signal", "poll", "finish"}

Alive(w) == pc[w] # "dead"
Fault(kind) == faults[kind] > 0 /\ faults' = [faults EXCEPT ![kind] = @ - 1]
NoFault == UNCHANGED faults
Goto(w, label) == pc' = [pc EXCEPT ![w] = label]

(* Some member of configuration c has no rank: the JSON key "null". *)
Rankless(c) == \E m \in c.peers : c.rank[m] = NoRank

ClusterInit ==
  /\ CoordInit
  /\ pc \in [Nodes -> {"register", "dead"}]
  /\ regRet = [w \in Nodes |-> "top"]
  /\ recRet = [w \in Nodes |-> "top"]
  /\ cfg = [w \in Nodes |-> NoConfig]
  /\ current = [w \in Nodes |-> -1]
  /\ engine = [w \in Nodes |-> NoConfig]
  /\ comm = [w \in Nodes |-> FALSE]
  /\ loops = [w \in Nodes |-> {}]
  /\ faults \in Failures

-----------------------------------------------------------------------------
(* The life of a worker process. *)

(* A process that is dead, or was not started, starts and will register. *)
Restart(w) ==
  /\ pc[w] = "dead"
  /\ Fault("restart")
  /\ Goto(w, "register")
  /\ UNCHANGED <<coordVars, regRet, recRet, cfg, pipeline>>

(* The process ends: sockets, threads and everything it knew are gone. *)
Die(w) ==
  /\ Goto(w, "dead")
  /\ regRet' = [regRet EXCEPT ![w] = "top"]
  /\ recRet' = [recRet EXCEPT ![w] = "top"]
  /\ cfg' = [cfg EXCEPT ![w] = NoConfig]
  /\ current' = [current EXCEPT ![w] = -1]
  /\ engine' = [engine EXCEPT ![w] = NoConfig]
  /\ comm' = [comm EXCEPT ![w] = FALSE]
  /\ loops' = [loops EXCEPT ![w] = {}]

(* The OSError of a port that an earlier build still holds ends a process  *)
(* at "finish" in the same way: see Cadence.                               *)
Crash(w) == Alive(w) /\ Fault("crash") /\ Die(w) /\ UNCHANGED coordVars

(* The signal handler: leave the cluster and exit. *)
Shutdown(w) == Alive(w) /\ Fault("shutdown") /\ Leave(w) /\ Die(w)

(* Where a live worker may make no heartbeat for too long: nobody bounds   *)
(* the loading of the model and the building of the pipeline, and the wait *)
(* at the barrier has its 90 seconds.                                      *)
SlowLabels ==
  {"load", "finish"} \union
  (IF HeartbeatTimeout < BarrierWait THEN {"poll"} ELSE {})

(* A dead process falls silent, and so does a live one that is slow. *)
FallSilent(w) ==
  /\ Lapse(w)
  /\ \/ ~Alive(w) /\ NoFault
     \/ pc[w] \in SlowLabels /\ Fault("lapse")
  /\ UNCHANGED <<control, pipeline>>

(* The coordinator's monitor thread. *)
Monitor ==
  /\ CheckHeartbeats
  /\ UNCHANGED <<control, pipeline, faults>>

-----------------------------------------------------------------------------
(* register() and heartbeat(). *)

(* Where the main thread goes when the heartbeat at `label' has returned   *)
(* the version v: only the loop in run() looks at it.                      *)
AfterBeat(w, label, v) ==
  IF label = "load" THEN "signal"
  ELSE IF label = "build" THEN "finish"
  ELSE IF label = "beat" /\ v # current[w] THEN "refetch"
  ELSE "top"

RegisterCall(w) ==
  /\ pc[w] = "register"
  /\ Register(w)
  /\ Goto(w, AfterBeat(w, regRet[w], version'))
  /\ regRet' = [regRet EXCEPT ![w] = "top"]
  /\ UNCHANGED <<recRet, cfg, pipeline, faults>>

(* Mutant: a 404 is handled like any other failed call. *)
ContactWithoutRejoin(w) ==
  Heartbeat(w) \/ (w \notin members /\ UNCHANGED coordVars)

(* heartbeat().  404 makes it register again, in the same step: a node     *)
(* that is no member stays none until it registers.                        *)
Contact(w) == Heartbeat(w) \/ (w \notin members /\ Register(w))

(* configure_pipeline with a rank missing: int("null") raises before the   *)
(* heartbeat.                                                              *)
Poisoned(w) == pc[w] = "build" /\ Rankless(cfg[w])

Beat(w) ==
  /\ pc[w] \in BeatLabels
  /\ ~Poisoned(w)
  /\ Contact(w)
  /\ Goto(w, AfterBeat(w, pc[w], version'))
  /\ UNCHANGED <<regRet, recRet, cfg, pipeline, faults>>

(* The answer to a registration is lost: the loop in register() repeats    *)
(* the call.                                                               *)
RegisterReplyLost(w) ==
  /\ Fault("loss")
  /\ Register(w)
  /\ \/ pc[w] = "register" /\ UNCHANGED <<pc, regRet>>
     \/ /\ pc[w] \in BeatLabels /\ ~Poisoned(w) /\ w \notin members
        /\ Goto(w, "register")
        /\ regRet' = [regRet EXCEPT ![w] = pc[w]]
  /\ UNCHANGED <<recRet, cfg, pipeline>>

(* heartbeat() returns None, and its callers go on as if nothing changed. *)
BeatLost(w) ==
  /\ pc[w] \in BeatLabels
  /\ ~Poisoned(w)
  /\ Fault("loss")
  /\ Heartbeat(w) \/ UNCHANGED coordVars
  /\ Goto(w, AfterBeat(w, pc[w], current[w]))
  /\ UNCHANGED <<regRet, recRet, cfg, pipeline>>

-----------------------------------------------------------------------------
(* get_config() and the entry of reconfigure(). *)

(* reconfigure(config) up to load_model.  Its first heartbeat is part of   *)
(* this step: the one after load_model repeats it and meets every failure  *)
(* this one can meet.                                                      *)

Reconfigure(w, return) ==
  /\ Goto(w, "load")
  /\ recRet' = [recRet EXCEPT ![w] = return]
  /\ cfg' = [cfg EXCEPT ![w] = Config]
  /\ Heartbeat(w)

(* The call at the top of the loop. *)
FetchConfig(w) ==
  /\ pc[w] = "top"
  /\ \/ /\ ConfigAvailable(w)
        /\ version # current[w]
        /\ Reconfigure(w, "beat")
     \/ /\ ConfigAvailable(w)
        /\ version = current[w]
        /\ Goto(w, "beat")
        /\ UNCHANGED <<coordVars, recRet, cfg>>
     \/ /\ ~ConfigAvailable(w)
        /\ Goto(w, "idle")
        /\ UNCHANGED <<coordVars, recRet, cfg>>
  /\ UNCHANGED <<regRet, pipeline, faults>>

(* The call after a heartbeat that showed another version. *)
Refetch(w) ==
  /\ pc[w] = "refetch"
  /\ \/ /\ ConfigAvailable(w)
        /\ Reconfigure(w, "top")
     \/ /\ ~ConfigAvailable(w)
        /\ Goto(w, "top")
        /\ UNCHANGED <<coordVars, recRet, cfg>>
  /\ UNCHANGED <<regRet, pipeline, faults>>

(* Either call fails: get_config() returns None. *)
ConfigLost(w) ==
  /\ Fault("loss")
  /\ \/ pc[w] = "top" /\ Goto(w, "idle")
     \/ pc[w] = "refetch" /\ Goto(w, "top")
  /\ UNCHANGED <<coordVars, regRet, recRet, cfg, pipeline>>

-----------------------------------------------------------------------------
(* reconfigure(): close, signal, wait, build. *)

CloseComm(w) ==
  /\ comm' = [comm EXCEPT ![w] = FALSE]
  /\ UNCHANGED <<current, engine, loops>>

(* Close the old connections and POST /ready; a 404 ends wait_barrier. *)
Signal(w) ==
  /\ pc[w] = "signal"
  /\ CloseComm(w)
  /\ \/ SignalReady(w, cfg[w].version) /\ Goto(w, "poll")
     \/ w \notin members /\ Goto(w, "build") /\ UNCHANGED coordVars
  /\ UNCHANGED <<regRet, recRet, cfg, faults>>

(* So does any other exception of the call. *)
SignalLost(w) ==
  /\ pc[w] = "signal"
  /\ Fault("loss")
  /\ CloseComm(w)
  /\ SignalReady(w, cfg[w].version) \/ UNCHANGED coordVars
  /\ Goto(w, "build")
  /\ UNCHANGED <<regRet, recRet, cfg>>

(* wait_barrier returns, because the barrier is clear or after 90 seconds; *)
(* reconfigure() proceeds either way.                                      *)
BarrierCleared(w) ==
  /\ pc[w] = "poll"
  /\ CheckBarrier(cfg[w].version)
  /\ Goto(w, "build")
  /\ UNCHANGED <<coordVars, regRet, recRet, cfg, pipeline, faults>>

(* No heartbeat is made during the 90 seconds: with the default timeout of *)
(* 60 the coordinator has removed a worker that waits them out.            *)
BarrierTimeout(w) ==
  /\ pc[w] = "poll"
  /\ ~CheckBarrier(cfg[w].version)
  /\ HeartbeatTimeout + MonitorPeriod < BarrierWait => w \notin members
  /\ Goto(w, "build")
  /\ UNCHANGED <<coordVars, regRet, recRet, cfg, pipeline, faults>>

(* The exception leaves reconfigure() and run(), and ends the process. *)
BuildDies(w) == Poisoned(w) /\ Die(w) /\ UNCHANGED <<coordVars, faults>>

(* Node and InferenceEngine are built whether or not every peer answers,   *)
(* then the loop for the rank is started unless it runs already.           *)
Finish(w) ==
  /\ pc[w] = "finish"
  /\ Goto(w, recRet[w])
  /\ recRet' = [recRet EXCEPT ![w] = "top"]
  /\ cfg' = [cfg EXCEPT ![w] = NoConfig]
  /\ engine' = [engine EXCEPT ![w] = cfg[w]]
  /\ comm' = [comm EXCEPT ![w] = TRUE]
  /\ current' = [current EXCEPT ![w] = cfg[w].version]
  /\ loops' = [loops EXCEPT ![w] =
                 @ \union {IF cfg[w].rank[w] = 0 THEN "api" ELSE "leaf"}]
  /\ UNCHANGED <<coordVars, regRet, faults>>

-----------------------------------------------------------------------------
MainStep(w) ==
  \/ RegisterCall(w)
  \/ Beat(w)
  \/ FetchConfig(w)
  \/ Refetch(w)
  \/ Signal(w)
  \/ BarrierCleared(w)
  \/ BarrierTimeout(w)
  \/ BuildDies(w)
  \/ Finish(w)

FaultStep(w) ==
  \/ Restart(w)
  \/ Crash(w)
  \/ Shutdown(w)
  \/ FallSilent(w)
  \/ RegisterReplyLost(w)
  \/ BeatLost(w)
  \/ ConfigLost(w)
  \/ SignalLost(w)

ClusterNext ==
  \/ Monitor
  \/ \E w \in Nodes : MainStep(w) \/ FaultStep(w)

ClusterSpec == ClusterInit /\ [][ClusterNext]_vars

(* The main thread and the monitor thread run while the process lives, and *)
(* a dead process falls silent.  Nothing makes a process fail or restart.  *)
Fairness ==
  /\ WF_vars(Monitor)
  /\ WF_vars(\E w \in Nodes : ~Alive(w) /\ FallSilent(w))
  /\ \A w \in Nodes : WF_vars(MainStep(w))

FairSpec == ClusterSpec /\ Fairness

-----------------------------------------------------------------------------
(* Where a worker stands in its own code, a pending register() aside. *)
Place(w) == IF pc[w] = "register" THEN regRet[w] ELSE pc[w]

(* The types of the coordinator's and the workers' fields. *)
ClusterTypeOK ==
  /\ CoordTypeOK
  /\ pc \in [Nodes -> Labels]
  /\ regRet \in [Nodes -> BeatLabels \union {"top"}]
  /\ recRet \in [Nodes -> {"top", "beat"}]
  /\ current \in [Nodes -> Nat \union {-1}]
  /\ cfg \in [Nodes -> Configs \union {NoConfig}]
  /\ engine \in [Nodes -> Configs \union {NoConfig}]
  /\ comm \in [Nodes -> BOOLEAN]
  /\ loops \in [Nodes -> SUBSET {"api", "leaf"}]
  /\ faults \in [FailureKinds -> Nat]

(* Any two workers that hold, run or serve a configuration of the same     *)
(* version hold the same list of members, whatever happened between their  *)
(* two GET /config calls; so no two of them take the same rank or build    *)
(* pipelines of different lengths ("cluster_version increments on every    *)
(* cluster change", coordinator.py).                                       *)
Held == (UNION {{cfg[w], engine[w]} : w \in Nodes}) \ {NoConfig}

SameVersionSameMembers ==
  \A c, d \in Held :
    c.version = d.version =>
      /\ c.peers = d.peers
      /\ \A m, n \in c.peers :
           m # n /\ c.rank[m] # NoRank => c.rank[m] # d.rank[n]

(* The barrier of reconfigure(): when the coordinator reports that all     *)
(* nodes are ready for the current version, every live member that kept    *)
(* its rank has that version's configuration in hand and its old sockets   *)
(* closed, or runs that version already.  A member without a rank is one   *)
(* that registered twice; one whose restarted process has not registered   *)
(* yet is unknown to the coordinator.                                      *)
Arrived(n) ==
  \/ current[n] = version
  \/ /\ Place(n) \in {"poll", "build", "finish"}
     /\ cfg[n].version = version
     /\ ~comm[n]

ClearBarrierMeansArrived ==
  CheckBarrier(version) =>
    \A n \in members :
      Alive(n) /\ rank[n] # NoRank /\ Place(n) # "top" => Arrived(n)

(* Once failures stop, the cluster reconfigures by itself ("when nodes     *)
(* join or leave, the cluster reconfigures automatically", deploy/README): *)
(* the coordinator's members become exactly the live workers and, with     *)
(* enough of them, all of them run the current version, for good.  This is *)
(* claimed of a heartbeat_timeout above the 90 seconds at the barrier and  *)
(* the 140 a build can wait for its peers, so that a worker falls silent   *)
(* only by a failure.  At the default of 60 every wait that runs out       *)
(* removes a live worker and empties the barrier for the others; Cadence   *)
(* shows what becomes of two workers then.                                 *)
Converged ==
  LET up == {w \in Nodes : Alive(w)} IN
  /\ members = up
  /\ Cardinality(up) >= MinNodes => \A w \in up : current[w] = version

EventuallyConverged == <>[]Converged

(* Calls, barriers and failures hidden, the cluster is a sequence of       *)
(* numbered views: a change of the membership always comes with a new      *)
(* cluster_version, a version never changes its membership, and            *)
(* self.current_version of a worker only moves forward, to a version that  *)
(* was issued, until its process ends.                                     *)
Views == INSTANCE Membership WITH adopted <- current

ImplementsMembership == Views!Spec
=============================================================================
