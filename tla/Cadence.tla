------------------------------- MODULE Cadence -------------------------------
(***************************************************************************)
(* Two workers that start together under a coordinator with min_nodes = 2, *)
(* with the times of the code: what Cluster leaves open, how long each     *)
(* wait lasts, decides whether they ever meet.  No call is lost and no     *)
(* process is killed; only the time the first load_model takes is free.    *)
(*                                                                         *)
(* Time passes in steps of Tick seconds, and only when both workers wait:  *)
(* every call and every other step of a worker takes no time.  A           *)
(* configuration is handed out only while both are members, so the ranks   *)
(* are 0 for the root and 1 for the leaf.  Version numbers are used again  *)
(* once nobody holds them.                                                 *)
(* Left out is the pause after a lost connection, in which the main loop   *)
(* looks for a new version every 5 seconds instead of every 10.            *)
(***************************************************************************)
EXTENDS Integers, FiniteSets

CONSTANTS HeartbeatTimeout, \* ravnest coordinator --heartbeat-timeout, seconds
          MaxLoad,          \* the longest first load_model, in seconds
          Tick              \* one step of time, in seconds

Ticks(seconds) == seconds \div Tick

Root == 0
Leaf == 1
Workers == {Root, Leaf}
Peer(w) == 1 - w

Gone == -1      \* age of a worker that is no member
None == 0       \* no version
Versions == 1 .. 6

VARIABLES age,       \* ticks since last_seen, for each member
          version,   \* cluster_version
          ready,     \* ready_nodes
          pc,        \* where the main thread is
          left,      \* ticks left of the wait it is in
          return,    \* where reconfigure() returns to
          cfg,       \* the version reconfigure() works on
          current,   \* self.current_version
          load,      \* ticks load_model will take, 0 once it is loaded
          port,      \* the listening socket: closed, open, or held
          accepting, \* ticks left to the thread that waits in accept()
          out,       \* the thread that connects to the peer
          tries      \* ticks left to its attempts

coord == <<age, version, ready>>
main == <<pc, left, return, cfg, current, load>>
sockets == <<port, accepting, out, tries>>
vars == <<coord, main, sockets>>

CadenceInit ==
  /\ age = [w \in Workers |-> Gone]
  /\ version = 1
  /\ ready = [v \in Versions |-> {}]
  /\ pc = [w \in Workers |-> "register"]
  /\ left = [w \in Workers |-> 0]
  /\ return = [w \in Workers |-> "pause"]
  /\ cfg = [w \in Workers |-> None]
  /\ current = [w \in Workers |-> None]
  /\ load \in [Workers -> 0 .. Ticks(MaxLoad)]
  /\ port = [w \in Workers |-> "closed"]
  /\ accepting = [w \in Workers |-> 0]
  /\ out = [w \in Workers |-> "none"]
  /\ tries = [w \in Workers |-> 0]

Goto(w, label) == pc' = [pc EXCEPT ![w] = label]
WaitAt(w, label, seconds) ==
  Goto(w, label) /\ left' = [left EXCEPT ![w] = Ticks(seconds)]

-----------------------------------------------------------------------------
(* The coordinator. *)

Members == {w \in Workers : age[w] # Gone}

Recompute ==
  /\ version' = CHOOSE v \in Versions :
                  \A w \in Workers : v \notin {version, cfg[w], current[w]}
  /\ ready' = [v \in Versions |-> {}]

(* heartbeat(), which registers again after a 404, and register(). *)
Contact(w) ==
  /\ age' = [age EXCEPT ![w] = 0]
  /\ IF w \in Members THEN UNCHANGED <<version, ready>> ELSE Recompute

Expired == {w \in Members : age[w] > Ticks(HeartbeatTimeout)}

(* The monitor thread looks every five seconds. *)
Monitor ==
  /\ Expired # {}
  /\ age' = [w \in Workers |-> IF w \in Expired THEN Gone ELSE age[w]]
  /\ Recompute
  /\ UNCHANGED <<main, sockets>>

BarrierClear(w) == ready[cfg[w]] # {} /\ Members \subseteq ready[cfg[w]]

-----------------------------------------------------------------------------
(* run(). *)

Register(w) ==
  /\ pc[w] = "register"
  /\ Contact(w)
  /\ Goto(w, "top")
  /\ UNCHANGED <<left, return, cfg, current, load, sockets>>

(* reconfigure() up to load_model, which is slow the first time. *)
Reconfigure(w, label) ==
  /\ Members = Workers
  /\ Contact(w)
  /\ cfg' = [cfg EXCEPT ![w] = version]
  /\ return' = [return EXCEPT ![w] = label]
  /\ Goto(w, "load")
  /\ left' = [left EXCEPT ![w] = load[w]]
  /\ load' = [load EXCEPT ![w] = 0]
  /\ UNCHANGED current

(* get_config() at the head of the loop; 5 seconds of sleep without one. *)
Fetch(w) ==
  /\ pc[w] = "top"
  /\ \/ current[w] # version /\ Reconfigure(w, "beat")
     \/ /\ Members = Workers /\ current[w] = version
        /\ Goto(w, "beat")
        /\ UNCHANGED <<coord, left, return, cfg, current, load>>
     \/ /\ Members # Workers
        /\ WaitAt(w, "idle", 5)
        /\ UNCHANGED <<coord, return, cfg, current, load>>
  /\ UNCHANGED sockets

Idle(w) ==
  /\ pc[w] = "idle" /\ left[w] = 0
  /\ Contact(w)
  /\ Goto(w, "top")
  /\ UNCHANGED <<left, return, cfg, current, load, sockets>>

Beat(w) ==
  /\ pc[w] = "beat"
  /\ Contact(w)
  /\ Goto(w, IF version' # current[w] THEN "refetch" ELSE "pause")
  /\ UNCHANGED <<left, return, cfg, current, load, sockets>>

Refetch(w) ==
  /\ pc[w] = "refetch"
  /\ \/ Reconfigure(w, "pause")
     \/ /\ Members # Workers
        /\ Goto(w, "pause")
        /\ UNCHANGED <<coord, left, return, cfg, current, load>>
  /\ UNCHANGED sockets

(* The 10 seconds of sleep at the end of the loop. *)
Sleep(w) ==
  /\ \/ pc[w] = "pause" /\ WaitAt(w, "sleep", 10)
     \/ pc[w] = "sleep" /\ left[w] = 0 /\ Goto(w, "top") /\ UNCHANGED left
  /\ UNCHANGED <<coord, return, cfg, current, load, sockets>>

-----------------------------------------------------------------------------
(* reconfigure() after load_model. *)

Loaded(w) ==
  /\ pc[w] = "load" /\ left[w] = 0
  /\ Contact(w)
  /\ Goto(w, "signal")
  /\ UNCHANGED <<left, return, cfg, current, load, sockets>>

(* comm_session.close() and POST /ready.  Closing a listening socket does  *)
(* not wake the thread that waits in its accept(): the kernel holds the    *)
(* port for as long as it waits.                                           *)
Signal(w) ==
  /\ pc[w] = "signal"
  /\ port' = [port EXCEPT ![w] = IF accepting[w] > 0 THEN "held" ELSE "closed"]
  /\ out' = [out EXCEPT ![w] = "none"]
  /\ \/ /\ w \in Members
        /\ ready' = [ready EXCEPT ![cfg[w]] = @ \union {w}]
        /\ WaitAt(w, "poll", 90)
     \/ w \notin Members /\ Goto(w, "build") /\ UNCHANGED <<left, ready>>
  /\ UNCHANGED <<age, version, return, cfg, current, load, accepting, tries>>

(* wait_barrier() polls for up to 90 seconds and makes no heartbeat. *)
Proceed(w) ==
  /\ pc[w] = "poll"
  /\ BarrierClear(w) \/ left[w] = 0
  /\ Goto(w, "build")
  /\ UNCHANGED <<coord, left, return, cfg, current, load, sockets>>

(* configure_pipeline(): a heartbeat, then the listening socket and the    *)
(* threads that accept and connect.  While the port is held, bind() raises *)
(* and the exception ends run() and the process.                           *)
Build(w) ==
  /\ pc[w] = "build"
  /\ Contact(w)
  /\ IF port[w] = "held"
     THEN /\ Goto(w, "dead")
          /\ port' = [port EXCEPT ![w] = "closed"]
          /\ accepting' = [accepting EXCEPT ![w] = 0]
          /\ UNCHANGED <<left, out, tries>>
     ELSE /\ port' = [port EXCEPT ![w] = "open"]
          /\ accepting' = [accepting EXCEPT ![w] = Ticks(300)]
          /\ out' = [out EXCEPT ![w] = "trying"]
          /\ tries' = [tries EXCEPT ![w] = Ticks(60)]
          /\ IF w = Root THEN Goto(w, "connect") /\ UNCHANGED left
                         ELSE WaitAt(w, "accept", 70)
  /\ UNCHANGED <<return, cfg, current, load>>

-----------------------------------------------------------------------------
(* _setup_connections(): the root connects to the leaf's port and accepts  *)
(* its metadata channel, the leaf the other way round.                     *)

CanConnect(w) == out[w] = "trying" /\ port[Peer(w)] # "closed"

(* A port that is held takes the connection too; the waiting thread may    *)
(* find its socket closed, and end.                                        *)
Connect(w) ==
  /\ CanConnect(w)
  /\ out' = [out EXCEPT ![w] = "made"]
  /\ tries' = [tries EXCEPT ![w] = 0]
  /\ \/ port[Peer(w)] = "held" /\ UNCHANGED <<port, accepting>>
     \/ /\ accepting' = [accepting EXCEPT ![Peer(w)] = 0]
        /\ port' = [port EXCEPT ![Peer(w)] =
                      IF @ = "held" THEN "closed" ELSE @]
  /\ UNCHANGED <<coord, main>>

GiveUp(w) ==
  /\ out[w] = "trying" /\ tries[w] = 0 /\ ~CanConnect(w)
  /\ out' = [out EXCEPT ![w] = "failed"]
  /\ UNCHANGED <<coord, main, port, accepting, tries>>

(* The pipeline is built whether or not every thread came to its end. *)
Finish(w) ==
  /\ Goto(w, return[w])
  /\ current' = [current EXCEPT ![w] = cfg[w]]
  /\ UNCHANGED <<left, return, cfg, load>>

(* The threads are joined one after the other, each for up to 70 seconds:  *)
(* the root waits for its connection first, the leaf for its peer's.       *)
Join(w) ==
  /\ \/ /\ pc[w] = "connect" /\ out[w] # "trying"
        /\ IF w = Root
           THEN WaitAt(w, "accept", 70) /\ UNCHANGED <<return, cfg, current, load>>
           ELSE Finish(w)
     \/ /\ pc[w] = "accept" /\ (accepting[w] = 0 \/ left[w] = 0)
        /\ IF w = Root
           THEN Finish(w)
           ELSE Goto(w, "connect") /\ UNCHANGED <<left, return, cfg, current, load>>
  /\ UNCHANGED <<coord, sockets>>

-----------------------------------------------------------------------------
Step(w) ==
  \/ Register(w) \/ Fetch(w) \/ Idle(w) \/ Beat(w) \/ Refetch(w) \/ Sleep(w)
  \/ Loaded(w) \/ Signal(w) \/ Proceed(w) \/ Build(w)
  \/ Connect(w) \/ GiveUp(w) \/ Join(w)

(* No step of w is due. *)
Waits(w) ==
  /\ \/ pc[w] = "dead"
     \/ pc[w] \in {"idle", "sleep", "load"} /\ left[w] > 0
     \/ pc[w] = "poll" /\ left[w] > 0 /\ ~BarrierClear(w)
     \/ pc[w] = "accept" /\ left[w] > 0 /\ accepting[w] > 0
     \/ pc[w] = "connect" /\ out[w] = "trying"
  /\ out[w] = "trying" => tries[w] > 0 /\ ~CanConnect(w)

Down(clocks) == [w \in Workers |-> IF clocks[w] > 0 THEN clocks[w] - 1 ELSE 0]

TimePasses ==
  /\ Expired = {}
  /\ \A w \in Workers : Waits(w)
  /\ age' = [w \in Workers |-> IF age[w] = Gone THEN Gone ELSE age[w] + 1]
  /\ left' = Down(left)
  /\ tries' = Down(tries)
  /\ accepting' = Down(accepting)
  /\ port' = [w \in Workers |->
       IF port[w] = "held" /\ accepting[w] = 1 THEN "closed" ELSE port[w]]
  /\ UNCHANGED <<version, ready, pc, return, cfg, current, load, out>>

CadenceNext == Monitor \/ TimePasses \/ \E w \in Workers : Step(w)

(* Due steps are taken and time passes: between two ticks every worker     *)
(* takes finitely many steps and comes to a wait.                          *)
CadenceSpec == CadenceInit /\ [][CadenceNext]_vars /\ WF_vars(CadenceNext)

-----------------------------------------------------------------------------
(* What wait_barrier's docstring says of its 90 seconds: the coordinator   *)
(* removes a node that died within 60, so the barrier clears for the       *)
(* others.  Nobody dies here: the two workers should come to run the same  *)
(* version, for good, however long each took to load the model.            *)
Settled ==
  /\ Members = Workers
  /\ \A w \in Workers : pc[w] # "dead" /\ current[w] = version

EventuallySettled == <>[]Settled
=============================================================================
