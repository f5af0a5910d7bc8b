-------------------------------- MODULE Serving --------------------------------
(***************************************************************************)
(* The pipeline under the workers' loops of worker.py: the receive loop of *)
(* a stem or leaf around generate(), its reaction to errors, and           *)
(* reconfigure(), which replaces all connections and engines while the     *)
(* threads that use the old ones still run.                                *)
(*                                                                         *)
(* reconfigure() of all workers is one step here: the workers meet at the  *)
(* barrier in the middle of it, which is the subject of Cluster.  What the *)
(* threads do meanwhile on the closed connections is kept.                 *)
(***************************************************************************)
EXTENDS Pipeline

CONSTANTS MaxSessions, \* bound: sets of connections made
          Silent       \* may a peer vanish without closing its connections

ASSUME SessionsAssumption == MaxSessions \in Nat \ {0}
ASSUME SilentAssumption == Silent \in BOOLEAN

VARIABLES sess,    \* sets of connections made so far
          before   \* requests started before the present one was made

servingVars == <<vars, sess, before>>
loopVars == <<sess, before>>
data == <<req, gen, channels, receivers, late, broken, foreign>>

ServingInit ==
  /\ PipeInit
  /\ sess = 1
  /\ before = 0

(* The root's request began on connections that are closed by now. *)
RootIsLate == pc[0] # "idle" /\ gen[0].q <= before

-----------------------------------------------------------------------------
(* leaf_loop. *)

Enter(s) ==
  /\ pc[s] = "top"
  /\ Goto(s, "prompt")
  /\ UNCHANGED <<data, loopVars>>

(* An error that looks like a lost connection pauses the loop until the    *)
(* next reconfiguration.                                                   *)
Pause(s) ==
  /\ pc[s] = "lost"
  /\ Goto(s, "paused")
  /\ UNCHANGED <<data, loopVars>>

-----------------------------------------------------------------------------
(* reconfigure. *)

(* Where a follower's thread is after its connections have been closed. In *)
(* a blocking read it gets a ConnectionError, when the peer closes too,    *)
(* which it handles before the event is set again ("top") or after         *)
(* ("lost"); when the peer does not close, it reads for ever ("deaf").     *)
(* Inside the request the reads and sends are AsyncWork's, which keeps the *)
(* error: the thread goes on with zeros until it looks up a peer that is   *)
(* gone, and the KeyError sends it to the head of its loop ("top"); unless *)
(* the send before has kept an OSError, which wait() raises, or the token  *)
(* has not come for 30 s ("lost").                                         *)
Interrupted(s) ==
  IF pc[s] \in {"prompt", "plist", "lens"}
    THEN {"top", "lost"} \union (IF Silent THEN {"deaf"} ELSE {})
  ELSE IF pc[s] \in {"act", "fb"} THEN {"top", "lost"}
  ELSE IF pc[s] = "paused" THEN {"top"}
  ELSE {pc[s]}

(* Mutant: the unread messages survive the connections. *)
CloseKeepsMessages ==
  /\ UNCHANGED channels
  /\ work' = [s \in Stages |-> FALSE]
  /\ tok' = [s \in Stages |-> IF s = 0 /\ ~work[0] THEN tok[0] ELSE Zero]
  /\ orphans' = 0

(* close: what is unread is lost, receivers end; the root's ends with an   *)
(* error and leaves its zeros.                                             *)
Close ==
  /\ meta' = [s \in Followers |-> << >>]
  /\ act' = [s \in Followers |-> << >>]
  /\ up' = << >>
  /\ work' = [s \in Stages |-> FALSE]
  /\ tok' = [s \in Stages |-> IF s = 0 /\ ~work[0] THEN tok[0] ELSE Zero]
  /\ orphans' = 0

(* New sockets and a new engine for everyone; the root's thread goes on    *)
(* with the old engine.  The event is set.                                 *)
Reconfigure ==
  /\ sess < MaxSessions
  /\ sess' = sess + 1
  /\ before' = req
  /\ Close
  /\ \E to \in [Followers -> Labels] :
       /\ \A s \in Followers : to[s] \in Interrupted(s)
       /\ pc' = [s \in Stages |-> IF s = 0 THEN pc[0] ELSE to[s]]
  /\ gen' = [s \in Stages |-> IF s = 0 THEN gen[0] ELSE NoGen]
  /\ broken' = FALSE
  /\ UNCHANGED <<req, late, foreign>>

(* The old engine looks up its next stage, which close() has removed.      *)
RootFails ==
  /\ pc[0] = "send" /\ RootIsLate
  /\ Leave(0, "idle")
  /\ UNCHANGED <<req, channels, receivers, late, broken, foreign, loopVars>>

ServingNext ==
  \/ (pc[0] = "send" => ~RootIsLate) /\ Engine /\ UNCHANGED loopVars
  \/ RootFails
  \/ Reconfigure
  \/ \E s \in Followers : Enter(s) \/ Pause(s)

ServingSpec == ServingInit /\ [][ServingNext]_servingVars

(* The threads of the root and of a follower: the one that generates and   *)
(* its receiver.                                                           *)
RootThreads ==
  (~RootIsLate /\ RootForward) \/ RootReceive \/ Advance(0) \/ GiveUp(0)
FollowerThreads(s) ==
  \/ Read(s) \/ Step(s) \/ StepWithoutInput(s)
  \/ s \in Stems /\ (StemReceive(s) \/ Advance(s) \/ GiveUp(s))

(* Every stage runs, and its timers go off; requests, clients that go away *)
(* and changes of the cluster come or do not come.                         *)
ServingFairSpec ==
  /\ ServingSpec
  /\ WF_servingVars((RootThreads /\ UNCHANGED loopVars) \/ RootFails)
  /\ \A s \in Followers :
       WF_servingVars((FollowerThreads(s) /\ UNCHANGED loopVars) \/ Enter(s) \/ Pause(s))

-----------------------------------------------------------------------------
(* Properties. *)

(* Messages, tokens and places are of their types, and a receiver is under *)
(* way only while its stage waits for a token.                             *)
ServingTypeOK ==
  /\ pc \in [Stages -> Labels]
  /\ req \in 0..R /\ before \in 0..req /\ sess \in 1..MaxSessions
  /\ \A s \in Stages : work[s] => pc[s] = "fb"
  /\ \A s \in Followers : \A i \in DOMAIN meta[s] :
       meta[s][i].k \in (IF s = Leaf THEN {"bs", "prompts", "lens"}
                         ELSE {"bs", "prompts", "lens", "tok"})

(* Unless a stage has given up or been left inside a request since the     *)
(* connections were made, clients get their own tokens in order: in        *)
(* particular nothing of an earlier set of connections reaches a later     *)
(* one, and the stages' separate counts never diverge.                     *)
HealthyTokens ==
  broken \/ \A q \in foreign : q <= before

(* Under the same condition, when all stages are back at the prompt no     *)
(* message is left that the next request could run into.                   *)
NoLeftovers ==
  (/\ ~broken /\ pc[0] = "idle" /\ \A s \in Followers : pc[s] \in {"top", "prompt", "paused"})
    => /\ up = << >>
       /\ \A s \in Followers : meta[s] = << >> /\ act[s] = << >>

(* The root answers or fails every request, whatever the other stages do   *)
(* and whenever the pipeline is replaced under it.                         *)
EveryRequestEnds == pc[0] # "idle" ~> pc[0] = "idle"

(* No stage waits for an activation or a token for ever, even of a request *)
(* its root has abandoned or whose connections have been closed under it:  *)
(* it ends the request and comes back to the head of its loop, or gives it *)
(* up as a lost connection.  What becomes of a stage that is waiting for a *)
(* reconfiguration then, or for an announcement from a peer that vanished, *)
(* is not claimed: either may wait for ever.                               *)
StagesComeBack ==
  \A s \in Followers :
    pc[s] \in {"act", "fb"} ~> pc[s] \in {"top", "prompt", "lost"}

=============================================================================
