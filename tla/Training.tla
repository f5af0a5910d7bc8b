-------------------------------- MODULE Training --------------------------------
(***************************************************************************)
(* Asynchronous pipeline training in one cluster: Node of node.py, the     *)
(* buffers of its gRPC service, the version bookkeeping of Compute, and    *)
(* the two trainers.                                                       *)
(*                                                                         *)
(* Every node is one process: its main thread runs the trainer's loop, and *)
(* hands messages to threads that deliver them, one per direction.  A      *)
(* sender polls buffer_status until the receiver's buffer is empty, then   *)
(* calls send_buffer.  The root sends on its main thread, and answers      *)
(* gradients while it waits.  One cluster has ring size 1, for which       *)
(* parallel_ring_reduce does nothing (see RingReduce for larger ones).     *)
(*                                                                         *)
(* There is at most one stem: the second one would not find the key        *)
(* steady_state, which stem_forward reads and does not pass on.            *)
(***************************************************************************)
EXTENDS Integers, Sequences, FiniteSets

CONSTANTS N,          \* cluster_length, the number of nodes
          Batches,    \* length of train_loader
          Epochs,
          UpdateFrequency

ASSUME TrainingAssumption ==
  N \in {2, 3} /\ Batches \in Nat \ {0} /\ Epochs \in Nat \ {0}
               /\ UpdateFrequency \in Nat \ {0}

Nodes == 0..(N - 1)
Root == 0
Leaf == N - 1

VARIABLES
  async,       \* the trainer is BaseTrainerFullAsync, not BaseTrainer
  pc,          \* where the main thread of a node is
  batch,       \* batches the trainer's loop has left behind, over all epochs
  forwardDone, \* g.forward_done
  flag,        \* backward_monitor_flag
  fwd, bwd,    \* load_forward_buffer, load_backward_buffer
  fsend, bsend,\* what a node is sending, with the reply to its last poll
  passId,      \* forward_pass_id
  latest,      \* latest_backward_id
  nForwards, nBackwards,
  live,        \* passes in version_to_fpid, each with its version
  version,     \* current_version
  grads,       \* gradients accumulated since the last zero_grad
  dropped,     \* gradients that zero_grad has erased before a step used them
  seen         \* the pass the leaf works on

loop == <<pc, batch>>
wires == <<fwd, bwd, fsend, bsend>>
counts == <<passId, latest, nForwards, nBackwards>>
compute == <<live, version>>
trainingVars == <<async, loop, forwardDone, flag, wires, counts, compute, grads, dropped, seen>>

Idle == [id |-> -1, batch |-> -1, granted |-> FALSE]
Sending(id, b) == [id |-> id, batch |-> b, granted |-> FALSE]
Message(s) == [id |-> s.id, batch |-> s.batch]

TrainingInit ==
  /\ async \in BOOLEAN
  /\ pc = [n \in Nodes |-> "forward"]
  /\ batch = [n \in Nodes |-> 0]
  /\ forwardDone = [n \in Nodes |-> FALSE]
  /\ flag = [n \in Nodes |-> FALSE]
  /\ fwd = [n \in Nodes |-> <<>>]
  /\ bwd = [n \in Nodes |-> <<>>]
  /\ fsend = [n \in Nodes |-> Idle]
  /\ bsend = [n \in Nodes |-> Idle]
  /\ passId = [n \in Nodes |-> 0]
  /\ latest = [n \in Nodes |-> 0]
  /\ nForwards = [n \in Nodes |-> 0]
  /\ nBackwards = [n \in Nodes |-> 0]
  /\ live = [n \in Nodes |-> {}]
  /\ version = [n \in Nodes |-> 0]
  /\ grads = [n \in Nodes |-> 0]
  /\ dropped = [n \in Nodes |-> 0]
  /\ seen = [id |-> -1, batch |-> -1]

Go(n, label) == pc' = [pc EXCEPT ![n] = label]

-----------------------------------------------------------------------------
(* Forward passes. *)

(* Mutant: the gate compares with one pass more. *)
GateIsWider == passId[Root] - latest[Root] <= N + 1

(* The root may be this many passes ahead of the last gradient. *)
GateIsOpen == passId[Root] - latest[Root] <= N

(* root_forward_compute and middle_forward_compute register the pass under *)
(* the current version.                                                    *)
Register(n, id) == live' = [live EXCEPT ![n] = @ \union {[id |-> id, version |-> version[n]]}]

(* middle_backward_compute: the outputs of the pass are looked up, and     *)
(* forgotten.                                                              *)
Forget(n, id) == live' = [live EXCEPT ![n] = {f \in @ : f.id # id}]

(* Mutant: the leaf does not set the flag. *)
MarkBegunBeforeLeaf(n) == forwardDone' = [forwardDone EXCEPT ![n] = (n # Leaf)]

(* g.forward_done. *)
MarkBegun(n) == forwardDone' = [forwardDone EXCEPT ![n] = TRUE]

(* forward_compute up to its send. *)
RootForward ==
  /\ pc[Root] = "forward" /\ GateIsOpen
  /\ Register(Root, passId[Root])
  /\ nForwards' = [nForwards EXCEPT ![Root] = @ + 1]
  /\ fsend' = [fsend EXCEPT ![Root] = Sending(passId[Root], batch[Root])]
  /\ Go(Root, "sending")
  /\ UNCHANGED <<async, batch, forwardDone, flag, fwd, bwd, bsend, passId, latest, nBackwards,
                 version, grads, dropped, seen>>

(* The gate is closed: forward returns without a pass. *)
RootSkips ==
  /\ pc[Root] = "forward" /\ ~GateIsOpen
  /\ Go(Root, "backward")
  /\ UNCHANGED <<async, batch, forwardDone, flag, wires, counts, compute, grads, dropped, seen>>

(* check_forward_buffer and stem_forward. *)
StemForward(n) ==
  /\ n \notin {Root, Leaf} /\ pc[n] = "forward" /\ fwd[n] # <<>>
  /\ fwd' = [fwd EXCEPT ![n] = Tail(@)]
  /\ MarkBegun(n)
  /\ Register(n, Head(fwd[n]).id)
  /\ fsend' = [fsend EXCEPT ![n] = Sending(Head(fwd[n]).id, Head(fwd[n]).batch)]
  /\ nForwards' = [nForwards EXCEPT ![n] = @ + 1]
  /\ Go(n, "backward")
  /\ UNCHANGED <<async, batch, flag, bwd, bsend, passId, latest, nBackwards, version,
                 grads, dropped, seen>>

StemFindsNothing(n) ==
  /\ n \notin {Root, Leaf} /\ pc[n] = "forward" /\ fwd[n] = <<>>
  /\ Go(n, "backward")
  /\ UNCHANGED <<async, batch, forwardDone, flag, wires, counts, compute, grads, dropped, seen>>

(* monitor_forward_buffer waits for a pass; leaf_forward. *)
LeafForward ==
  /\ pc[Leaf] = "forward" /\ fwd[Leaf] # <<>>
  /\ fwd' = [fwd EXCEPT ![Leaf] = Tail(@)]
  /\ MarkBegun(Leaf)
  /\ passId' = [passId EXCEPT ![Leaf] = Head(fwd[Leaf]).id]
  /\ seen' = Head(fwd[Leaf])
  /\ Go(Leaf, "backward")
  /\ UNCHANGED <<async, batch, flag, bwd, fsend, bsend, latest, nForwards, nBackwards, compute,
                 grads, dropped>>

-----------------------------------------------------------------------------
(* Delivery: buffer_status, then send_buffer. *)

(* Mutant: the reply does not depend on the buffer. *)
IsFreeAlways(buffer) == TRUE

IsFree(buffer) == buffer = <<>>

PollForward(n) ==
  /\ n # Leaf /\ fsend[n] # Idle /\ ~fsend[n].granted
  /\ IsFree(fwd[n + 1])
  /\ fsend' = [fsend EXCEPT ![n].granted = TRUE]
  /\ UNCHANGED <<async, loop, forwardDone, flag, fwd, bwd, bsend, counts, compute, grads,
                 dropped, seen>>

PollBackward(n) ==
  /\ n # Root /\ bsend[n] # Idle /\ ~bsend[n].granted
  /\ IsFree(bwd[n - 1])
  /\ bsend' = [bsend EXCEPT ![n].granted = TRUE]
  /\ UNCHANGED <<async, loop, forwardDone, flag, fwd, bwd, fsend, counts, compute, grads,
                 dropped, seen>>

(* The root goes on with forward_compute after its own send. *)
DeliverForward(n) ==
  /\ fsend[n].granted
  /\ fwd' = [fwd EXCEPT ![n + 1] = Append(@, Message(fsend[n]))]
  /\ fsend' = [fsend EXCEPT ![n] = Idle]
  /\ IF n = Root THEN /\ passId' = [passId EXCEPT ![n] = @ + 1]
                      /\ MarkBegun(n)
                      /\ Go(n, "backward")
                 ELSE UNCHANGED <<passId, forwardDone, pc>>
  /\ UNCHANGED <<async, batch, flag, bwd, bsend, latest, nForwards, nBackwards, compute, grads,
                 dropped, seen>>

DeliverBackward(n) ==
  /\ bsend[n].granted
  /\ bwd' = [bwd EXCEPT ![n - 1] = Append(@, Message(bsend[n]))]
  /\ bsend' = [bsend EXCEPT ![n] = Idle]
  /\ UNCHANGED <<async, loop, forwardDone, flag, fwd, fsend, counts, compute, grads, dropped, seen>>

-----------------------------------------------------------------------------
(* Backward passes. *)

(* check_backward_buffer with a gradient in the buffer, and stem_backward. *)
TakeGradient(n) ==
  /\ bwd[n] # <<>>
  /\ LET m == Head(bwd[n])
     IN /\ bwd' = [bwd EXCEPT ![n] = Tail(@)]
        /\ latest' = [latest EXCEPT ![n] = m.id]
        /\ Forget(n, m.id)
        /\ bsend' = IF n = Root THEN bsend ELSE [bsend EXCEPT ![n] = Sending(m.id, m.batch)]
  /\ grads' = [grads EXCEPT ![n] = @ + 1]
  /\ nBackwards' = [nBackwards EXCEPT ![n] = @ + 1]
  /\ UNCHANGED <<async, batch, forwardDone, fwd, fsend, passId, nForwards, version, dropped, seen>>

(* The root's poll is answered "wait". *)
RootTakesGradientWhileSending ==
  /\ pc[Root] = "sending" /\ ~fsend[Root].granted
  /\ ~IsFree(fwd[Root + 1])
  /\ TakeGradient(Root)
  /\ UNCHANGED <<pc, flag>>

Backward(n) ==
  /\ n # Leaf /\ pc[n] = "backward"
  /\ Go(n, "join")
  /\ \/ /\ TakeGradient(n)
        /\ flag' = [flag EXCEPT ![n] = TRUE]
     \/ /\ bwd[n] = <<>>
        /\ flag' = [flag EXCEPT ![n] = FALSE]
        /\ UNCHANGED <<async, batch, forwardDone, wires, counts, compute, grads, dropped, seen>>

(* leaf_backward_compute. *)
LeafBackward ==
  /\ pc[Leaf] = "backward"
  /\ Go(Leaf, "join")
  /\ bsend' = [bsend EXCEPT ![Leaf] = Sending(passId[Leaf], seen.batch)]
  /\ nBackwards' = [nBackwards EXCEPT ![Leaf] = @ + 1]
  /\ grads' = [grads EXCEPT ![Leaf] = @ + 1]
  /\ flag' = [flag EXCEPT ![Leaf] = TRUE]
  /\ UNCHANGED <<async, batch, forwardDone, fwd, bwd, fsend, passId, latest, nForwards, compute,
                 dropped, seen>>

-----------------------------------------------------------------------------
(* The trainers' loops. *)

(* Mutant: the comparison is not strict. *)
AwaitsOneMore(n) == nBackwards[n] <= nForwards[n]

(* await_backwards: the pass counters decide, and the leaf never counts.   *)
Awaits(n) == nBackwards[n] < nForwards[n]

AllBatches == Batches * Epochs
EndsEpoch(b) == b % Batches = 0

(* no_schedule: BaseTrainerFullAsync repeats a step until a pass was begun. *)
Repeats(n) == async /\ ~forwardDone[n]

(* After an update: BaseTrainerFullAsync also waits for the gradients      *)
(* after every epoch.                                                      *)
AfterUpdate(n) ==
  IF Repeats(n)
  THEN Go(n, "forward") /\ UNCHANGED <<batch, forwardDone>>
  ELSE /\ batch' = [batch EXCEPT ![n] = @ + 1]
       /\ forwardDone' = [forwardDone EXCEPT ![n] = IF async THEN FALSE ELSE @]
       /\ IF batch'[n] = AllBatches \/ (async /\ EndsEpoch(batch'[n]))
          THEN Go(n, "await")
          ELSE Go(n, "forward")

IsDue(n) == nBackwards[n] % UpdateFrequency = 0

(* Mutant: zero_grad comes before optimizer_step. *)
UpdateErasesFirst(n) ==
  IF IsDue(n)
  THEN /\ grads' = [grads EXCEPT ![n] = 0]
       /\ dropped' = [dropped EXCEPT ![n] = @ + grads[n]]
       /\ version' = [version EXCEPT ![n] = IF flag[n] /\ n # Leaf THEN @ + 1 ELSE @]
  ELSE UNCHANGED <<grads, dropped, version>>

(* Node.optimizer_step only passes on a call that follows a gradient.      *)
Steps(n) == flag[n]

(* Compute.optimizer_step; the leaf keeps no versions. *)
NextVersion(n) == IF Steps(n) /\ n # Leaf THEN version[n] + 1 ELSE version[n]

(* An update of the trainer: optimizer_step, then zero_grad. *)
Update(n) ==
  IF IsDue(n)
  THEN /\ grads' = [grads EXCEPT ![n] = 0]
       /\ dropped' = [dropped EXCEPT ![n] = IF Steps(n) THEN @ ELSE @ + grads[n]]
       /\ version' = [version EXCEPT ![n] = NextVersion(n)]
  ELSE UNCHANGED <<grads, dropped, version>>

(* join_send_threads returns; the trainer updates and goes on. *)
Join(n) ==
  /\ pc[n] = "join" /\ fsend[n] = Idle /\ bsend[n] = Idle
  /\ Update(n)
  /\ AfterUpdate(n)
  /\ UNCHANGED <<async, flag, wires, counts, live, seen>>

(* One turn of await_backwards: backward and an update. *)
AwaitBackward(n) ==
  /\ pc[n] = "await" /\ Awaits(n)
  /\ Go(n, "awaitJoin")
  /\ \/ TakeGradient(n) /\ flag' = [flag EXCEPT ![n] = TRUE]
     \/ /\ bwd[n] = <<>>
        /\ flag' = [flag EXCEPT ![n] = FALSE]
        /\ UNCHANGED <<async, batch, forwardDone, wires, counts, compute, grads, dropped, seen>>

AwaitJoin(n) ==
  /\ pc[n] = "awaitJoin" /\ fsend[n] = Idle /\ bsend[n] = Idle
  /\ Update(n)
  /\ Go(n, "await")
  /\ UNCHANGED <<async, batch, forwardDone, flag, wires, counts, live, seen>>

(* Mutant: the last epoch is not recognised. *)
IsOverLate(n) == batch[n] > AllBatches

IsOver(n) == batch[n] = AllBatches

AwaitEnds(n) ==
  /\ pc[n] = "await" /\ ~Awaits(n)
  /\ Go(n, IF IsOver(n) THEN "done" ELSE "forward")
  /\ UNCHANGED <<async, batch, forwardDone, flag, wires, counts, compute, grads, dropped, seen>>

-----------------------------------------------------------------------------
Main(n) ==
  \/ StemForward(n) \/ StemFindsNothing(n) \/ Backward(n)
  \/ Join(n) \/ AwaitBackward(n) \/ AwaitJoin(n) \/ AwaitEnds(n)

RootMain == RootForward \/ RootSkips \/ RootTakesGradientWhileSending
LeafMain == LeafForward \/ LeafBackward
Sends(n) == PollForward(n) \/ DeliverForward(n)
Answers(n) == PollBackward(n) \/ DeliverBackward(n)

TrainingNext ==
  \/ RootMain \/ LeafMain
  \/ \E n \in Nodes : Main(n) \/ Sends(n) \/ Answers(n)

TrainingSpec == TrainingInit /\ [][TrainingNext]_trainingVars

(* Every thread and process keeps running. *)
TrainingFairSpec ==
  /\ TrainingSpec
  /\ WF_trainingVars(RootMain) /\ WF_trainingVars(LeafMain)
  /\ \A n \in Nodes : /\ WF_trainingVars(Main(n))
                      /\ WF_trainingVars(Sends(n))
                      /\ WF_trainingVars(Answers(n))
-----------------------------------------------------------------------------
(* Properties. *)

Passes == 0..(AllBatches - 1)
Pass == [id : Passes, batch : Passes]
NoPass == [id |-> -1, batch |-> -1]
SendState == {Idle} \union [id : Passes, batch : Passes, granted : BOOLEAN]
Labels == {"forward", "sending", "backward", "join", "await", "awaitJoin", "done"}

TrainingTypeOK ==
  /\ async \in BOOLEAN
  /\ pc \in [Nodes -> Labels]
  /\ batch \in [Nodes -> 0..AllBatches]
  /\ forwardDone \in [Nodes -> BOOLEAN] /\ flag \in [Nodes -> BOOLEAN]
  /\ fwd \in [Nodes -> Seq(Pass)] /\ bwd \in [Nodes -> Seq(Pass)]
  /\ fsend \in [Nodes -> SendState] /\ bsend \in [Nodes -> SendState]
  /\ passId \in [Nodes -> 0..AllBatches] /\ latest \in [Nodes -> Passes]
  /\ nForwards \in [Nodes -> 0..AllBatches] /\ nBackwards \in [Nodes -> 0..AllBatches]
  /\ live \in [Nodes -> SUBSET [id : Passes, version : 0..AllBatches]]
  /\ version \in [Nodes -> 0..AllBatches]
  /\ grads \in [Nodes -> Nat] /\ dropped \in [Nodes -> Nat]
  /\ seen \in Pass \union {NoPass}

(* The identifiers of the gradients on their way to node n, oldest first.  *)
Arriving(n) ==
  LET sent == IF bsend[n + 1] = Idle THEN <<>> ELSE <<Message(bsend[n + 1])>>
      all == bwd[n] \o sent
  IN [i \in DOMAIN all |-> all[i].id]

(* An answer of buffer_status still holds when the message is delivered:   *)
(* no buffer of the service ever has two.                                  *)
BuffersHoldOne == \A n \in Nodes : Len(fwd[n]) <= 1 /\ Len(bwd[n]) <= 1

(* A gradient reaches a node that holds the outputs of its pass, once, and *)
(* in the order of the passes: middle_backward_compute looks the pass up   *)
(* and would fail, or use the wrong outputs.  A buffer never holds two.    *)
GradientsFindTheirPass ==
  BuffersHoldOne /\
  \A n \in Nodes \ {Leaf} :
    LET ids == Arriving(n)
    IN /\ \A i \in DOMAIN ids : \E f \in live[n] : f.id = ids[i]
       /\ \A i, j \in DOMAIN ids : i < j => ids[i] < ids[j]
       /\ \A i \in DOMAIN ids : ids[i] >= latest[n]

(* The gate of forward keeps the passes in flight at a node, and the       *)
(* number of updates between a pass and its gradient, within the length of *)
(* the cluster (the gate counts from 0 before the first gradient, which    *)
(* admits one more pass).                                                  *)
StalenessIsBounded ==
  \A n \in Nodes :
    /\ Cardinality(live[n]) <= N + 1
    /\ \A f \in live[n] : version[n] - f.version <= N

(* With BaseTrainerFullAsync the leaf computes the loss of a batch from    *)
(* the labels of the same batch.  BaseTrainer loses the batches that meet  *)
(* a closed gate, and its leaf pairs later batches with earlier labels.    *)
LabelsMatch == async /\ pc[Leaf] = "backward" => seen.batch = batch[Leaf]

(* Stems and leaf apply every gradient they receive.  The root may lose    *)
(* some: those it takes while it sends are erased by the zero_grad of a    *)
(* turn that finds no further gradient.                                    *)
GradientsAreApplied == \A n \in Nodes \ {Root} : dropped[n] = 0

(* With BaseTrainerFullAsync every node ends its training, with no pass or *)
(* gradient left behind: the sends that wait for each other's buffers, and *)
(* the threads joined in backward, never block all nodes.                  *)
AllDone ==
  /\ \A n \in Nodes : pc[n] = "done" /\ live[n] = {} /\ fwd[n] = <<>> /\ bwd[n] = <<>>
  /\ \A n \in Nodes \ {Leaf} : nBackwards[n] = AllBatches
TrainingEnds == async => <>AllDone
=============================================================================
