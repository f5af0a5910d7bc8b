----------------------------- MODULE Training_proofs -----------------------------
(***************************************************************************)
(* Proofs about Training, for every update frequency and any number of     *)
(* batches and epochs: which gradients the trainers apply, that no buffer  *)
(* of the gRPC service ever holds two messages, that a gradient finds the  *)
(* outputs of its pass, how old these can be, and that the leaf of         *)
(* BaseTrainerFullAsync uses the labels of its batch.                      *)
(*                                                                         *)
(* The invariant is a conjunction of five, each inductive with those       *)
(* before it: GradientInv, FlowInv (which contains BufferInv), LoopInv,    *)
(* MessagesInv and RangesInv.                                              *)
(***************************************************************************)
EXTENDS Training, FiniteSetTheorems, SequenceTheorems, TLAPS

-----------------------------------------------------------------------------
(* Gradients and updates. *)

LoopTypes ==
  /\ pc \in [Nodes -> Labels]
  /\ flag \in [Nodes -> BOOLEAN]
  /\ nBackwards \in [Nodes -> Int]
  /\ grads \in [Nodes -> Int]
  /\ dropped \in [Nodes -> Int]

Joining(n) == pc[n] \in {"join", "awaitJoin"}

(* Outside the turn that has received a gradient, an update that is due    *)
(* has been made: there is nothing left for zero_grad to erase.            *)
NothingDue(n) == IsDue(n) => grads[n] = 0 \/ (Joining(n) /\ flag[n])

GradientInv ==
  /\ LoopTypes
  /\ \A n \in Nodes \ {Root} : NothingDue(n) /\ dropped[n] = 0

(* Root and leaf are nodes, and not the same one. *)
LEMMA Ends == Root \in Nodes /\ Leaf \in Nodes /\ Root # Leaf
BY TrainingAssumption DEF Root, Leaf, Nodes

(* Nothing has been sent, received or erased in the beginning. *)
LEMMA GradientInit == TrainingInit => GradientInv
BY DEF TrainingInit, GradientInv, LoopTypes, NothingDue, Labels

(* A step that leaves the counters alone, and does not end a join but at   *)
(* the root, keeps the invariant.                                          *)
LEMMA CountersStay ==
  ASSUME GradientInv, NEW m \in Nodes, NEW l \in Labels, Go(m, l), m = Root \/ ~Joining(m),
         nBackwards' = nBackwards, grads' = grads, dropped' = dropped,
         \E f \in BOOLEAN : flag' = [flag EXCEPT ![m] = f]
  PROVE  GradientInv'
BY DEF GradientInv, LoopTypes, NothingDue, IsDue, Joining, Go

(* A gradient arrives, at the root or in a turn that sets the flag. *)
LEMMA GradientArrives ==
  ASSUME GradientInv, NEW m \in Nodes,
         grads' = [grads EXCEPT ![m] = @ + 1],
         nBackwards' = [nBackwards EXCEPT ![m] = @ + 1],
         dropped' = dropped,
         \/ m = Root /\ UNCHANGED <<pc, flag>>
         \/ \E l \in {"join", "awaitJoin"} : Go(m, l) /\ flag' = [flag EXCEPT ![m] = TRUE]
  PROVE  GradientInv'
<1>1. LoopTypes'
  <2>1. pc' \in [Nodes -> Labels]
    BY DEF GradientInv, LoopTypes, Go, Labels
  <2>2. flag' \in [Nodes -> BOOLEAN]
    BY DEF GradientInv, LoopTypes
  <2>3. nBackwards' \in [Nodes -> Int] /\ grads' \in [Nodes -> Int] /\ dropped' \in [Nodes -> Int]
    BY DEF GradientInv, LoopTypes
  <2>. QED
    BY <2>1, <2>2, <2>3 DEF LoopTypes
<1>2. ASSUME NEW n \in Nodes \ {Root}
      PROVE  NothingDue(n)' /\ dropped'[n] = 0
  <2>1. CASE n = m
    BY <1>2, <2>1 DEF GradientInv, LoopTypes, NothingDue, Joining, Go
  <2>2. CASE n # m
    BY <1>2, <2>2 DEF GradientInv, LoopTypes, NothingDue, IsDue, Joining, Go
  <2>. QED
    BY <2>1, <2>2
<1>. QED
  BY <1>1, <1>2 DEF GradientInv

(* An update at the end of a turn. *)
LEMMA UpdateApplies ==
  ASSUME GradientInv, NEW m \in Nodes, NEW l \in Labels \ {"join", "awaitJoin"}, Joining(m),
         Update(m), Go(m, l), UNCHANGED <<flag, nBackwards>>
  PROVE  GradientInv'
<1>1. LoopTypes'
  <2>1. CASE IsDue(m)
    BY <2>1 DEF GradientInv, LoopTypes, Go, Update
  <2>2. CASE ~IsDue(m)
    BY <2>2 DEF GradientInv, LoopTypes, Go, Update
  <2>. QED
    BY <2>1, <2>2
<1>2. ASSUME NEW n \in Nodes \ {Root}
      PROVE  NothingDue(n)' /\ dropped'[n] = 0
  <2>1. CASE n = m /\ IsDue(m)
    <3>1. grads[n] = 0 \/ Steps(n)
      BY <1>2, <2>1 DEF GradientInv, NothingDue, Steps
    <3>2. grads' = [grads EXCEPT ![m] = 0]
          /\ dropped' = [dropped EXCEPT ![m] = IF Steps(m) THEN @ ELSE @ + grads[m]]
      BY <2>1 DEF Update
    <3>3. grads'[n] = 0 /\ dropped'[n] = 0
      BY <1>2, <2>1, <3>1, <3>2 DEF GradientInv, LoopTypes
    <3>. QED
      BY <3>3 DEF NothingDue
  <2>2. CASE n = m /\ ~IsDue(m)
    BY <1>2, <2>2 DEF GradientInv, NothingDue, IsDue, Update
  <2>3. CASE n # m
    <3>1. grads'[n] = grads[n] /\ dropped'[n] = dropped[n]
      <4>1. CASE IsDue(m)
        BY <1>2, <2>3, <4>1 DEF GradientInv, LoopTypes, Update
      <4>2. CASE ~IsDue(m)
        BY <4>2 DEF Update
      <4>. QED
        BY <4>1, <4>2
    <3>2. pc'[n] = pc[n]
      BY <1>2, <2>3 DEF GradientInv, LoopTypes, Go
    <3>. QED
      BY <1>2, <3>1, <3>2 DEF GradientInv, NothingDue, IsDue, Joining
  <2>. QED
    BY <2>1, <2>2, <2>3
<1>. QED
  BY <1>1, <1>2 DEF GradientInv

(* GradientInv is inductive. *)
LEMMA GradientStep == GradientInv /\ [TrainingNext]_trainingVars => GradientInv'
<1>. SUFFICES ASSUME GradientInv, [TrainingNext]_trainingVars PROVE GradientInv'
  OBVIOUS
<1>. DEFINE counters == <<nBackwards, grads, dropped>>
<1>1. ASSUME UNCHANGED <<pc, flag, counters>>
      PROVE  GradientInv'
  BY <1>1 DEF GradientInv, LoopTypes, NothingDue, IsDue, Joining
<1>2. ASSUME NEW m \in Nodes, NEW l \in Labels, Go(m, l), m = Root \/ ~Joining(m),
             UNCHANGED <<flag, counters>>
      PROVE  GradientInv'
  <2>1. flag' = [flag EXCEPT ![m] = flag[m]] /\ flag[m] \in BOOLEAN
    BY <1>2 DEF GradientInv, LoopTypes
  <2>. QED
    BY <1>2, <2>1, CountersStay
<1>3. CASE RootMain
  <2>1. CASE RootForward
    BY <1>2, <2>1, Ends DEF RootForward, Joining, Labels
  <2>2. CASE RootSkips
    BY <1>2, <2>2, Ends DEF RootSkips, Joining, Labels, counts
  <2>3. CASE RootTakesGradientWhileSending
    BY <2>3, Ends, GradientArrives DEF RootTakesGradientWhileSending, TakeGradient
  <2>. QED
    BY <1>3, <2>1, <2>2, <2>3 DEF RootMain
<1>4. CASE LeafMain
  <2>1. CASE LeafForward
    BY <1>2, <2>1, Ends DEF LeafForward, Joining, Labels
  <2>2. CASE LeafBackward
    BY <2>2, Ends, GradientArrives DEF LeafBackward
  <2>. QED
    BY <1>4, <2>1, <2>2 DEF LeafMain
<1>5. ASSUME NEW n \in Nodes, Sends(n) \/ Answers(n)
      PROVE  GradientInv'
  <2>1. CASE PollForward(n) \/ PollBackward(n) \/ DeliverBackward(n)
    BY <1>1, <2>1 DEF PollForward, PollBackward, DeliverBackward, loop, counts
  <2>2. CASE DeliverForward(n)
    <3>1. CASE n # Root
      BY <1>1, <2>2, <3>1 DEF DeliverForward
    <3>2. CASE n = Root
      BY <1>2, <2>2, <3>2 DEF DeliverForward, Labels
    <3>. QED
      BY <3>1, <3>2
  <2>. QED
    BY <1>5, <2>1, <2>2 DEF Sends, Answers
<1>6. ASSUME NEW n \in Nodes, Main(n)
      PROVE  GradientInv'
  <2>1. CASE StemForward(n) \/ StemFindsNothing(n) \/ AwaitEnds(n)
    BY <1>2, <2>1
    DEF StemForward, StemFindsNothing, AwaitEnds, Joining, Labels, counts
  <2>2. CASE Backward(n) \/ AwaitBackward(n)
    <3>1. CASE TakeGradient(n) /\ flag' = [flag EXCEPT ![n] = TRUE]
      BY <2>2, <3>1, GradientArrives DEF Backward, AwaitBackward, TakeGradient
    <3>2. CASE flag' = [flag EXCEPT ![n] = FALSE] /\ UNCHANGED <<counts, grads, dropped>>
      BY <2>2, <3>2, CountersStay DEF Backward, AwaitBackward, Joining, Labels, counts
    <3>. QED
      BY <2>2, <3>1, <3>2 DEF Backward, AwaitBackward
  <2>3. CASE Join(n)
    <3>1. \E l \in Labels \ {"join", "awaitJoin"} : Go(n, l)
      BY <2>3 DEF Join, AfterUpdate, Labels
    <3>. QED
      BY <2>3, <3>1, UpdateApplies DEF Join, Joining, counts
  <2>4. CASE AwaitJoin(n)
    BY <2>4, UpdateApplies DEF AwaitJoin, Joining, Labels, counts
  <2>. QED
    BY <1>6, <2>1, <2>2, <2>3, <2>4 DEF Main
<1>7. CASE UNCHANGED trainingVars
  BY <1>1, <1>7 DEF trainingVars, loop, counts
<1>. QED
  BY <1>3, <1>4, <1>5, <1>6, <1>7 DEF TrainingNext

(* At the stems and the leaf no gradient is erased before a step has used  *)
(* it, with either trainer and any update frequency.                       *)
THEOREM StemsAndLeafApplyGradients == TrainingSpec => []GradientsAreApplied
<1>1. GradientInv => GradientsAreApplied
  BY DEF GradientInv, GradientsAreApplied
<1>. QED
  BY <1>1, GradientInit, GradientStep, PTL DEF TrainingSpec

-----------------------------------------------------------------------------
(* Buffers. *)

Msg == [id : Int, batch : Int]
Wire == [id : Int, batch : Int, granted : BOOLEAN]

WireTypes ==
  /\ fwd \in [Nodes -> Seq(Msg)] /\ bwd \in [Nodes -> Seq(Msg)]
  /\ fsend \in [Nodes -> Wire] /\ bsend \in [Nodes -> Wire]
  /\ passId \in [Nodes -> Int] /\ batch \in [Nodes -> Int]
  /\ seen \in Msg

(* Node n sends to n + 1 and n - 1 only, and whoever has been told that    *)
(* the buffer is free finds it empty.                                      *)
Forwards ==
  /\ fwd[Root] = <<>> /\ ~fsend[Leaf].granted
  /\ \A n \in Nodes \ {Root} : Len(fwd[n]) <= 1 /\ (fsend[n - 1].granted => fwd[n] = <<>>)
Backwards ==
  /\ bwd[Leaf] = <<>> /\ ~bsend[Root].granted
  /\ \A n \in Nodes \ {Leaf} : Len(bwd[n]) <= 1 /\ (bsend[n + 1].granted => bwd[n] = <<>>)

BufferInv == WireTypes /\ Forwards /\ Backwards

(* All buffers are empty in the beginning. *)
LEMMA BufferInit == TrainingInit => BufferInv
BY Ends, TrainingAssumption
DEF TrainingInit, BufferInv, WireTypes, Forwards, Backwards, Idle, Msg, Wire, Nodes, Root, Leaf

(* The neighbours of a node are nodes. *)
LEMMA Neighbours ==
  /\ \A n \in Nodes : n \in Int
  /\ \A n \in Nodes \ {Root} : n - 1 \in Nodes
  /\ \A n \in Nodes \ {Leaf} : n + 1 \in Nodes
BY TrainingAssumption DEF Nodes, Root, Leaf

(* The only message of a buffer is taken. *)
LEMMA TheOneGoes ==
  ASSUME NEW s \in Seq(Msg), Len(s) <= 1, s # <<>>
  PROVE  Tail(s) = <<>>
OBVIOUS

(* The effect of taking a message from the buffer of a node. *)
LEMMA Taken ==
  ASSUME BufferInv, NEW n \in Nodes
  PROVE  /\ fwd[n] # <<>> => Tail(fwd[n]) = <<>> /\ n # Root
         /\ bwd[n] # <<>> => Tail(bwd[n]) = <<>> /\ n # Leaf
<1>1. fwd[n] \in Seq(Msg) /\ bwd[n] \in Seq(Msg)
  BY DEF BufferInv, WireTypes
<1>2. n # Root => Len(fwd[n]) <= 1
  BY DEF BufferInv, Forwards
<1>3. n # Leaf => Len(bwd[n]) <= 1
  BY DEF BufferInv, Backwards
<1>4. fwd[n] # <<>> => n # Root
  BY DEF BufferInv, Forwards
<1>5. bwd[n] # <<>> => n # Leaf
  BY DEF BufferInv, Backwards
<1>. QED
  BY <1>1, <1>2, <1>3, <1>4, <1>5, TheOneGoes

(* A node begins to send, or does not, and perhaps its buffer is emptied.  *)
LEMMA ForwardMoves ==
  ASSUME BufferInv, NEW n \in Nodes,
         fwd' = fwd \/ fwd' = [fwd EXCEPT ![n] = <<>>],
         \/ fsend' = fsend
         \/ n # Leaf /\ \E w \in Wire : ~w.granted /\ fsend' = [fsend EXCEPT ![n] = w]
  PROVE  Forwards' /\ fwd' \in [Nodes -> Seq(Msg)] /\ fsend' \in [Nodes -> Wire]
<1>1. fwd' \in [Nodes -> Seq(Msg)] /\ fsend' \in [Nodes -> Wire]
  <2>1. <<>> \in Seq(Msg)
    OBVIOUS
  <2>2. fwd' \in [Nodes -> Seq(Msg)]
    BY <2>1 DEF BufferInv, WireTypes
  <2>3. fsend' \in [Nodes -> Wire]
    BY DEF BufferInv, WireTypes
  <2>. QED
    BY <2>2, <2>3
<1>2. \A m \in Nodes : fwd'[m] \in {fwd[m], <<>>} /\ (fsend'[m].granted => fsend[m].granted)
  BY DEF BufferInv, WireTypes
<1>. QED
  BY <1>1, <1>2, Neighbours, Ends DEF BufferInv, Forwards

(* Likewise in the other direction. *)
LEMMA BackwardMoves ==
  ASSUME BufferInv, NEW n \in Nodes,
         bwd' = bwd \/ bwd' = [bwd EXCEPT ![n] = <<>>],
         \/ bsend' = bsend
         \/ n # Root /\ \E w \in Wire : ~w.granted /\ bsend' = [bsend EXCEPT ![n] = w]
  PROVE  Backwards' /\ bwd' \in [Nodes -> Seq(Msg)] /\ bsend' \in [Nodes -> Wire]
<1>1. bwd' \in [Nodes -> Seq(Msg)] /\ bsend' \in [Nodes -> Wire]
  <2>1. <<>> \in Seq(Msg)
    OBVIOUS
  <2>2. bwd' \in [Nodes -> Seq(Msg)]
    BY <2>1 DEF BufferInv, WireTypes
  <2>3. bsend' \in [Nodes -> Wire]
    BY DEF BufferInv, WireTypes
  <2>. QED
    BY <2>2, <2>3
<1>2. \A m \in Nodes : bwd'[m] \in {bwd[m], <<>>} /\ (bsend'[m].granted => bsend[m].granted)
  BY DEF BufferInv, WireTypes
<1>. QED
  BY <1>1, <1>2, Neighbours, Ends DEF BufferInv, Backwards

(* A gradient is taken, and sent on unless by the root. *)
LEMMA TakeGradientKeeps ==
  ASSUME BufferInv, NEW n \in Nodes, TakeGradient(n)
  PROVE  BufferInv'
<1>1. Head(bwd[n]) \in Msg /\ bwd' = [bwd EXCEPT ![n] = <<>>]
  <2>1. bwd[n] \in Seq(Msg) /\ bwd[n] # <<>>
    BY DEF TakeGradient, BufferInv, WireTypes
  <2>2. Tail(bwd[n]) = <<>>
    BY <2>1, Taken
  <2>3. bwd' = [bwd EXCEPT ![n] = Tail(bwd[n])]
    BY DEF TakeGradient
  <2>4. Head(bwd[n]) \in Msg
    BY <2>1
  <2>. QED
    BY <2>2, <2>3, <2>4
<1>2. UNCHANGED <<fwd, fsend, passId, batch, seen>>
  BY DEF TakeGradient
<1>3. Backwards' /\ bwd' \in [Nodes -> Seq(Msg)] /\ bsend' \in [Nodes -> Wire]
  <2>. DEFINE w == Sending(Head(bwd[n]).id, Head(bwd[n]).batch)
  <2>1. w \in Wire /\ ~w.granted
    BY <1>1 DEF Sending, Msg, Wire
  <2>2. bsend' = bsend \/ (n # Root /\ bsend' = [bsend EXCEPT ![n] = w])
    BY DEF TakeGradient
  <2>. QED
    BY <1>1, <2>1, <2>2, BackwardMoves
<1>. QED
  BY <1>2, <1>3 DEF BufferInv, WireTypes, Forwards

(* A message is delivered to the buffer that has been found empty. *)
LEMMA ForwardArrives ==
  ASSUME BufferInv, NEW n \in Nodes, fsend[n].granted,
         fwd' = [fwd EXCEPT ![n + 1] = Append(@, Message(fsend[n]))],
         fsend' = [fsend EXCEPT ![n] = Idle]
  PROVE  Forwards' /\ fwd' \in [Nodes -> Seq(Msg)] /\ fsend' \in [Nodes -> Wire]
<1>1. n # Leaf /\ n + 1 \in Nodes \ {Root} /\ n \in Int
  BY Neighbours, TrainingAssumption DEF BufferInv, Forwards, Nodes, Root
<1>2. (n + 1) - 1 = n
  BY <1>1
<1>3. fwd[n + 1] = <<>>
  BY <1>1, <1>2 DEF BufferInv, Forwards
<1>4. Message(fsend[n]) \in Msg
  BY DEF BufferInv, WireTypes, Wire, Msg, Message
<1>5. Append(fwd[n + 1], Message(fsend[n])) \in Seq(Msg)
      /\ Len(Append(fwd[n + 1], Message(fsend[n]))) = 1
  BY <1>1, <1>3, <1>4
<1>6. fwd' \in [Nodes -> Seq(Msg)] /\ Len(fwd'[n + 1]) = 1
      /\ \A m \in Nodes \ {n + 1} : fwd'[m] = fwd[m]
  BY <1>1, <1>5 DEF BufferInv, WireTypes
<1>7. Idle \in Wire /\ ~Idle.granted
  BY DEF Idle, Wire
<1>8. fsend' \in [Nodes -> Wire] /\ ~fsend'[n].granted
      /\ \A m \in Nodes \ {n} : fsend'[m] = fsend[m]
  BY <1>7 DEF BufferInv, WireTypes
<1>9. ASSUME NEW m \in Nodes \ {Root}
      PROVE  Len(fwd'[m]) <= 1 /\ (fsend'[m - 1].granted => fwd'[m] = <<>>)
  <2>1. CASE m = n + 1
    BY <1>2, <1>6, <1>8, <2>1
  <2>2. CASE m # n + 1
    <3>1. m - 1 \in Nodes /\ m - 1 # n
      BY <1>1, <2>2, Neighbours
    <3>. QED
      BY <1>6, <1>8, <2>2, <3>1 DEF BufferInv, Forwards
  <2>. QED
    BY <2>1, <2>2
<1>10. fwd'[Root] = <<>> /\ ~fsend'[Leaf].granted
  BY <1>1, <1>6, <1>8, Ends DEF BufferInv, Forwards
<1>. QED
  BY <1>6, <1>8, <1>9, <1>10 DEF Forwards

(* Likewise in the other direction. *)
LEMMA BackwardArrives ==
  ASSUME BufferInv, NEW n \in Nodes, bsend[n].granted,
         bwd' = [bwd EXCEPT ![n - 1] = Append(@, Message(bsend[n]))],
         bsend' = [bsend EXCEPT ![n] = Idle]
  PROVE  Backwards' /\ bwd' \in [Nodes -> Seq(Msg)] /\ bsend' \in [Nodes -> Wire]
<1>1. n # Root /\ n - 1 \in Nodes \ {Leaf} /\ n \in Int
  BY Neighbours, TrainingAssumption DEF BufferInv, Backwards, Nodes, Leaf
<1>2. (n - 1) + 1 = n
  BY <1>1
<1>3. bwd[n - 1] = <<>>
  BY <1>1, <1>2 DEF BufferInv, Backwards
<1>4. Message(bsend[n]) \in Msg
  BY DEF BufferInv, WireTypes, Wire, Msg, Message
<1>5. Append(bwd[n - 1], Message(bsend[n])) \in Seq(Msg)
      /\ Len(Append(bwd[n - 1], Message(bsend[n]))) = 1
  BY <1>1, <1>3, <1>4
<1>6. bwd' \in [Nodes -> Seq(Msg)] /\ Len(bwd'[n - 1]) = 1
      /\ \A m \in Nodes \ {n - 1} : bwd'[m] = bwd[m]
  BY <1>1, <1>5 DEF BufferInv, WireTypes
<1>7. Idle \in Wire /\ ~Idle.granted
  BY DEF Idle, Wire
<1>8. bsend' \in [Nodes -> Wire] /\ ~bsend'[n].granted
      /\ \A m \in Nodes \ {n} : bsend'[m] = bsend[m]
  BY <1>7 DEF BufferInv, WireTypes
<1>9. ASSUME NEW m \in Nodes \ {Leaf}
      PROVE  Len(bwd'[m]) <= 1 /\ (bsend'[m + 1].granted => bwd'[m] = <<>>)
  <2>1. CASE m = n - 1
    BY <1>2, <1>6, <1>8, <2>1
  <2>2. CASE m # n - 1
    <3>1. m + 1 \in Nodes /\ m + 1 # n
      BY <1>1, <2>2, Neighbours
    <3>. QED
      BY <1>6, <1>8, <2>2, <3>1 DEF BufferInv, Backwards
  <2>. QED
    BY <2>1, <2>2
<1>10. bwd'[Leaf] = <<>> /\ ~bsend'[Root].granted
  BY <1>1, <1>6, <1>8, Ends DEF BufferInv, Backwards
<1>. QED
  BY <1>6, <1>8, <1>9, <1>10 DEF Backwards

(* A poll is answered "clear" only for an empty buffer. *)
LEMMA PollKeeps ==
  ASSUME BufferInv, NEW n \in Nodes, PollForward(n) \/ PollBackward(n)
  PROVE  BufferInv'
<1>1. CASE PollForward(n)
  <2>1. n # Leaf /\ fwd[n + 1] = <<>> /\ UNCHANGED <<fwd, bwd, bsend, passId, batch, seen>>
    BY <1>1 DEF PollForward, IsFree, loop, counts
  <2>2. fsend' \in [Nodes -> Wire] /\ \A m \in Nodes \ {n} : fsend'[m] = fsend[m]
    BY <1>1 DEF PollForward, BufferInv, WireTypes, Wire
  <2>3. Forwards'
    BY <2>1, <2>2, Neighbours, Ends DEF BufferInv, Forwards
  <2>. QED
    BY <2>1, <2>2, <2>3 DEF BufferInv, WireTypes, Backwards
<1>2. CASE PollBackward(n)
  <2>1. n # Root /\ bwd[n - 1] = <<>> /\ UNCHANGED <<fwd, bwd, fsend, passId, batch, seen>>
    BY <1>2 DEF PollBackward, IsFree, loop, counts
  <2>2. bsend' \in [Nodes -> Wire] /\ \A m \in Nodes \ {n} : bsend'[m] = bsend[m]
    BY <1>2 DEF PollBackward, BufferInv, WireTypes, Wire
  <2>3. Backwards'
    BY <2>1, <2>2, Neighbours, Ends DEF BufferInv, Backwards
  <2>. QED
    BY <2>1, <2>2, <2>3 DEF BufferInv, WireTypes, Forwards
<1>. QED
  BY <1>1, <1>2

(* BufferInv is inductive. *)
LEMMA BufferStep == BufferInv /\ [TrainingNext]_trainingVars => BufferInv'
<1>. SUFFICES ASSUME BufferInv, [TrainingNext]_trainingVars PROVE BufferInv'
  OBVIOUS
<1>1. ASSUME UNCHANGED <<wires, passId, batch, seen>>
      PROVE  BufferInv'
  BY <1>1 DEF wires, BufferInv, WireTypes, Forwards, Backwards
<1>2. ASSUME batch' \in [Nodes -> Int], UNCHANGED <<wires, passId, seen>>
      PROVE  BufferInv'
  BY <1>2 DEF wires, BufferInv, WireTypes, Forwards, Backwards
<1>3. CASE RootMain
  <2>1. CASE RootForward
    <3>. DEFINE w == Sending(passId[Root], batch[Root])
    <3>1. w \in Wire /\ ~w.granted
      BY Ends DEF BufferInv, WireTypes, Sending, Wire
    <3>2. fsend' = [fsend EXCEPT ![Root] = w] /\ UNCHANGED <<fwd, bwd, bsend, passId, batch, seen>>
      BY <2>1 DEF RootForward
    <3>3. Forwards' /\ fwd' \in [Nodes -> Seq(Msg)] /\ fsend' \in [Nodes -> Wire]
      BY <3>1, <3>2, Ends, ForwardMoves
    <3>. QED
      BY <3>2, <3>3 DEF BufferInv, WireTypes, Backwards
  <2>2. CASE RootSkips
    BY <1>1, <2>2 DEF RootSkips, counts
  <2>3. CASE RootTakesGradientWhileSending
    BY <2>3, Ends, TakeGradientKeeps DEF RootTakesGradientWhileSending
  <2>. QED
    BY <1>3, <2>1, <2>2, <2>3 DEF RootMain
<1>4. CASE LeafMain
  <2>1. CASE LeafForward
    <3>1. fwd[Leaf] \in Seq(Msg) /\ fwd[Leaf] # <<>> /\ fwd' = [fwd EXCEPT ![Leaf] = Tail(fwd[Leaf])]
      BY <2>1, Ends DEF LeafForward, BufferInv, WireTypes
    <3>2. fwd' = [fwd EXCEPT ![Leaf] = <<>>]
      BY <3>1, Ends, Taken
    <3>3. UNCHANGED <<fsend, bwd, bsend, batch>> /\ seen' = Head(fwd[Leaf])
          /\ passId' = [passId EXCEPT ![Leaf] = Head(fwd[Leaf]).id]
      BY <2>1 DEF LeafForward
    <3>4. Forwards' /\ fwd' \in [Nodes -> Seq(Msg)] /\ fsend' \in [Nodes -> Wire]
      BY <3>2, <3>3, Ends, ForwardMoves
    <3>5. Head(fwd[Leaf]) \in Msg
      BY <3>1
    <3>6. seen' \in Msg /\ passId' \in [Nodes -> Int]
      BY <3>3, <3>5 DEF BufferInv, WireTypes, Msg
    <3>. QED
      BY <3>3, <3>4, <3>6 DEF BufferInv, WireTypes, Backwards
  <2>2. CASE LeafBackward
    <3>. DEFINE w == Sending(passId[Leaf], seen.batch)
    <3>1. w \in Wire /\ ~w.granted
      BY Ends DEF BufferInv, WireTypes, Sending, Wire, Msg
    <3>2. bsend' = [bsend EXCEPT ![Leaf] = w] /\ UNCHANGED <<fwd, bwd, fsend, passId, batch, seen>>
      BY <2>2 DEF LeafBackward
    <3>3. Backwards' /\ bwd' \in [Nodes -> Seq(Msg)] /\ bsend' \in [Nodes -> Wire]
      BY <3>1, <3>2, Ends, BackwardMoves
    <3>. QED
      BY <3>2, <3>3 DEF BufferInv, WireTypes, Forwards
  <2>. QED
    BY <1>4, <2>1, <2>2 DEF LeafMain
<1>5. ASSUME NEW n \in Nodes, DeliverForward(n)
      PROVE  BufferInv'
  <2>1. Forwards' /\ fwd' \in [Nodes -> Seq(Msg)] /\ fsend' \in [Nodes -> Wire]
    BY <1>5, ForwardArrives DEF DeliverForward
  <2>2. passId' \in [Nodes -> Int]
    BY <1>5 DEF DeliverForward, BufferInv, WireTypes
  <2>3. UNCHANGED <<bwd, bsend, batch, seen>>
    BY <1>5 DEF DeliverForward
  <2>. QED
    BY <2>1, <2>2, <2>3 DEF BufferInv, WireTypes, Backwards
<1>6. ASSUME NEW n \in Nodes, DeliverBackward(n)
      PROVE  BufferInv'
  <2>1. Backwards' /\ bwd' \in [Nodes -> Seq(Msg)] /\ bsend' \in [Nodes -> Wire]
    BY <1>6, BackwardArrives DEF DeliverBackward
  <2>2. UNCHANGED <<fwd, fsend, passId, batch, seen>>
    BY <1>6 DEF DeliverBackward, loop, counts
  <2>. QED
    BY <2>1, <2>2 DEF BufferInv, WireTypes, Forwards
<1>7. ASSUME NEW n \in Nodes, StemForward(n)
      PROVE  BufferInv'
  <2>. DEFINE w == Sending(Head(fwd[n]).id, Head(fwd[n]).batch)
  <2>1. fwd[n] \in Seq(Msg) /\ fwd[n] # <<>>
    BY <1>7 DEF StemForward, BufferInv, WireTypes
  <2>2. Head(fwd[n]) \in Msg
    BY <2>1
  <2>3. fwd' = [fwd EXCEPT ![n] = <<>>] /\ fsend' = [fsend EXCEPT ![n] = w] /\ n # Leaf
    BY <1>7, <2>1, Taken DEF StemForward
  <2>4. w \in Wire /\ ~w.granted
    BY <2>2 DEF Sending, Wire, Msg
  <2>5. Forwards' /\ fwd' \in [Nodes -> Seq(Msg)] /\ fsend' \in [Nodes -> Wire]
    BY <2>3, <2>4, ForwardMoves
  <2>6. UNCHANGED <<bwd, bsend, passId, batch, seen>>
    BY <1>7 DEF StemForward
  <2>. QED
    BY <2>5, <2>6 DEF BufferInv, WireTypes, Backwards
<1>8. ASSUME NEW n \in Nodes, Backward(n) \/ AwaitBackward(n)
      PROVE  BufferInv'
  BY <1>1, <1>8, TakeGradientKeeps DEF Backward, AwaitBackward, counts
<1>9. ASSUME NEW n \in Nodes, Join(n)
      PROVE  BufferInv'
  <2>1. batch' = batch \/ batch' = [batch EXCEPT ![n] = @ + 1]
    BY <1>9 DEF Join, AfterUpdate
  <2>2. batch' \in [Nodes -> Int]
    BY <2>1 DEF BufferInv, WireTypes
  <2>. QED
    BY <1>2, <1>9, <2>2 DEF Join, counts
<1>10. ASSUME NEW n \in Nodes, StemFindsNothing(n) \/ AwaitJoin(n) \/ AwaitEnds(n)
       PROVE  BufferInv'
  BY <1>1, <1>10 DEF StemFindsNothing, AwaitJoin, AwaitEnds, counts
<1>11. CASE UNCHANGED trainingVars
  BY <1>1, <1>11 DEF trainingVars, loop, counts
<1>. QED
  BY <1>3, <1>4, <1>5, <1>6, <1>7, <1>8, <1>9, <1>10, <1>11, PollKeeps
  DEF TrainingNext, Main, Sends, Answers

(* The handshake over buffer_status and send_buffer never overfills a      *)
(* buffer, in any cluster and with either trainer.                         *)
THEOREM BuffersNeverOverflow == TrainingSpec => []BuffersHoldOne
<1>1. BufferInv => BuffersHoldOne
  <2>1. Len(<<>>) = 0
    OBVIOUS
  <2>. QED
    BY <2>1, Ends DEF BufferInv, Forwards, Backwards, BuffersHoldOne
<1>. QED
  BY <1>1, BufferInit, BufferStep, PTL DEF TrainingSpec

-----------------------------------------------------------------------------
(* Passes and gradients. *)

Bit(b) == IF b THEN 1 ELSE 0
InFwd(n) == Bit(fwd[n] # <<>>)
InBwd(n) == Bit(bwd[n] # <<>>)
OnFwd(n) == Bit(fsend[n] # Idle)
OnBwd(n) == Bit(bsend[n] # Idle)

(* The passes a node has taken from its buffer; the leaf does not count    *)
(* them.                                                                   *)
Begun(n) == IF n = Leaf THEN nBackwards[n] + Bit(pc[n] = "backward") ELSE nForwards[n]

(* An update that will count as a new version. *)
Pending(n) == Bit(Joining(n) /\ flag[n] = TRUE)

FlowTypes ==
  /\ forwardDone \in [Nodes -> BOOLEAN]
  /\ nForwards \in [Nodes -> Nat] /\ nBackwards \in [Nodes -> Nat]
  /\ latest \in [Nodes -> Nat] /\ version \in [Nodes -> Nat]
  /\ live \in [Nodes -> SUBSET [id : Int, version : Nat]]

(* Which threads are at work, by the place of the main thread. *)
PlacesInv ==
  /\ \A n \in Nodes :
       /\ pc[n] = "sending" => n = Root
       /\ pc[n] \in {"forward", "await", "done"} => fsend[n] = Idle
       /\ pc[n] \in {"forward", "backward", "await", "done"} => bsend[n] = Idle
  /\ pc[Root] = "sending" <=> fsend[Root] # Idle
  /\ fsend[Leaf] = Idle /\ bsend[Root] = Idle
  /\ nForwards[Leaf] = 0 /\ pc[Leaf] # "awaitJoin"

(* The passes between a node and the next one are those that it has begun  *)
(* and the next one has not, in order.                                     *)
PassesInv ==
  /\ \A n \in Nodes \ {Leaf} :
       /\ nForwards[n] = Begun(n + 1) + InFwd(n + 1) + OnFwd(n)
       /\ fsend[n] # Idle => fsend[n].id = nForwards[n] - 1
       /\ \A i \in DOMAIN fwd[n + 1] : fwd[n + 1][i].id = Begun(n + 1)
  /\ passId[Root] = nForwards[Root] - OnFwd(Root)
  /\ pc[Leaf] = "backward" => seen.id = nBackwards[Leaf] /\ passId[Leaf] = seen.id

(* Likewise the gradients, which come in the order of the passes. *)
GradientsInv ==
  /\ \A n \in Nodes : nBackwards[n] <= Begun(n)
  /\ \A n \in Nodes \ {Leaf} :
       /\ nBackwards[n + 1] = nBackwards[n] + InBwd(n) + OnBwd(n + 1)
       /\ bsend[n + 1] # Idle => bsend[n + 1].id = nBackwards[n + 1] - 1
       /\ \A i \in DOMAIN bwd[n] : bwd[n][i].id = nBackwards[n]
       /\ latest[n] = IF nBackwards[n] = 0 THEN 0 ELSE nBackwards[n] - 1

(* A node holds exactly the passes whose gradients have still to come.     *)
LiveInv ==
  /\ live[Leaf] = {} /\ version[Leaf] = 0 /\ latest[Leaf] = 0
  /\ \A n \in Nodes \ {Leaf} :
       /\ \A f \in live[n] : f.id \in nBackwards[n]..(nForwards[n] - 1)
       /\ \A i \in nBackwards[n]..(nForwards[n] - 1) : \E f \in live[n] : f.id = i
       /\ \A f, g \in live[n] : f.id = g.id => f = g

(* The gate bounds the passes in flight at the root, and since every new   *)
(* version costs a gradient, the age of a pass.                            *)
AgeInv ==
  /\ nForwards[Root] - nBackwards[Root] <= N + 1
  /\ \A n \in Nodes :
       /\ version[n] + Pending(n) <= nBackwards[n]
       /\ \A f \in live[n] : version[n] + Pending(n) - f.version <= nBackwards[n] - f.id + N

FlowInv ==
  /\ BufferInv /\ LoopTypes /\ FlowTypes
  /\ PlacesInv /\ PassesInv /\ GradientsInv /\ LiveInv /\ AgeInv

(* Batches are within the training set, and with BaseTrainerFullAsync they *)
(* are the passes: no batch is left behind without one.                    *)
LoopInv ==
  /\ async \in BOOLEAN
  /\ \A n \in Nodes :
       /\ batch[n] \in 0..AllBatches
       /\ pc[n] \in {"forward", "sending", "backward", "join"} => batch[n] < AllBatches
  /\ nForwards[Root] <= batch[Root] + Bit(pc[Root] \in {"sending", "backward", "join"})
  /\ async =>
       /\ nForwards[Root] = batch[Root] + Bit(pc[Root] = "sending" \/ forwardDone[Root] = TRUE)
       /\ forwardDone[Root] = TRUE => pc[Root] \in {"backward", "join"}
       /\ nBackwards[Leaf] = batch[Leaf] + Bit(pc[Leaf] = "join")
       /\ pc[Leaf] \in {"backward", "join"} => forwardDone[Leaf] = TRUE

(* A message carries the batch of its pass. *)
Fits(m) == m.batch \in Passes /\ (async => m.batch = m.id)
AllFit(buffer) == \A i \in DOMAIN buffer : Fits(buffer[i])
MessagesInv ==
  /\ \A n \in Nodes : /\ AllFit(fwd[n]) /\ AllFit(bwd[n])
                      /\ fsend[n] # Idle => Fits(fsend[n])
                      /\ bsend[n] # Idle => Fits(bsend[n])
  /\ seen # NoPass => Fits(seen)
  /\ pc[Leaf] = "backward" => seen # NoPass

(* What is left for the ranges of the type invariant. *)
RangesInv ==
  /\ \A n \in Nodes : /\ passId[n] \in 0..AllBatches
                      /\ \A f \in live[n] : f.version <= version[n]
                      /\ grads[n] >= 0 /\ dropped[n] >= 0
  /\ seen # NoPass => seen.id \in Passes

TrainingInv == GradientInv /\ FlowInv /\ LoopInv /\ MessagesInv /\ RangesInv

(* The counters are numbers, and the bits are bits. *)
LEMMA CounterTypes ==
  ASSUME LoopTypes, FlowTypes
  PROVE  \A m \in Nodes : /\ Begun(m) \in Int /\ Pending(m) \in {0, 1}
                          /\ InFwd(m) \in {0, 1} /\ InBwd(m) \in {0, 1}
                          /\ OnFwd(m) \in {0, 1} /\ OnBwd(m) \in {0, 1}
BY DEF LoopTypes, FlowTypes, Begun, Pending, InFwd, InBwd, OnFwd, OnBwd, Bit

(* Nothing has begun. *)
LEMMA FlowInit == TrainingInit => FlowInv
<1>. SUFFICES ASSUME TrainingInit PROVE FlowInv
  OBVIOUS
<1>1. BufferInv /\ LoopTypes
  BY BufferInit, GradientInit DEF GradientInv
<1>2. FlowTypes /\ PlacesInv /\ PassesInv
  BY Ends, Neighbours DEF TrainingInit, FlowTypes, PlacesInv, PassesInv, Begun, InFwd, OnFwd, Bit
<1>3. GradientsInv /\ LiveInv /\ AgeInv
  BY Ends, Neighbours, TrainingAssumption
  DEF TrainingInit, GradientsInv, LiveInv, AgeInv, Begun, InBwd, OnBwd, Bit, Pending, Joining
<1>. QED
  BY <1>1, <1>2, <1>3 DEF FlowInv

(* Delivery: the message moves from the wire into the buffer. *)
LEMMA DeliverForwardFlows ==
  ASSUME FlowInv, NEW n \in Nodes, DeliverForward(n)
  PROVE  PlacesInv' /\ PassesInv' /\ GradientsInv' /\ LiveInv' /\ AgeInv' /\ FlowTypes'
<1>. USE DEF FlowInv
<1>1. n # Leaf /\ n + 1 \in Nodes /\ n + 1 # Root /\ n \in Int /\ fsend[n] # Idle /\ fwd[n + 1] = <<>>
  <2>1. n # Leaf /\ fsend[n].granted
    BY DEF DeliverForward, BufferInv, Forwards
  <2>2. n + 1 \in Nodes /\ n \in Int /\ (n + 1) - 1 = n /\ n + 1 # Root
    BY <2>1, Neighbours, TrainingAssumption DEF Nodes, Root
  <2>. QED
    BY <2>1, <2>2 DEF BufferInv, Forwards, Idle
<1>2. /\ fwd' = [fwd EXCEPT ![n + 1] = <<Message(fsend[n])>>]
      /\ fsend' = [fsend EXCEPT ![n] = Idle]
      /\ UNCHANGED <<bwd, bsend, latest, nForwards, nBackwards, live, version, flag, seen>>
  BY <1>1 DEF DeliverForward, compute
<1>3. /\ n = Root => /\ passId' = [passId EXCEPT ![n] = @ + 1]
                     /\ forwardDone' = [forwardDone EXCEPT ![n] = TRUE]
                     /\ pc' = [pc EXCEPT ![n] = "backward"]
      /\ n # Root => UNCHANGED <<passId, forwardDone, pc>>
  BY DEF DeliverForward, MarkBegun, Go
<1>4. /\ \A m \in Nodes : pc'[m] = IF m = n /\ n = Root THEN "backward" ELSE pc[m]
      /\ n = Root => pc[n] = "sending"
  BY <1>1, <1>3 DEF PlacesInv, LoopTypes
<1>5. ASSUME NEW m \in Nodes
      PROVE  Begun(m)' = Begun(m) /\ Pending(m)' = Pending(m)
  <2>1. (pc'[m] \in {"join", "awaitJoin"}) <=> (pc[m] \in {"join", "awaitJoin"})
    BY <1>4
  <2>2. m = Leaf => pc'[m] = pc[m]
    BY <1>1, <1>4
  <2>. QED
    BY <1>2, <2>1, <2>2 DEF Begun, Pending, Joining, Bit
<1>6. \A m \in Nodes : InBwd(m)' = InBwd(m) /\ OnBwd(m)' = OnBwd(m)
  BY <1>2 DEF InBwd, OnBwd
<1>7. \A m \in Nodes : OnFwd(m)' = IF m = n THEN 0 ELSE OnFwd(m)
  BY <1>2 DEF OnFwd, Bit, BufferInv, WireTypes
<1>8. \A m \in Nodes : InFwd(m)' = IF m = n + 1 THEN 1 ELSE InFwd(m)
  BY <1>1, <1>2 DEF InFwd, Bit, BufferInv, WireTypes
<1>9. FlowTypes'
  BY <1>2, <1>3 DEF FlowTypes
<1>10. PlacesInv'
  BY <1>1, <1>2, <1>4, Ends DEF PlacesInv, BufferInv, WireTypes
<1>11. OnFwd(n) = 1 /\ InFwd(n + 1) = 0
  BY <1>1 DEF OnFwd, InFwd, Bit
<1>12. PassesInv'
  <2>1. ASSUME NEW m \in Nodes \ {Leaf}
        PROVE  /\ nForwards'[m] = Begun(m + 1)' + InFwd(m + 1)' + OnFwd(m)'
               /\ fsend'[m] # Idle => fsend'[m].id = nForwards'[m] - 1
               /\ \A i \in DOMAIN fwd'[m + 1] : fwd'[m + 1][i].id = Begun(m + 1)'
    <3>1. m + 1 \in Nodes /\ m \in Int
      BY Neighbours
    <3>2. CASE m = n
      <4>1. Begun(n + 1) = nForwards[n] - 1 /\ fsend[n].id = nForwards[n] - 1
        BY <1>1, <1>11, CounterTypes DEF PassesInv
      <4>2. fwd'[n + 1] = <<Message(fsend[n])>>
        BY <1>1, <1>2 DEF BufferInv, WireTypes
      <4>3. \A i \in DOMAIN fwd'[n + 1] : fwd'[n + 1][i].id = Begun(n + 1)'
        BY <1>1, <1>5, <4>1, <4>2 DEF Message
      <4>4. fsend'[n] = Idle
        BY <1>2 DEF BufferInv, WireTypes
      <4>. QED
        BY <1>1, <1>2, <1>5, <1>7, <1>8, <1>11, <3>2, <4>1, <4>3, <4>4 DEF FlowTypes
    <3>3. CASE m # n
      <4>1. fsend'[m] = fsend[m] /\ fwd'[m + 1] = fwd[m + 1]
        BY <1>1, <1>2, <3>1, <3>3 DEF BufferInv, WireTypes
      <4>2. m + 1 # n + 1
        BY <1>1, <3>1, <3>3
      <4>. QED
        BY <1>2, <1>5, <1>7, <1>8, <3>1, <3>3, <4>1, <4>2 DEF PassesInv
    <3>. QED
      BY <3>2, <3>3
  <2>2. passId'[Root] = nForwards'[Root] - OnFwd(Root)'
    <3>1. CASE n = Root
      <4>1. passId[Root] = nForwards[Root] - 1 /\ passId[Root] \in Int
        BY <1>11, <3>1, Ends DEF PassesInv, BufferInv, WireTypes
      <4>2. passId'[Root] = passId[Root] + 1 /\ OnFwd(Root)' = 0
        BY <1>3, <1>7, <3>1, Ends DEF BufferInv, WireTypes
      <4>. QED
        BY <1>2, <4>1, <4>2, Ends DEF FlowTypes
    <3>2. CASE n # Root
      BY <1>2, <1>3, <1>7, <3>2, Ends DEF PassesInv
    <3>. QED
      BY <3>1, <3>2
  <2>3. pc'[Leaf] = "backward" => seen'.id = nBackwards'[Leaf] /\ passId'[Leaf] = seen'.id
    BY <1>1, <1>2, <1>3, <1>4, Ends DEF PassesInv, BufferInv, WireTypes
  <2>. QED
    BY <2>1, <2>2, <2>3 DEF PassesInv
<1>13. GradientsInv' /\ LiveInv' /\ AgeInv'
  <2>1. GradientsInv'
    BY <1>2, <1>5, <1>6, Neighbours DEF GradientsInv
  <2>2. LiveInv'
    BY <1>2 DEF LiveInv
  <2>3. AgeInv'
    BY <1>2, <1>5 DEF AgeInv
  <2>. QED
    BY <2>1, <2>2, <2>3
<1>. QED
  BY <1>9, <1>10, <1>12, <1>13

(* The main thread goes to another place, and perhaps counts an update. *)
LEMMA PlaceChanges ==
  ASSUME FlowInv, BufferInv', LoopTypes', FlowTypes', NEW n \in Nodes, NEW l \in Labels, Go(n, l),
         UNCHANGED <<wires, counts, live, seen>>,
         l # "sending", pc[n] # "sending",
         l \in {"forward", "await", "done"} => fsend[n] = Idle,
         l \in {"forward", "backward", "await", "done"} => bsend[n] = Idle,
         n = Leaf => pc[n] # "backward" /\ l \notin {"backward", "awaitJoin"} /\ version'[n] = 0,
         \A m \in Nodes \ {n} : version'[m] = version[m] /\ flag'[m] = flag[m],
         version'[n] + Pending(n)' <= version[n] + Pending(n)
  PROVE  FlowInv'
<1>. USE DEF FlowInv
<1>1. \A m \in Nodes : pc'[m] = IF m = n THEN l ELSE pc[m]
  BY DEF Go, LoopTypes
<1>2. UNCHANGED <<fwd, bwd, fsend, bsend, passId, latest, nForwards, nBackwards, live, seen>>
  BY DEF wires, counts
<1>3. \A m \in Nodes : Begun(m)' = Begun(m)
  BY <1>1, <1>2 DEF Begun, Bit
<1>4. \A m \in Nodes : InBwd(m)' = InBwd(m) /\ OnBwd(m)' = OnBwd(m) /\ InFwd(m)' = InFwd(m) /\ OnFwd(m)' = OnFwd(m)
  BY <1>2 DEF InBwd, OnBwd, InFwd, OnFwd
<1>5. \A m \in Nodes \ {n} : Pending(m)' = Pending(m)
  BY <1>1 DEF Pending, Joining
<1>6. PlacesInv'
  BY <1>1, <1>2, Ends DEF PlacesInv
<1>7. PassesInv'
  BY <1>1, <1>2, <1>3, <1>4, Ends, Neighbours DEF PassesInv
<1>8. GradientsInv'
  BY <1>2, <1>3, <1>4, Neighbours DEF GradientsInv
<1>9. LiveInv'
  BY <1>2, Ends DEF LiveInv
<1>10. AgeInv'
  <2>1. ASSUME NEW m \in Nodes
        PROVE  version'[m] + Pending(m)' <= version[m] + Pending(m)
    <3>1. version[m] \in Int /\ Pending(m) \in Int
      BY DEF FlowTypes, Pending, Bit
    <3>. QED
      BY <1>5, <3>1
  <2>2. ASSUME NEW m \in Nodes
        PROVE  /\ version'[m] + Pending(m)' <= nBackwards'[m]
               /\ \A f \in live'[m] : version'[m] + Pending(m)' - f.version <= nBackwards'[m] - f.id + N
    <3>1. version[m] \in Int /\ version'[m] \in Int /\ Pending(m) \in Int /\ Pending(m)' \in Int /\ nBackwards[m] \in Int /\ N \in Int
      BY TrainingAssumption DEF FlowTypes, Pending, Bit
    <3>2. \A f \in live[m] : f.id \in Int /\ f.version \in Int
      BY DEF FlowTypes
    <3>. QED
      BY <1>2, <2>1, <3>1, <3>2 DEF AgeInv
  <2>. QED
    BY <1>2, <2>2 DEF AgeInv
<1>. QED
  BY <1>6, <1>7, <1>8, <1>9, <1>10

(* A poll changes neither a message nor who sends one. *)
LEMMA PollFlows ==
  ASSUME FlowInv, BufferInv', NEW n \in Nodes, PollForward(n) \/ PollBackward(n)
  PROVE  FlowInv'
<1>. USE DEF FlowInv
<1>1. UNCHANGED <<pc, flag, forwardDone, fwd, bwd, passId, latest, nForwards, nBackwards, live, version,
                  grads, dropped, seen>>
  BY DEF PollForward, PollBackward, loop, counts, compute
<1>2. \A m \in Nodes : /\ (fsend'[m] = Idle) <=> (fsend[m] = Idle)
                       /\ (bsend'[m] = Idle) <=> (bsend[m] = Idle)
                       /\ fsend'[m].id = fsend[m].id /\ bsend'[m].id = bsend[m].id
  <2>1. CASE PollForward(n)
    <3>1. /\ bsend' = bsend /\ fsend[n] # Idle /\ fsend[n].granted = FALSE
          /\ fsend' = [fsend EXCEPT ![n] = [fsend[n] EXCEPT !.granted = TRUE]]
      BY <2>1 DEF PollForward, BufferInv, WireTypes, Wire
    <3>2. fsend'[n] # Idle /\ fsend'[n].id = fsend[n].id /\ \A m \in Nodes \ {n} : fsend'[m] = fsend[m]
      BY <3>1 DEF BufferInv, WireTypes, Wire, Idle
    <3>. QED
      BY <3>1, <3>2
  <2>2. CASE PollBackward(n)
    <3>1. /\ fsend' = fsend /\ bsend[n] # Idle /\ bsend[n].granted = FALSE
          /\ bsend' = [bsend EXCEPT ![n] = [bsend[n] EXCEPT !.granted = TRUE]]
      BY <2>2 DEF PollBackward, BufferInv, WireTypes, Wire
    <3>2. bsend'[n] # Idle /\ bsend'[n].id = bsend[n].id /\ \A m \in Nodes \ {n} : bsend'[m] = bsend[m]
      BY <3>1 DEF BufferInv, WireTypes, Wire, Idle
    <3>. QED
      BY <3>1, <3>2
  <2>. QED
    BY <2>1, <2>2
<1>3. \A m \in Nodes : /\ Begun(m)' = Begun(m) /\ Pending(m)' = Pending(m)
                       /\ InFwd(m)' = InFwd(m) /\ InBwd(m)' = InBwd(m)
                       /\ OnFwd(m)' = OnFwd(m) /\ OnBwd(m)' = OnBwd(m)
  BY <1>1, <1>2 DEF Begun, Pending, Joining, InFwd, InBwd, OnFwd, OnBwd, Bit
<1>4. LoopTypes' /\ FlowTypes'
  BY <1>1 DEF LoopTypes, FlowTypes
<1>5. PlacesInv'
  BY <1>1, <1>2, Ends DEF PlacesInv
<1>6. PassesInv'
  BY <1>1, <1>2, <1>3, Ends, Neighbours DEF PassesInv
<1>7. GradientsInv'
  BY <1>1, <1>2, <1>3, Neighbours DEF GradientsInv
<1>8. LiveInv' /\ AgeInv'
  BY <1>1, <1>3, Ends DEF LiveInv, AgeInv
<1>. QED
  BY <1>4, <1>5, <1>6, <1>7, <1>8

(* Likewise in the other direction. *)
LEMMA DeliverBackwardFlows ==
  ASSUME FlowInv, BufferInv', NEW n \in Nodes, DeliverBackward(n)
  PROVE  FlowInv'
<1>. USE DEF FlowInv
<1>1. n # Root /\ n - 1 \in Nodes \ {Leaf} /\ n \in Int /\ bsend[n] # Idle /\ bwd[n - 1] = <<>>
  <2>1. n # Root /\ bsend[n].granted
    BY DEF DeliverBackward, BufferInv, Backwards
  <2>2. n - 1 \in Nodes \ {Leaf} /\ n \in Int /\ (n - 1) + 1 = n
    BY <2>1, Neighbours, TrainingAssumption DEF Nodes, Leaf
  <2>. QED
    BY <2>1, <2>2 DEF BufferInv, Backwards, Idle
<1>2. /\ bwd' = [bwd EXCEPT ![n - 1] = <<Message(bsend[n])>>]
      /\ bsend' = [bsend EXCEPT ![n] = Idle]
      /\ UNCHANGED <<pc, flag, forwardDone, fwd, fsend, passId, latest, nForwards, nBackwards, live,
                     version, grads, dropped, seen>>
  BY <1>1 DEF DeliverBackward, loop, counts, compute
<1>3. LoopTypes' /\ FlowTypes'
  BY <1>2 DEF LoopTypes, FlowTypes
<1>4. \A m \in Nodes : /\ Begun(m)' = Begun(m) /\ Pending(m)' = Pending(m)
                       /\ InFwd(m)' = InFwd(m) /\ OnFwd(m)' = OnFwd(m)
  BY <1>2 DEF Begun, Pending, Joining, InFwd, OnFwd
<1>5. \A m \in Nodes : OnBwd(m)' = IF m = n THEN 0 ELSE OnBwd(m)
  BY <1>2 DEF OnBwd, Bit, BufferInv, WireTypes
<1>6. \A m \in Nodes : InBwd(m)' = IF m = n - 1 THEN 1 ELSE InBwd(m)
  BY <1>1, <1>2 DEF InBwd, Bit, BufferInv, WireTypes
<1>7. OnBwd(n) = 1 /\ InBwd(n - 1) = 0
  BY <1>1 DEF OnBwd, InBwd, Bit
<1>8. PlacesInv'
  BY <1>2, Ends DEF PlacesInv, BufferInv, WireTypes
<1>9. PassesInv'
  BY <1>2, <1>4, Ends, Neighbours DEF PassesInv
<1>10. GradientsInv'
  <2>1. ASSUME NEW m \in Nodes \ {Leaf}
        PROVE  /\ nBackwards'[m + 1] = nBackwards'[m] + InBwd(m)' + OnBwd(m + 1)'
               /\ bsend'[m + 1] # Idle => bsend'[m + 1].id = nBackwards'[m + 1] - 1
               /\ \A i \in DOMAIN bwd'[m] : bwd'[m][i].id = nBackwards'[m]
               /\ latest'[m] = IF nBackwards'[m] = 0 THEN 0 ELSE nBackwards'[m] - 1
    <3>1. m + 1 \in Nodes /\ m \in Int
      BY Neighbours
    <3>2. CASE m = n - 1
      <4>1. m + 1 = n
        BY <1>1, <3>1, <3>2
      <4>2. nBackwards[n] = nBackwards[m] + 1 /\ bsend[n].id = nBackwards[n] - 1
        BY <1>1, <1>7, <3>2, <4>1, CounterTypes DEF GradientsInv, LoopTypes
      <4>3. bwd'[m] = <<Message(bsend[n])>> /\ bsend'[n] = Idle
        BY <1>1, <1>2, <3>2 DEF BufferInv, WireTypes
      <4>4. nBackwards[m] \in Int /\ nBackwards[n] \in Int
        BY DEF LoopTypes
      <4>5. \A i \in DOMAIN bwd'[m] : bwd'[m][i].id = nBackwards'[m]
        BY <1>2, <4>2, <4>3, <4>4 DEF Message
      <4>6. latest[m] = IF nBackwards[m] = 0 THEN 0 ELSE nBackwards[m] - 1
        BY DEF GradientsInv
      <4>7. nBackwards'[m + 1] = nBackwards'[m] + InBwd(m)' + OnBwd(m + 1)'
        BY <1>1, <1>2, <1>5, <1>6, <3>1, <3>2, <4>1, <4>2, <4>4
      <4>. QED
        BY <1>2, <4>1, <4>3, <4>5, <4>6, <4>7
    <3>3. CASE m # n - 1
      <4>1. m + 1 # n
        BY <1>1, <3>1, <3>3
      <4>2. bsend'[m + 1] = bsend[m + 1] /\ bwd'[m] = bwd[m]
        BY <1>1, <1>2, <3>1, <3>3, <4>1 DEF BufferInv, WireTypes
      <4>. QED
        BY <1>2, <1>5, <1>6, <3>1, <3>3, <4>1, <4>2 DEF GradientsInv
    <3>. QED
      BY <3>2, <3>3
  <2>. QED
    BY <1>2, <1>4, <2>1 DEF GradientsInv
<1>11. LiveInv' /\ AgeInv'
  BY <1>2, <1>4, Ends DEF LiveInv, AgeInv
<1>. QED
  BY <1>3, <1>8, <1>9, <1>10, <1>11

(* A node begins a pass: the root one of its own, a stem the one it takes. *)
LEMMA PassBegins ==
  ASSUME FlowInv, BufferInv', LoopTypes', FlowTypes', NEW n \in Nodes \ {Leaf}, NEW i \in Int,
         NEW b \in Int, NEW l \in {"sending", "backward"}, l = "sending" <=> n = Root,
         pc[n] = "forward", i = nForwards[n], nForwards[n] - nBackwards[n] <= N,
         Go(n, l), Register(n, i), nForwards' = [nForwards EXCEPT ![n] = @ + 1],
         fsend' = [fsend EXCEPT ![n] = Sending(i, b)],
         IF n = Root THEN fwd' = fwd
         ELSE /\ fwd[n] # <<>> /\ fwd' = [fwd EXCEPT ![n] = <<>>]
              /\ \A j \in DOMAIN fwd[n] : fwd[n][j].id = i,
         UNCHANGED <<flag, bwd, bsend, passId, latest, nBackwards, version, seen>>
  PROVE  FlowInv'
<1>. USE DEF FlowInv
<1>1. \A m \in Nodes : pc'[m] = IF m = n THEN l ELSE pc[m]
  BY DEF Go, LoopTypes
<1>2. fsend[n] = Idle /\ bsend[n] = Idle
  BY DEF PlacesInv
<1>3. \A m \in Nodes : fsend'[m] = IF m = n THEN Sending(i, b) ELSE fsend[m]
  BY DEF BufferInv, WireTypes
<1>4. \A m \in Nodes : fwd'[m] = IF m = n /\ n # Root THEN <<>> ELSE fwd[m]
  BY DEF BufferInv, WireTypes
<1>5. \A m \in Nodes : nForwards'[m] = IF m = n THEN nForwards[m] + 1 ELSE nForwards[m]
  BY DEF FlowTypes
<1>6. \A m \in Nodes : Begun(m)' = IF m = n THEN Begun(m) + 1 ELSE Begun(m)
  BY <1>1, <1>5 DEF Begun, Bit
<1>7. \A m \in Nodes : /\ InBwd(m)' = InBwd(m) /\ OnBwd(m)' = OnBwd(m) /\ Pending(m)' = Pending(m)
                       /\ OnFwd(m)' = IF m = n THEN 1 ELSE OnFwd(m)
                       /\ InFwd(m)' = IF m = n /\ n # Root THEN 0 ELSE InFwd(m)
  <2>1. Sending(i, b) # Idle
    BY DEF Sending, Idle, FlowTypes
  <2>. QED
    BY <1>1, <1>3, <1>4, <2>1 DEF InBwd, OnBwd, Pending, Joining, InFwd, OnFwd, Bit
<1>8. OnFwd(n) = 0 /\ (n # Root => InFwd(n) = 1)
  BY <1>2 DEF OnFwd, InFwd, Bit
<1>9. PlacesInv'
  <2>1. fsend'[n] # Idle
    BY <1>3 DEF Sending, Idle, FlowTypes
  <2>2. \A m \in Nodes : fsend'[m] = IF m = n THEN fsend'[n] ELSE fsend[m]
    BY <1>3
  <2>. QED
    BY <1>1, <1>2, <1>5, <2>1, <2>2, Ends DEF PlacesInv
<1>10. PassesInv'
  <2>1. ASSUME NEW m \in Nodes \ {Leaf}
        PROVE  /\ nForwards'[m] = Begun(m + 1)' + InFwd(m + 1)' + OnFwd(m)'
               /\ fsend'[m] # Idle => fsend'[m].id = nForwards'[m] - 1
               /\ \A j \in DOMAIN fwd'[m + 1] : fwd'[m + 1][j].id = Begun(m + 1)'
    <3>1. m + 1 \in Nodes /\ m \in Int /\ m + 1 # Root /\ m + 1 # m /\ n \in Int
      BY Neighbours DEF Nodes, Root
    <3>2. nForwards[m] = Begun(m + 1) + InFwd(m + 1) + OnFwd(m)
      BY DEF PassesInv
    <3>3. nForwards[m] \in Int /\ Begun(m + 1) \in Int /\ InFwd(m + 1) \in Int /\ OnFwd(m) \in Int
      <4>1. nForwards[m] \in Int
        BY DEF FlowTypes
      <4>. QED
        BY <3>1, <4>1, CounterTypes
    <3>4. nForwards'[m] = Begun(m + 1)' + InFwd(m + 1)' + OnFwd(m)'
      <4>1. CASE m = n
        BY <1>5, <1>6, <1>7, <1>8, <3>1, <3>2, <3>3, <4>1
      <4>2. CASE m # n /\ m + 1 = n
        BY <1>5, <1>6, <1>7, <1>8, <3>1, <3>2, <3>3, <4>2
      <4>3. CASE m # n /\ m + 1 # n
        BY <1>5, <1>6, <1>7, <3>1, <3>2, <4>3
      <4>. QED
        BY <4>1, <4>2, <4>3
    <3>5. fsend'[m] # Idle => fsend'[m].id = nForwards'[m] - 1
      BY <1>3, <1>5, <3>3 DEF PassesInv, Sending
    <3>6. \A j \in DOMAIN fwd'[m + 1] : fwd'[m + 1][j].id = Begun(m + 1)'
      <4>1. CASE m + 1 = n
        BY <1>4, <3>1, <4>1
      <4>2. CASE m + 1 # n
        BY <1>4, <1>6, <3>1, <4>2 DEF PassesInv
      <4>. QED
        BY <4>1, <4>2
    <3>. QED
      BY <3>4, <3>5, <3>6
  <2>2. passId'[Root] = nForwards'[Root] - OnFwd(Root)'
    <3>1. passId[Root] = nForwards[Root] - OnFwd(Root) /\ nForwards[Root] \in Int
      BY Ends DEF PassesInv, FlowTypes
    <3>. QED
      BY <1>5, <1>7, <1>8, <3>1, Ends
  <2>3. pc'[Leaf] = "backward" => seen'.id = nBackwards'[Leaf] /\ passId'[Leaf] = seen'.id
    BY <1>1, Ends DEF PassesInv
  <2>. QED
    BY <2>1, <2>2, <2>3 DEF PassesInv
<1>11. GradientsInv'
  <2>1. \A m \in Nodes : Begun(m) \in Int /\ nBackwards[m] \in Int
    BY CounterTypes DEF LoopTypes
  <2>2. \A m \in Nodes : nBackwards'[m] <= Begun(m)'
    BY <1>6, <2>1 DEF GradientsInv
  <2>. QED
    BY <1>7, <2>2, Neighbours DEF GradientsInv
<1>12. LiveInv'
  <2>. DEFINE f == [id |-> i, version |-> version[n]]
  <2>1. \A m \in Nodes : live'[m] = IF m = n THEN live[m] \union {f} ELSE live[m]
    BY DEF Register, FlowTypes
  <2>2. live'[Leaf] = {}
    BY <2>1, Ends DEF LiveInv
  <2>3. nForwards[n] \in Int /\ nBackwards[n] \in Int /\ nBackwards[n] <= nForwards[n]
    BY DEF FlowTypes, LoopTypes, GradientsInv, Begun
  <2>4. f.id = i /\ f.version = version[n]
    OBVIOUS
  <2>. HIDE DEF f
  <2>5. ASSUME NEW m \in Nodes \ {Leaf}
        PROVE  /\ \A g \in live'[m] : g.id \in nBackwards'[m]..(nForwards'[m] - 1)
               /\ \A j \in nBackwards'[m]..(nForwards'[m] - 1) : \E g \in live'[m] : g.id = j
               /\ \A g, h \in live'[m] : g.id = h.id => g = h
    <3>1. CASE m = n
      <4>1. \A g \in live[n] : g.id \in nBackwards[n]..(nForwards[n] - 1)
        BY DEF LiveInv
      <4>2. live'[n] = live[n] \union {f} /\ nBackwards'[n] = nBackwards[n] /\ nForwards'[n] = nForwards[n] + 1
        BY <1>5, <2>1
      <4>3. \A g \in live'[n] : g.id \in nBackwards'[n]..(nForwards'[n] - 1)
        BY <2>3, <2>4, <4>1, <4>2
      <4>4. \A j \in nBackwards'[n]..(nForwards'[n] - 1) : \E g \in live'[n] : g.id = j
        <5>1. ASSUME NEW j \in nBackwards'[n]..(nForwards'[n] - 1) PROVE \E g \in live'[n] : g.id = j
          <6>1. j = i \/ j \in nBackwards[n]..(nForwards[n] - 1)
            BY <2>3, <4>2
          <6>. QED
            BY <2>4, <4>2, <6>1 DEF LiveInv
        <5>. QED
          BY <5>1
      <4>5. \A g, h \in live'[n] : g.id = h.id => g = h
        <5>1. \A g \in live[n] : g.id # f.id
          BY <2>3, <2>4, <4>1
        <5>. QED
          BY <4>2, <5>1 DEF LiveInv
      <4>. QED
        BY <3>1, <4>3, <4>4, <4>5
    <3>2. CASE m # n
      <4>1. live'[m] = live[m] /\ nBackwards'[m] = nBackwards[m] /\ nForwards'[m] = nForwards[m]
        BY <1>5, <2>1, <3>2
      <4>. QED
        BY <4>1 DEF LiveInv
    <3>. QED
      BY <3>1, <3>2
  <2>. QED
    BY <2>2, <2>5, Ends DEF LiveInv
<1>13. AgeInv'
  <2>1. nForwards'[Root] - nBackwards'[Root] <= N + 1
    <3>1. nForwards[Root] \in Int /\ nBackwards[Root] \in Int /\ N \in Int
      BY Ends, TrainingAssumption DEF FlowTypes, LoopTypes
    <3>. QED
      BY <1>5, <3>1, Ends DEF AgeInv
  <2>2. ASSUME NEW m \in Nodes, NEW g \in live'[m]
        PROVE  version'[m] + Pending(m)' - g.version <= nBackwards'[m] - g.id + N
    <3>1. CASE g \in live[m]
      BY <1>7, <3>1 DEF AgeInv
    <3>2. CASE m = n /\ g.id = i /\ g.version = version[n]
      <4>1. Pending(n)' = 0
        BY <1>1, <3>2 DEF Pending, Joining, Bit
      <4>2. version[n] \in Int /\ nBackwards[n] \in Int /\ nForwards[n] \in Int /\ N \in Int
        BY TrainingAssumption DEF FlowTypes, LoopTypes
      <4>. QED
        BY <3>2, <4>1, <4>2
    <3>3. live'[n] = live[n] \union {[id |-> i, version |-> version[n]]} /\ \A k \in Nodes \ {n} : live'[k] = live[k]
      BY DEF Register, FlowTypes
    <3>. QED
      BY <2>2, <3>1, <3>2, <3>3
  <2>. QED
    BY <1>7, <2>1, <2>2 DEF AgeInv
<1>. QED
  BY <1>9, <1>10, <1>11, <1>12, <1>13

(* The only message of a buffer. *)
LEMMA TheOne ==
  ASSUME NEW s \in Seq(Msg), Len(s) <= 1, s # <<>>
  PROVE  Len(s) = 1 /\ Tail(s) = <<>> /\ Head(s) = s[1]
<1>1. Len(s) = 1
  <2>1. Len(s) \in Nat /\ Len(s) # 0
    OBVIOUS
  <2>. QED
    BY <2>1
<1>2. Head(s) = s[1]
  BY <1>1
<1>. QED
  BY <1>1, <1>2, TheOneGoes

(* The leaf receives from a node. *)
LEMMA BeforeLeaf == Leaf - 1 \in Nodes \ {Leaf} /\ (Leaf - 1) + 1 = Leaf
BY TrainingAssumption DEF Leaf, Nodes

(* The leaf takes a pass. *)
LEMMA LeafForwardFlows ==
  ASSUME FlowInv, BufferInv', LeafForward
  PROVE  FlowInv'
<1>. USE DEF FlowInv
<1>1. /\ pc[Leaf] = "forward" /\ fwd[Leaf] # <<>> /\ pc' = [pc EXCEPT ![Leaf] = "backward"]
      /\ forwardDone' = [forwardDone EXCEPT ![Leaf] = TRUE]
      /\ passId' = [passId EXCEPT ![Leaf] = Head(fwd[Leaf]).id] /\ seen' = Head(fwd[Leaf])
      /\ UNCHANGED <<flag, bwd, fsend, bsend, latest, nForwards, nBackwards, live, version, grads, dropped>>
  BY DEF LeafForward, Go, MarkBegun, compute
<1>2. fwd[Leaf] \in Seq(Msg) /\ Len(fwd[Leaf]) = 1 /\ Tail(fwd[Leaf]) = <<>> /\ Head(fwd[Leaf]) = fwd[Leaf][1]
  <2>1. fwd[Leaf] \in Seq(Msg) /\ Len(fwd[Leaf]) <= 1
    BY Ends DEF BufferInv, WireTypes, Forwards
  <2>. QED
    BY <1>1, <2>1, TheOne
<1>3. \A m \in Nodes : fwd'[m] = IF m = Leaf THEN <<>> ELSE fwd[m]
  <2>1. fwd' = [fwd EXCEPT ![Leaf] = <<>>]
    BY <1>2 DEF LeafForward
  <2>. QED
    BY <2>1 DEF BufferInv, WireTypes
<1>4. Leaf - 1 \in Nodes \ {Leaf} /\ (Leaf - 1) + 1 = Leaf
  BY BeforeLeaf
<1>5. fwd[Leaf][1].id = Begun(Leaf) /\ Begun(Leaf) = nBackwards[Leaf] /\ nBackwards[Leaf] \in Int
  <2>1. 1 \in DOMAIN fwd[Leaf]
    BY <1>2
  <2>2. fwd[Leaf][1].id = Begun(Leaf)
    BY <1>4, <2>1 DEF PassesInv
  <2>3. nBackwards[Leaf] \in Int
    BY Ends DEF LoopTypes
  <2>. QED
    BY <1>1, <2>2, <2>3 DEF Begun, Bit
<1>6. \A m \in Nodes : pc'[m] = IF m = Leaf THEN "backward" ELSE pc[m]
  BY <1>1 DEF LoopTypes
<1>7. \A m \in Nodes : Begun(m)' = IF m = Leaf THEN Begun(m) + 1 ELSE Begun(m)
  BY <1>1, <1>5, <1>6 DEF Begun, Bit
<1>8. \A m \in Nodes : /\ InBwd(m)' = InBwd(m) /\ OnBwd(m)' = OnBwd(m) /\ OnFwd(m)' = OnFwd(m)
                       /\ Pending(m)' = Pending(m)
                       /\ InFwd(m)' = IF m = Leaf THEN 0 ELSE InFwd(m)
  BY <1>1, <1>3, <1>6 DEF InBwd, OnBwd, OnFwd, InFwd, Pending, Joining, Bit
<1>9. InFwd(Leaf) = 1
  BY <1>1 DEF InFwd, Bit
<1>10. LoopTypes' /\ FlowTypes'
  <2>1. pc' \in [Nodes -> Labels]
    BY <1>1 DEF LoopTypes, Labels
  <2>. QED
    BY <1>1, <2>1 DEF LoopTypes, FlowTypes
<1>11. PlacesInv'
  BY <1>1, <1>6, Ends DEF PlacesInv
<1>12. PassesInv'
  <2>1. ASSUME NEW m \in Nodes \ {Leaf}
        PROVE  /\ nForwards'[m] = Begun(m + 1)' + InFwd(m + 1)' + OnFwd(m)'
               /\ fsend'[m] # Idle => fsend'[m].id = nForwards'[m] - 1
               /\ \A j \in DOMAIN fwd'[m + 1] : fwd'[m + 1][j].id = Begun(m + 1)'
    <3>1. m + 1 \in Nodes
      BY Neighbours
    <3>2. Begun(m + 1) \in Int /\ InFwd(m + 1) \in Int /\ OnFwd(m) \in Int
      BY <3>1, CounterTypes
    <3>3. CASE m + 1 = Leaf
      <4>1. nForwards'[m] = Begun(m + 1)' + InFwd(m + 1)' + OnFwd(m)'
        BY <1>1, <1>7, <1>8, <1>9, <3>1, <3>2, <3>3 DEF PassesInv
      <4>2. DOMAIN fwd'[m + 1] = {}
        BY <1>3, <3>1, <3>3
      <4>. QED
        BY <1>1, <4>1, <4>2 DEF PassesInv
    <3>4. CASE m + 1 # Leaf
      <4>1. fwd'[m + 1] = fwd[m + 1] /\ Begun(m + 1)' = Begun(m + 1) /\ InFwd(m + 1)' = InFwd(m + 1)
        BY <1>3, <1>7, <1>8, <3>1, <3>4
      <4>. QED
        BY <1>1, <1>8, <4>1 DEF PassesInv
    <3>. QED
      BY <3>3, <3>4
  <2>2. passId'[Root] = nForwards'[Root] - OnFwd(Root)'
    BY <1>1, <1>8, Ends DEF PassesInv, BufferInv, WireTypes
  <2>3. seen'.id = nBackwards'[Leaf] /\ passId'[Leaf] = seen'.id
    BY <1>1, <1>2, <1>5, Ends DEF BufferInv, WireTypes
  <2>. QED
    BY <2>1, <2>2, <2>3 DEF PassesInv
<1>13. GradientsInv'
  <2>1. \A m \in Nodes : Begun(m) \in Int /\ nBackwards[m] \in Int
    BY CounterTypes DEF LoopTypes
  <2>2. \A m \in Nodes : nBackwards'[m] <= Begun(m)'
    BY <1>1, <1>7, <2>1 DEF GradientsInv
  <2>. QED
    BY <1>1, <1>8, <2>2, Neighbours DEF GradientsInv
<1>14. LiveInv' /\ AgeInv'
  BY <1>1, <1>8, Ends DEF LiveInv, AgeInv
<1>. QED
  BY <1>10, <1>11, <1>12, <1>13, <1>14

(* The leaf answers the pass it has taken. *)
LEMMA LeafBackwardFlows ==
  ASSUME FlowInv, BufferInv', LeafBackward
  PROVE  FlowInv'
<1>. USE DEF FlowInv
<1>1. /\ pc[Leaf] = "backward" /\ pc' = [pc EXCEPT ![Leaf] = "join"]
      /\ bsend' = [bsend EXCEPT ![Leaf] = Sending(passId[Leaf], seen.batch)]
      /\ nBackwards' = [nBackwards EXCEPT ![Leaf] = @ + 1]
      /\ grads' = [grads EXCEPT ![Leaf] = @ + 1] /\ flag' = [flag EXCEPT ![Leaf] = TRUE]
      /\ UNCHANGED <<fwd, bwd, fsend, passId, latest, nForwards, live, version, forwardDone, dropped, seen>>
  BY DEF LeafBackward, Go, compute
<1>2. /\ nBackwards[Leaf] \in Nat /\ nBackwards \in [Nodes -> Nat]
      /\ grads[Leaf] \in Int /\ grads \in [Nodes -> Int]
  BY Ends DEF FlowTypes, LoopTypes
<1>3. nBackwards[Leaf] \in Nat /\ passId[Leaf] = nBackwards[Leaf] /\ bsend[Leaf] = Idle
  BY <1>1, Ends DEF FlowTypes, PassesInv, PlacesInv
<1>4. \A m \in Nodes : pc'[m] = IF m = Leaf THEN "join" ELSE pc[m]
  BY <1>1 DEF LoopTypes
<1>5. \A m \in Nodes : nBackwards'[m] = IF m = Leaf THEN nBackwards[m] + 1 ELSE nBackwards[m]
  BY <1>1 DEF FlowTypes
<1>6. \A m \in Nodes : bsend'[m] = IF m = Leaf THEN Sending(passId[Leaf], seen.batch) ELSE bsend[m]
  BY <1>1 DEF BufferInv, WireTypes
<1>7. bsend'[Leaf] # Idle /\ bsend'[Leaf].id = nBackwards[Leaf]
  BY <1>3, <1>6, Ends DEF Sending, Idle
<1>8. \A m \in Nodes : Begun(m)' = Begun(m)
  BY <1>1, <1>3, <1>4, <1>5 DEF Begun, Bit
<1>9. \A m \in Nodes : /\ InBwd(m)' = InBwd(m) /\ OnFwd(m)' = OnFwd(m) /\ InFwd(m)' = InFwd(m)
                       /\ OnBwd(m)' = IF m = Leaf THEN 1 ELSE OnBwd(m)
  BY <1>1, <1>6, <1>7 DEF InBwd, OnBwd, OnFwd, InFwd, Bit
<1>10. OnBwd(Leaf) = 0 /\ Begun(Leaf) = nBackwards[Leaf] + 1
  BY <1>1, <1>3 DEF OnBwd, Begun, Bit
<1>11. LoopTypes' /\ FlowTypes'
  <2>1. pc' \in [Nodes -> Labels]
    BY <1>1 DEF LoopTypes, Labels
  <2>2. flag' \in [Nodes -> BOOLEAN]
    BY <1>1 DEF LoopTypes
  <2>3. nBackwards' \in [Nodes -> Nat]
    BY <1>1, <1>2, Ends
  <2>4. grads' \in [Nodes -> Int] /\ nBackwards' \in [Nodes -> Int]
    BY <1>1, <1>2, Ends
  <2>. QED
    BY <1>1, <2>1, <2>2, <2>3, <2>4 DEF LoopTypes, FlowTypes
<1>12. PlacesInv'
  BY <1>1, <1>4, <1>6, Ends DEF PlacesInv
<1>13. PassesInv'
  BY <1>1, <1>4, <1>8, <1>9, Ends, Neighbours DEF PassesInv
<1>14. GradientsInv'
  <2>1. \A m \in Nodes : nBackwards'[m] <= Begun(m)'
    BY <1>3, <1>5, <1>8, <1>10 DEF GradientsInv
  <2>2. ASSUME NEW m \in Nodes \ {Leaf}
        PROVE  /\ nBackwards'[m + 1] = nBackwards'[m] + InBwd(m)' + OnBwd(m + 1)'
               /\ bsend'[m + 1] # Idle => bsend'[m + 1].id = nBackwards'[m + 1] - 1
    <3>1. m + 1 \in Nodes /\ nBackwards[m] \in Int /\ nBackwards[m + 1] \in Int /\ InBwd(m) \in Int
          /\ nBackwards[m + 1] = nBackwards[m] + InBwd(m) + OnBwd(m + 1)
          /\ (bsend[m + 1] # Idle => bsend[m + 1].id = nBackwards[m + 1] - 1)
      BY Neighbours DEF GradientsInv, LoopTypes, InBwd, Bit
    <3>2. CASE m + 1 = Leaf
      BY <1>5, <1>7, <1>9, <1>10, <3>1, <3>2
    <3>3. CASE m + 1 # Leaf
      BY <1>5, <1>6, <1>9, <3>1, <3>3
    <3>. QED
      BY <3>2, <3>3
  <2>3. ASSUME NEW m \in Nodes \ {Leaf}
        PROVE  /\ \A i \in DOMAIN bwd'[m] : bwd'[m][i].id = nBackwards'[m]
               /\ latest'[m] = IF nBackwards'[m] = 0 THEN 0 ELSE nBackwards'[m] - 1
    BY <1>1, <1>5 DEF GradientsInv
  <2>. QED
    BY <2>1, <2>2, <2>3 DEF GradientsInv
<1>15. LiveInv'
  BY <1>1, <1>5, Ends DEF LiveInv
<1>16. AgeInv'
  <2>1. \A m \in Nodes \ {Leaf} : Pending(m)' = Pending(m)
    BY <1>1, <1>4 DEF Pending, Joining, LoopTypes, Bit
  <2>2. version'[Leaf] = 0 /\ Pending(Leaf)' \in {0, 1} /\ live'[Leaf] = {}
    BY <1>1 DEF Pending, Bit, LiveInv
  <2>3. version'[Leaf] + Pending(Leaf)' <= nBackwards'[Leaf]
    BY <1>3, <1>5, <2>2, Ends
  <2>. QED
    BY <1>1, <1>5, <2>1, <2>2, <2>3, Ends DEF AgeInv
<1>. QED
  BY <1>11, <1>12, <1>13, <1>14, <1>15, <1>16

(* A node takes the gradient of its oldest pass; a stem sends its own on.  *)
LEMMA TakeGradientFlows ==
  ASSUME FlowInv, BufferInv', LoopTypes', NEW n \in Nodes, TakeGradient(n),
         \/ n = Root /\ pc[Root] = "sending" /\ UNCHANGED <<pc, flag>>
         \/ /\ pc[n] \in {"backward", "await"}
            /\ \E l \in {"join", "awaitJoin"} : pc' = [pc EXCEPT ![n] = l]
            /\ \A m \in Nodes \ {n} : flag'[m] = flag[m]
  PROVE  FlowInv'
<1>. USE DEF FlowInv
<1>. DEFINE g == Head(bwd[n])
<1>1. /\ bwd[n] # <<>> /\ bwd' = [bwd EXCEPT ![n] = Tail(@)]
      /\ latest' = [latest EXCEPT ![n] = g.id]
      /\ live' = [live EXCEPT ![n] = {f \in @ : f.id # g.id}]
      /\ bsend' = IF n = Root THEN bsend ELSE [bsend EXCEPT ![n] = Sending(g.id, g.batch)]
      /\ nBackwards' = [nBackwards EXCEPT ![n] = @ + 1]
      /\ UNCHANGED <<fwd, fsend, passId, nForwards, version, forwardDone, seen>>
  BY DEF TakeGradient, Forget
<1>2. n # Leaf /\ n + 1 \in Nodes /\ n + 1 # n /\ n \in Int
      /\ bwd[n] \in Seq(Msg) /\ Len(bwd[n]) = 1 /\ Tail(bwd[n]) = <<>> /\ g = bwd[n][1]
  <2>1. bwd[n] \in Seq(Msg)
    BY DEF BufferInv, WireTypes
  <2>2. n # Leaf
    BY <1>1, Taken
  <2>3. Len(bwd[n]) <= 1
    BY <2>2 DEF BufferInv, Backwards
  <2>4. n + 1 \in Nodes /\ n \in Int
    BY <2>2, Neighbours
  <2>. QED
    BY <1>1, <2>1, <2>2, <2>3, <2>4, TheOne
<1>3. g.id = nBackwards[n] /\ nBackwards[n] \in Nat /\ nForwards[n] \in Nat
  <2>1. 1 \in DOMAIN bwd[n]
    BY <1>2
  <2>2. bwd[n][1].id = nBackwards[n]
    BY <1>2, <2>1 DEF GradientsInv
  <2>. QED
    BY <1>2, <2>2 DEF FlowTypes
<1>. HIDE DEF g
<1>4. bsend[n] = Idle
  BY Ends DEF PlacesInv
<1>5. nBackwards[n] < nForwards[n]
  <2>1. nBackwards[n + 1] = nBackwards[n] + 1 + OnBwd(n + 1)
    BY <1>1, <1>2 DEF GradientsInv, InBwd, Bit
  <2>2. nBackwards[n + 1] <= Begun(n + 1)
    BY <1>2 DEF GradientsInv
  <2>3. nForwards[n] = Begun(n + 1) + InFwd(n + 1) + OnFwd(n)
    BY <1>2 DEF PassesInv
  <2>4. Begun(n + 1) \in Int /\ InFwd(n + 1) \in {0, 1} /\ OnFwd(n) \in {0, 1}
        /\ OnBwd(n + 1) \in {0, 1} /\ nBackwards[n + 1] \in Int
    BY <1>2, CounterTypes DEF LoopTypes
  <2>. QED
    BY <1>3, <2>1, <2>2, <2>3, <2>4
<1>6. \A m \in Nodes : /\ nBackwards'[m] = IF m = n THEN nBackwards[m] + 1 ELSE nBackwards[m]
                       /\ bwd'[m] = IF m = n THEN <<>> ELSE bwd[m]
                       /\ latest'[m] = IF m = n THEN nBackwards[n] ELSE latest[m]
                       /\ live'[m] = IF m = n THEN {f \in live[m] : f.id # nBackwards[n]} ELSE live[m]
  <2>1. bwd' = [bwd EXCEPT ![n] = <<>>]
    BY <1>1, <1>2
  <2>2. \A m \in Nodes : bwd'[m] = IF m = n THEN <<>> ELSE bwd[m]
    BY <2>1 DEF BufferInv, WireTypes
  <2>3. \A m \in Nodes : /\ nBackwards'[m] = IF m = n THEN nBackwards[m] + 1 ELSE nBackwards[m]
                         /\ latest'[m] = IF m = n THEN nBackwards[n] ELSE latest[m]
    BY <1>1, <1>3 DEF FlowTypes
  <2>4. live' = [live EXCEPT ![n] = {f \in live[n] : f.id # nBackwards[n]}]
    BY <1>1, <1>3
  <2>5. \A m \in Nodes : live'[m] = IF m = n THEN {f \in live[m] : f.id # nBackwards[n]} ELSE live[m]
    BY <2>4 DEF FlowTypes
  <2>. QED
    BY <2>2, <2>3, <2>5
<1>7. \A m \in Nodes : bsend'[m] = IF m = n /\ n # Root THEN Sending(nBackwards[n], g.batch) ELSE bsend[m]
  <2>1. CASE n = Root
    BY <1>1, <2>1
  <2>2. CASE n # Root
    BY <1>1, <1>3, <2>2 DEF BufferInv, WireTypes
  <2>. QED
    BY <2>1, <2>2
<1>8. Sending(nBackwards[n], g.batch) # Idle /\ Sending(nBackwards[n], g.batch).id = nBackwards[n]
  BY <1>3 DEF Sending, Idle
<1>9. \A m \in Nodes \ {n} : pc'[m] = pc[m] /\ flag'[m] = flag[m]
  BY DEF LoopTypes
<1>10. \/ n = Root /\ pc'[n] = "sending" /\ pc[n] = "sending"
       \/ pc[n] \in {"backward", "await"} /\ pc'[n] \in {"join", "awaitJoin"}
  BY DEF LoopTypes
<1>11. \A m \in Nodes : /\ Begun(m)' = Begun(m) /\ InFwd(m)' = InFwd(m) /\ OnFwd(m)' = OnFwd(m)
                        /\ InBwd(m)' = IF m = n THEN 0 ELSE InBwd(m)
                        /\ OnBwd(m)' = IF m = n /\ n # Root THEN 1 ELSE OnBwd(m)
  <2>1. ASSUME NEW m \in Nodes
        PROVE  Begun(m)' = Begun(m)
    <3>1. CASE m = Leaf
      BY <1>2, <1>6, <1>9, <3>1 DEF Begun, Bit
    <3>2. CASE m # Leaf
      BY <1>1, <3>2 DEF Begun
    <3>. QED
      BY <3>1, <3>2
  <2>. QED
    BY <1>1, <1>6, <1>7, <1>8, <2>1 DEF InFwd, OnFwd, InBwd, OnBwd, Bit
<1>12. \A m \in Nodes \ {n} : Pending(m)' = Pending(m)
  BY <1>9 DEF Pending, Joining
<1>13. Pending(n) = 0 /\ Pending(n)' \in {0, 1}
  BY <1>10 DEF Pending, Joining, Bit
<1>14. FlowTypes'
  <2>1. nBackwards' \in [Nodes -> Nat] /\ latest' \in [Nodes -> Nat]
    BY <1>1, <1>3 DEF FlowTypes
  <2>2. live' \in [Nodes -> SUBSET [id : Int, version : Nat]]
    BY <1>1, <1>6 DEF FlowTypes
  <2>. QED
    BY <1>1, <2>1, <2>2 DEF FlowTypes
<1>15. PlacesInv'
  <2>1. ASSUME NEW m \in Nodes
        PROVE  /\ pc'[m] = "sending" => m = Root
               /\ pc'[m] \in {"forward", "await", "done"} => fsend'[m] = Idle
               /\ pc'[m] \in {"forward", "backward", "await", "done"} => bsend'[m] = Idle
    <3>1. CASE m = n
      BY <1>1, <1>7, <1>10, <3>1, Ends DEF PlacesInv
    <3>2. CASE m # n
      BY <1>1, <1>7, <1>9, <3>2 DEF PlacesInv
    <3>. QED
      BY <3>1, <3>2
  <2>2. pc'[Root] = "sending" <=> fsend'[Root] # Idle
    BY <1>1, <1>9, <1>10, Ends DEF PlacesInv
  <2>3. fsend'[Leaf] = Idle /\ bsend'[Root] = Idle /\ nForwards'[Leaf] = 0 /\ pc'[Leaf] # "awaitJoin"
    BY <1>1, <1>2, <1>7, <1>9, Ends DEF PlacesInv
  <2>. QED
    BY <2>1, <2>2, <2>3 DEF PlacesInv
<1>16. PassesInv'
  BY <1>1, <1>2, <1>6, <1>9, <1>11, Ends, Neighbours DEF PassesInv
<1>17. GradientsInv'
  <2>1. ASSUME NEW m \in Nodes
        PROVE  nBackwards'[m] <= Begun(m)'
    <3>1. CASE m = n
      BY <1>1, <1>2, <1>3, <1>5, <1>6, <3>1 DEF Begun
    <3>2. CASE m # n
      BY <1>6, <1>11, <3>2 DEF GradientsInv
    <3>. QED
      BY <3>1, <3>2
  <2>2. ASSUME NEW m \in Nodes \ {Leaf}
        PROVE  /\ nBackwards'[m + 1] = nBackwards'[m] + InBwd(m)' + OnBwd(m + 1)'
               /\ bsend'[m + 1] # Idle => bsend'[m + 1].id = nBackwards'[m + 1] - 1
               /\ \A i \in DOMAIN bwd'[m] : bwd'[m][i].id = nBackwards'[m]
               /\ latest'[m] = IF nBackwards'[m] = 0 THEN 0 ELSE nBackwards'[m] - 1
    <3>1. m + 1 \in Nodes /\ m \in Int /\ m + 1 # Root /\ m + 1 # m
          /\ nBackwards[m] \in Int /\ nBackwards[m + 1] \in Int
          /\ InBwd(m) \in {0, 1} /\ OnBwd(m + 1) \in {0, 1}
      <4>1. m + 1 \in Nodes /\ m \in Int
        BY Neighbours
      <4>2. m + 1 # Root
        BY <4>1 DEF Nodes, Root
      <4>. QED
        BY <4>1, <4>2, CounterTypes DEF LoopTypes
    <3>2. /\ nBackwards[m + 1] = nBackwards[m] + InBwd(m) + OnBwd(m + 1)
          /\ bsend[m + 1] # Idle => bsend[m + 1].id = nBackwards[m + 1] - 1
          /\ \A i \in DOMAIN bwd[m] : bwd[m][i].id = nBackwards[m]
          /\ latest[m] = IF nBackwards[m] = 0 THEN 0 ELSE nBackwards[m] - 1
      BY DEF GradientsInv
    <3>3. CASE m = n
      <4>1. InBwd(n) = 1
        BY <1>1 DEF InBwd, Bit
      <4>2. nBackwards'[m + 1] = nBackwards[m + 1] /\ bsend'[m + 1] = bsend[m + 1] /\ OnBwd(m + 1)' = OnBwd(m + 1)
        BY <1>6, <1>7, <1>11, <3>1, <3>3
      <4>3. nBackwards'[m] = nBackwards[m] + 1 /\ bwd'[m] = <<>> /\ latest'[m] = nBackwards[m] /\ InBwd(m)' = 0
        BY <1>6, <1>11, <3>3
      <4>. QED
        BY <1>3, <3>1, <3>2, <3>3, <4>1, <4>2, <4>3
    <3>4. CASE m + 1 = n
      <4>1. OnBwd(n) = 0
        BY <1>4 DEF OnBwd, Bit
      <4>2. nBackwards'[n] = nBackwards[n] + 1 /\ bsend'[n].id = nBackwards[n] /\ OnBwd(n)' = 1
        BY <1>6, <1>7, <1>8, <1>11, <3>1, <3>4
      <4>3. nBackwards'[m] = nBackwards[m] /\ bwd'[m] = bwd[m] /\ latest'[m] = latest[m] /\ InBwd(m)' = InBwd(m)
        BY <1>6, <1>11, <3>1, <3>4
      <4>. QED
        BY <1>3, <3>1, <3>2, <3>4, <4>1, <4>2, <4>3
    <3>5. CASE m # n /\ m + 1 # n
      BY <1>6, <1>7, <1>11, <3>1, <3>2, <3>5
    <3>. QED
      BY <3>3, <3>4, <3>5
  <2>. QED
    BY <2>1, <2>2 DEF GradientsInv
<1>18. LiveInv'
  <2>1. live'[Leaf] = {} /\ version'[Leaf] = 0 /\ latest'[Leaf] = 0
    BY <1>1, <1>2, <1>6, Ends DEF LiveInv
  <2>2. ASSUME NEW m \in Nodes \ {Leaf}
        PROVE  /\ \A f \in live'[m] : f.id \in nBackwards'[m]..(nForwards'[m] - 1)
               /\ \A i \in nBackwards'[m]..(nForwards'[m] - 1) : \E f \in live'[m] : f.id = i
               /\ \A f, h \in live'[m] : f.id = h.id => f = h
    <3>1. CASE m = n
      <4>1. live'[n] = {f \in live[n] : f.id # nBackwards[n]} /\ nBackwards'[n] = nBackwards[n] + 1
            /\ nForwards' = nForwards
        BY <1>1, <1>6
      <4>. QED
        BY <1>3, <3>1, <4>1 DEF LiveInv
    <3>2. CASE m # n
      BY <1>1, <1>6, <3>2 DEF LiveInv
    <3>. QED
      BY <3>1, <3>2
  <2>. QED
    BY <2>1, <2>2 DEF LiveInv
<1>19. AgeInv'
  <2>1. nForwards'[Root] - nBackwards'[Root] <= N + 1
    <3>1. nForwards[Root] \in Int /\ nBackwards[Root] \in Int /\ N \in Int
      BY Ends, TrainingAssumption DEF FlowTypes, LoopTypes
    <3>. QED
      BY <1>1, <1>6, <3>1, Ends DEF AgeInv
  <2>2. ASSUME NEW m \in Nodes
        PROVE  /\ version'[m] + Pending(m)' <= nBackwards'[m]
               /\ \A f \in live'[m] : version'[m] + Pending(m)' - f.version <= nBackwards'[m] - f.id + N
    <3>1. CASE m = n
      <4>1. version[n] \in Int /\ N \in Int /\ \A f \in live[n] : f.id \in Int /\ f.version \in Int
        BY TrainingAssumption DEF FlowTypes
      <4>2. version[n] <= nBackwards[n] /\ \A f \in live[n] : version[n] - f.version <= nBackwards[n] - f.id + N
        BY <1>13, <4>1 DEF AgeInv
      <4>3. version'[n] = version[n]
        BY <1>1
      <4>4. nBackwards'[n] = nBackwards[n] + 1 /\ live'[n] = {f \in live[n] : f.id # nBackwards[n]}
        BY <1>6
      <4>. QED
        BY <1>3, <1>13, <3>1, <4>1, <4>2, <4>3, <4>4
    <3>2. CASE m # n
      BY <1>1, <1>6, <1>12, <3>2 DEF AgeInv
    <3>. QED
      BY <3>1, <3>2
  <2>. QED
    BY <2>1, <2>2 DEF AgeInv
<1>. QED
  BY <1>14, <1>15, <1>16, <1>17, <1>18, <1>19

(* An update counts a version when a gradient has come. *)
LEMMA UpdateCounts ==
  ASSUME FlowInv, NEW n \in Nodes, Update(n)
  PROVE  /\ version' \in [Nodes -> Nat]
         /\ \A m \in Nodes \ {n} : version'[m] = version[m]
         /\ version'[n] <= version[n] + Bit(flag[n] = TRUE)
         /\ n = Leaf => version'[n] = 0
<1>1. version \in [Nodes -> Nat] /\ version[n] \in Nat /\ version[Leaf] = 0 /\ flag[n] \in BOOLEAN
  BY DEF FlowInv, FlowTypes, LiveInv, LoopTypes
<1>2. CASE IsDue(n)
  <2>1. version' = [version EXCEPT ![n] = NextVersion(n)]
    BY <1>2 DEF Update
  <2>2. NextVersion(n) \in Nat /\ NextVersion(n) <= version[n] + Bit(flag[n] = TRUE)
        /\ (n = Leaf => NextVersion(n) = 0)
    BY <1>1 DEF NextVersion, Steps, Bit
  <2>. QED
    BY <1>1, <2>1, <2>2
<1>3. CASE ~IsDue(n)
  BY <1>1, <1>3 DEF Update, Bit
<1>. QED
  BY <1>2, <1>3

(* The end of a turn. *)
LEMMA JoinFlows ==
  ASSUME FlowInv, BufferInv', LoopTypes', NEW n \in Nodes, Join(n) \/ AwaitJoin(n)
  PROVE  FlowInv'
<1>. USE DEF FlowInv
<1>1. /\ Joining(n) /\ fsend[n] = Idle /\ bsend[n] = Idle /\ Update(n)
      /\ UNCHANGED <<flag, wires, counts, live, seen>>
  BY DEF Join, AwaitJoin, Joining
<1>2. PICK l \in {"forward", "await"} : Go(n, l)
  BY DEF Join, AwaitJoin, AfterUpdate
<1>3. forwardDone' \in [Nodes -> BOOLEAN]
  BY DEF Join, AwaitJoin, AfterUpdate, FlowTypes
<1>4. FlowTypes'
  BY <1>1, <1>3, UpdateCounts DEF FlowTypes, counts
<1>5. Pending(n) = Bit(flag[n] = TRUE) /\ Pending(n)' = 0
  <2>1. ~Joining(n)'
    BY <1>2 DEF Joining, Go, LoopTypes
  <2>. QED
    BY <1>1, <2>1 DEF Pending, Bit
<1>6. version'[n] + Pending(n)' <= version[n] + Pending(n)
  <2>1. version'[n] \in Int /\ version[n] \in Int /\ Bit(flag[n] = TRUE) \in Int
    BY <1>4 DEF FlowTypes, Bit
  <2>2. version'[n] <= version[n] + Bit(flag[n] = TRUE)
    BY <1>1, UpdateCounts
  <2>. QED
    BY <1>5, <2>1, <2>2
<1>7. pc[n] \in {"join", "awaitJoin"} /\ (n = Leaf => version'[n] = 0)
      /\ \A m \in Nodes \ {n} : version'[m] = version[m] /\ flag'[m] = flag[m]
  BY <1>1, UpdateCounts DEF Joining
<1>8. l \in Labels /\ l \notin {"sending", "backward", "awaitJoin"}
  BY DEF Labels
<1>. QED
  BY <1>1, <1>2, <1>4, <1>6, <1>7, <1>8, PlaceChanges

(* A turn without a pass or a gradient. *)
LEMMA NothingFlows ==
  ASSUME FlowInv, BufferInv', LoopTypes', NEW n \in Nodes, NEW l \in Labels, Go(n, l),
         UNCHANGED <<wires, counts, compute, forwardDone, seen>>,
         \/ pc[n] = "forward" /\ l = "backward" /\ n # Leaf /\ flag' = flag
         \/ /\ pc[n] \in {"backward", "await"} /\ l \in {"join", "awaitJoin"} /\ n # Leaf
            /\ flag' = [flag EXCEPT ![n] = FALSE]
         \/ pc[n] = "await" /\ l \in {"done", "forward"} /\ flag' = flag
  PROVE  FlowInv'
<1>. USE DEF FlowInv
<1>1. UNCHANGED <<live, version>>
  BY DEF compute
<1>2. FlowTypes'
  BY <1>1 DEF FlowTypes, counts
<1>3. Pending(n)' = 0
  <2>1. ~Joining(n)' \/ flag'[n] = FALSE
    BY DEF Joining, Go, LoopTypes
  <2>. QED
    BY <2>1 DEF Pending, Bit
<1>4. version'[n] + Pending(n)' <= version[n] + Pending(n)
  BY <1>1, <1>3 DEF FlowTypes, Pending, Bit
<1>5. version[Leaf] = 0 /\ \A m \in Nodes \ {n} : version'[m] = version[m] /\ flag'[m] = flag[m]
  BY <1>1 DEF LiveInv, LoopTypes
<1>6. /\ l \in {"forward", "await", "done"} => fsend[n] = Idle
      /\ l \in {"forward", "backward", "await", "done"} => bsend[n] = Idle
  BY DEF PlacesInv
<1>. QED
  BY <1>1, <1>2, <1>4, <1>5, <1>6, PlaceChanges

(* FlowInv is inductive, with the two invariants before it. *)
LEMMA FlowStep == GradientInv /\ FlowInv /\ [TrainingNext]_trainingVars => FlowInv'
<1>. SUFFICES ASSUME GradientInv, FlowInv, [TrainingNext]_trainingVars PROVE FlowInv'
  OBVIOUS
<1>1. BufferInv' /\ LoopTypes'
  BY BufferStep, GradientStep DEF FlowInv, GradientInv
<1>2. \A n \in Nodes : nForwards[n] \in Nat /\ nBackwards[n] \in Nat
  BY DEF FlowInv, FlowTypes
<1>3. latest[Root] = IF nBackwards[Root] = 0 THEN 0 ELSE nBackwards[Root] - 1
  BY <1>2, Ends DEF FlowInv, GradientsInv
<1>4. CASE RootForward
  <2>. DEFINE b == batch[Root]
              i == passId[Root]
  <2>1. /\ pc[Root] = "forward" /\ Go(Root, "sending") /\ Register(Root, i) /\ i - latest[Root] <= N
        /\ nForwards' = [nForwards EXCEPT ![Root] = @ + 1]
        /\ fsend' = [fsend EXCEPT ![Root] = Sending(i, b)]
        /\ UNCHANGED <<flag, fwd, bwd, bsend, passId, latest, nBackwards, version, seen, forwardDone>>
    BY <1>4 DEF RootForward, GateIsOpen
  <2>2. i \in Int /\ b \in Int
    BY Ends DEF FlowInv, BufferInv, WireTypes
  <2>3. i = nForwards[Root]
    BY <1>2, <2>1, Ends DEF FlowInv, PassesInv, PlacesInv, OnFwd, Bit
  <2>4. nForwards[Root] - nBackwards[Root] <= N
    BY <1>2, <1>3, <2>1, <2>3, Ends, TrainingAssumption
  <2>5. FlowTypes'
    <3>1. nForwards' \in [Nodes -> Nat]
      BY <1>2, <2>1, Ends DEF FlowInv, FlowTypes
    <3>2. live' \in [Nodes -> SUBSET [id : Int, version : Nat]]
      BY <2>1, <2>2, Ends DEF FlowInv, FlowTypes, Register
    <3>. QED
      BY <2>1, <3>1, <3>2 DEF FlowInv, FlowTypes
  <2>6. Root \in Nodes \ {Leaf}
    BY Ends
  <2>. HIDE DEF b, i
  <2>. QED
    BY <1>1, <2>1, <2>2, <2>3, <2>4, <2>5, <2>6, PassBegins
<1>5. ASSUME NEW n \in Nodes, StemForward(n)
      PROVE  FlowInv'
  <2>. DEFINE b == Head(fwd[n]).batch
              i == Head(fwd[n]).id
  <2>1. /\ n \notin {Root, Leaf} /\ pc[n] = "forward" /\ Go(n, "backward") /\ Register(n, i)
        /\ nForwards' = [nForwards EXCEPT ![n] = @ + 1]
        /\ fsend' = [fsend EXCEPT ![n] = Sending(i, b)] /\ fwd[n] # <<>>
        /\ forwardDone' = [forwardDone EXCEPT ![n] = TRUE]
        /\ UNCHANGED <<flag, bwd, bsend, passId, latest, nBackwards, version, seen>>
    BY <1>5 DEF StemForward, MarkBegun
  <2>2. fwd[n] \in Seq(Msg) /\ Len(fwd[n]) = 1 /\ Tail(fwd[n]) = <<>> /\ Head(fwd[n]) = fwd[n][1]
    <3>1. fwd[n] \in Seq(Msg) /\ Len(fwd[n]) <= 1
      BY <2>1 DEF FlowInv, BufferInv, WireTypes, Forwards
    <3>. QED
      BY <2>1, <3>1, TheOne
  <2>3. fwd' = [fwd EXCEPT ![n] = <<>>]
    BY <1>5, <2>2 DEF StemForward
  <2>4. n - 1 \in Nodes \ {Leaf} /\ (n - 1) + 1 = n
    BY <2>1, Neighbours, TrainingAssumption DEF Nodes, Leaf
  <2>5. i \in Int /\ b \in Int
    <3>1. Head(fwd[n]) \in Msg
      BY <2>1, <2>2
    <3>. QED
      BY <3>1 DEF Msg
  <2>6. \A j \in DOMAIN fwd[n] : fwd[n][j].id = Begun(n)
    BY <2>4 DEF FlowInv, PassesInv
  <2>7. i = nForwards[n] /\ \A j \in DOMAIN fwd[n] : fwd[n][j].id = i
    BY <2>1, <2>2, <2>6 DEF Begun
  <2>8. nForwards[n] - nBackwards[n] <= N
    <3>1. n = 1 /\ n - 1 = Root
      BY <2>1, TrainingAssumption DEF Nodes, Root, Leaf
    <3>2. nForwards[Root] = Begun(n) + InFwd(n) + OnFwd(Root)
      BY <2>4, <3>1 DEF FlowInv, PassesInv
    <3>3. Begun(n) = nForwards[n] /\ InFwd(n) = 1 /\ OnFwd(Root) \in {0, 1}
      BY <2>1 DEF Begun, InFwd, OnFwd, Bit
    <3>4. nBackwards[n] = nBackwards[Root] + InBwd(Root) + OnBwd(n)
      BY <2>4, <3>1 DEF FlowInv, GradientsInv
    <3>5. InBwd(Root) \in {0, 1} /\ OnBwd(n) \in {0, 1}
      BY DEF InBwd, OnBwd, Bit
    <3>6. nForwards[Root] - nBackwards[Root] <= N + 1
      BY DEF FlowInv, AgeInv
    <3>. QED
      BY <1>2, <3>2, <3>3, <3>4, <3>5, <3>6, Ends, TrainingAssumption
  <2>9. FlowTypes'
    <3>1. nForwards' \in [Nodes -> Nat] /\ forwardDone' \in [Nodes -> BOOLEAN]
      BY <1>2, <2>1 DEF FlowInv, FlowTypes
    <3>2. live' \in [Nodes -> SUBSET [id : Int, version : Nat]]
      BY <2>1, <2>5 DEF FlowInv, FlowTypes, Register
    <3>. QED
      BY <2>1, <3>1, <3>2 DEF FlowInv, FlowTypes
  <2>. HIDE DEF b, i
  <2>. QED
    BY <1>1, <2>1, <2>3, <2>5, <2>7, <2>8, <2>9, PassBegins
<1>6. CASE RootSkips
  <2>1. "backward" \in Labels
    BY DEF Labels
  <2>. QED
    BY <1>1, <1>6, <2>1, Ends, NothingFlows DEF RootSkips
<1>7. CASE RootTakesGradientWhileSending
  BY <1>1, <1>7, Ends, TakeGradientFlows DEF RootTakesGradientWhileSending
<1>8. ASSUME NEW n \in Nodes, Sends(n) \/ Answers(n)
      PROVE  FlowInv'
  <2>1. CASE DeliverForward(n)
    BY <1>1, <2>1, DeliverForwardFlows DEF FlowInv
  <2>. QED
    BY <1>1, <1>8, <2>1, PollFlows, DeliverBackwardFlows DEF Sends, Answers
<1>9. ASSUME NEW n \in Nodes, StemFindsNothing(n) \/ AwaitEnds(n)
      PROVE  FlowInv'
  <2>1. {"backward", "done", "forward"} \subseteq Labels
    BY DEF Labels
  <2>2. CASE StemFindsNothing(n)
    BY <1>1, <2>1, <2>2, NothingFlows DEF StemFindsNothing
  <2>3. CASE AwaitEnds(n)
    <3>. DEFINE l == IF IsOver(n) THEN "done" ELSE "forward"
    <3>1. l \in {"done", "forward"} /\ pc[n] = "await" /\ Go(n, l) /\ flag' = flag
          /\ UNCHANGED <<wires, counts, compute, forwardDone, seen>>
      BY <2>3 DEF AwaitEnds
    <3>. HIDE DEF l
    <3>. QED
      BY <1>1, <2>1, <3>1, NothingFlows
  <2>. QED
    BY <1>9, <2>2, <2>3
<1>10. ASSUME NEW n \in Nodes, Backward(n) \/ AwaitBackward(n)
       PROVE  FlowInv'
  <2>1. n # Leaf
    <3>1. nForwards[Leaf] = 0
      BY DEF FlowInv, PlacesInv
    <3>2. ~Awaits(Leaf)
      BY <1>2, <3>1, Ends DEF Awaits
    <3>. QED
      BY <1>10, <3>2 DEF Backward, AwaitBackward
  <2>2. PICK l \in {"join", "awaitJoin"} : pc[n] \in {"backward", "await"} /\ Go(n, l)
    BY <1>10 DEF Backward, AwaitBackward
  <2>3. CASE TakeGradient(n) /\ flag' = [flag EXCEPT ![n] = TRUE]
    <3>1. pc' = [pc EXCEPT ![n] = l] /\ \A m \in Nodes \ {n} : flag'[m] = flag[m]
      BY <2>2, <2>3 DEF Go, FlowInv, LoopTypes
    <3>. QED
      BY <1>1, <2>2, <2>3, <3>1, TakeGradientFlows
  <2>4. CASE flag' = [flag EXCEPT ![n] = FALSE] /\ UNCHANGED <<forwardDone, wires, counts, compute, seen>>
    <3>1. l \in Labels
      BY DEF Labels
    <3>. QED
      BY <1>1, <2>1, <2>2, <2>4, <3>1, NothingFlows
  <2>. QED
    BY <1>10, <2>3, <2>4 DEF Backward, AwaitBackward
<1>11. ASSUME NEW n \in Nodes, Main(n)
       PROVE  FlowInv'
  BY <1>1, <1>5, <1>9, <1>10, <1>11, JoinFlows DEF Main
<1>12. CASE UNCHANGED trainingVars
  <2>1. UNCHANGED <<pc, flag, fwd, bwd, fsend, bsend, passId, latest, nForwards, nBackwards, live, version,
                    forwardDone, seen>>
    BY <1>12 DEF trainingVars, loop, wires, counts, compute
  <2>. QED
    BY <1>1, <2>1 DEF FlowInv, FlowTypes, PlacesInv, PassesInv, GradientsInv, LiveInv, AgeInv, Begun, Pending, Joining, InFwd, InBwd, OnFwd, OnBwd
<1>. QED
  BY <1>1, <1>4, <1>6, <1>7, <1>8, <1>11, <1>12, LeafForwardFlows, LeafBackwardFlows
  DEF TrainingNext, RootMain, LeafMain

-----------------------------------------------------------------------------
(* Batches. *)

(* There is at least one batch. *)
LEMMA SomeBatches == AllBatches \in Nat \ {0}
BY TrainingAssumption DEF AllBatches

(* At the start the trainers are at their first batch. *)
LEMMA BatchInit == TrainingInit => LoopInv /\ MessagesInv /\ RangesInv
BY SomeBatches, Ends
DEF TrainingInit, LoopInv, MessagesInv, RangesInv, AllFit, Bit, NoPass, Passes

(* A turn ends: with the batch, or with BaseTrainerFullAsync and no pass   *)
(* begun without it.                                                       *)
LEMMA JoinLoops ==
  ASSUME LoopInv, FlowInv, LoopTypes', NEW n \in Nodes, Join(n)
  PROVE  LoopInv'
<1>. USE DEF LoopInv
<1>1. pc[n] = "join" /\ UNCHANGED <<async, nForwards, nBackwards>> /\ AfterUpdate(n)
  BY DEF Join, counts
<1>2. batch[n] \in Nat /\ batch[n] < AllBatches /\ AllBatches \in Nat
  BY <1>1, SomeBatches
<1>3. forwardDone \in [Nodes -> BOOLEAN] /\ pc \in [Nodes -> Labels] /\ batch \in [Nodes -> Int]
  BY DEF FlowInv, FlowTypes, LoopTypes, BufferInv, WireTypes
<1>4. nForwards[Root] \in Int /\ nBackwards[Leaf] \in Int
  BY Ends DEF FlowInv, FlowTypes
<1>5. CASE Repeats(n)
  <2>1. pc' = [pc EXCEPT ![n] = "forward"] /\ UNCHANGED <<batch, forwardDone>>
    BY <1>1, <1>5 DEF AfterUpdate, Go
  <2>2. async /\ forwardDone[n] = FALSE
    BY <1>3, <1>5 DEF Repeats
  <2>3. \A m \in Nodes : pc'[m] = IF m = n THEN "forward" ELSE pc[m]
    BY <1>3, <2>1
  <2>4. n # Leaf
    BY <1>1, <2>2
  <2>5. nForwards'[Root] <= batch'[Root] + Bit(pc'[Root] \in {"sending", "backward", "join"})
    BY <1>1, <1>2, <1>4, <2>1, <2>2, <2>3, Ends DEF Bit
  <2>6. /\ nForwards'[Root] = batch'[Root] + Bit(pc'[Root] = "sending" \/ forwardDone'[Root] = TRUE)
        /\ forwardDone'[Root] = TRUE => pc'[Root] \in {"backward", "join"}
    BY <1>1, <2>1, <2>2, <2>3, Ends DEF Bit
  <2>7. /\ nBackwards'[Leaf] = batch'[Leaf] + Bit(pc'[Leaf] = "join")
        /\ pc'[Leaf] \in {"backward", "join"} => forwardDone'[Leaf] = TRUE
    BY <1>1, <2>1, <2>2, <2>3, <2>4, Ends DEF Bit
  <2>8. \A m \in Nodes : /\ batch'[m] \in 0..AllBatches
                         /\ pc'[m] \in {"forward", "sending", "backward", "join"} => batch'[m] < AllBatches
    BY <1>1, <1>2, <2>1, <2>3
  <2>. QED
    BY <1>1, <2>5, <2>6, <2>7, <2>8
<1>6. CASE ~Repeats(n)
  <2>1. /\ batch' = [batch EXCEPT ![n] = @ + 1]
        /\ forwardDone' = [forwardDone EXCEPT ![n] = IF async THEN FALSE ELSE @]
        /\ \/ pc' = [pc EXCEPT ![n] = "await"]
           \/ pc' = [pc EXCEPT ![n] = "forward"] /\ batch'[n] # AllBatches
    BY <1>1, <1>6 DEF AfterUpdate, Go
  <2>2. async => forwardDone[n] = TRUE
    BY <1>3, <1>6 DEF Repeats
  <2>3. \A m \in Nodes : /\ batch'[m] = IF m = n THEN batch[m] + 1 ELSE batch[m]
                         /\ forwardDone'[m] = IF m = n /\ async THEN FALSE ELSE forwardDone[m]
                         /\ m # n => pc'[m] = pc[m]
    BY <1>3, <2>1
  <2>4. pc'[n] = "await" \/ (pc'[n] = "forward" /\ batch'[n] # AllBatches)
    BY <1>3, <2>1
  <2>5. batch'[n] = batch[n] + 1 /\ (async => forwardDone'[n] = FALSE) /\ pc'[n] \in {"await", "forward"}
    BY <2>3, <2>4
  <2>6. ASSUME NEW m \in Nodes
        PROVE  /\ batch'[m] \in 0..AllBatches
               /\ pc'[m] \in {"forward", "sending", "backward", "join"} => batch'[m] < AllBatches
    <3>1. CASE m = n
      <4>1. batch'[n] \in 0..AllBatches
        BY <1>2, <2>5
      <4>2. pc'[n] = "await" \/ batch'[n] < AllBatches
        BY <1>2, <2>4, <4>1
      <4>. QED
        BY <3>1, <4>1, <4>2
    <3>2. CASE m # n
      BY <2>3, <3>2
    <3>. QED
      BY <3>1, <3>2
  <2>7. nForwards'[Root] <= batch'[Root] + Bit(pc'[Root] \in {"sending", "backward", "join"})
    <3>1. CASE n = Root
      <4>1. nForwards[Root] <= batch[Root] + 1
        BY <1>1, <3>1 DEF Bit
      <4>. QED
        BY <1>1, <1>2, <1>4, <2>5, <3>1, <4>1 DEF Bit
    <3>2. CASE n # Root
      BY <1>1, <2>3, <3>2, Ends
    <3>. QED
      BY <3>1, <3>2
  <2>8. ASSUME async
        PROVE  /\ nForwards'[Root] = batch'[Root] + Bit(pc'[Root] = "sending" \/ forwardDone'[Root] = TRUE)
               /\ forwardDone'[Root] = TRUE => pc'[Root] \in {"backward", "join"}
    <3>1. CASE n = Root
      <4>1. nForwards[Root] = batch[Root] + 1
        BY <1>1, <2>2, <2>8, <3>1 DEF Bit
      <4>. QED
        BY <1>1, <1>2, <1>4, <2>8, <2>5, <3>1, <4>1 DEF Bit
    <3>2. CASE n # Root
      BY <1>1, <2>3, <2>8, <3>2, Ends
    <3>. QED
      BY <3>1, <3>2
  <2>9. ASSUME async
        PROVE  /\ nBackwards'[Leaf] = batch'[Leaf] + Bit(pc'[Leaf] = "join")
               /\ pc'[Leaf] \in {"backward", "join"} => forwardDone'[Leaf] = TRUE
    <3>1. CASE n = Leaf
      <4>1. nBackwards[Leaf] = batch[Leaf] + 1
        BY <1>1, <2>9, <3>1 DEF Bit
      <4>. QED
        BY <1>1, <1>2, <1>4, <2>9, <2>5, <3>1, <4>1 DEF Bit
    <3>2. CASE n # Leaf
      BY <1>1, <2>3, <2>9, <3>2, Ends
    <3>. QED
      BY <3>1, <3>2
  <2>. QED
    BY <1>1, <2>6, <2>7, <2>8, <2>9
<1>. QED
  BY <1>5, <1>6

(* LoopInv is inductive, with FlowInv. *)
LEMMA LoopStep == LoopInv /\ FlowInv /\ LoopTypes' /\ [TrainingNext]_trainingVars => LoopInv'
<1>. SUFFICES ASSUME LoopInv, FlowInv, LoopTypes', [TrainingNext]_trainingVars PROVE LoopInv'
  OBVIOUS
<1>0. /\ forwardDone \in [Nodes -> BOOLEAN] /\ pc \in [Nodes -> Labels] /\ batch \in [Nodes -> Int]
      /\ nForwards \in [Nodes -> Int] /\ nBackwards \in [Nodes -> Int]
      /\ nForwards[Root] \in Int /\ nBackwards[Leaf] \in Int /\ batch[Root] \in Int /\ batch[Leaf] \in Int
  <2>1. /\ forwardDone \in [Nodes -> BOOLEAN] /\ pc \in [Nodes -> Labels] /\ batch \in [Nodes -> Int]
        /\ nForwards \in [Nodes -> Nat] /\ nBackwards \in [Nodes -> Nat]
    BY DEF FlowInv, FlowTypes, LoopTypes, BufferInv, WireTypes
  <2>. QED
    BY <2>1, Ends
<1>1. ASSUME UNCHANGED <<async, batch, forwardDone, pc, nForwards>>, nBackwards'[Leaf] = nBackwards[Leaf]
      PROVE  LoopInv'
  BY <1>1 DEF LoopInv
<1>2. ASSUME NEW n \in Nodes, NEW l \in Labels, Go(n, l), UNCHANGED <<async, batch, forwardDone, nForwards>>,
             nBackwards'[Leaf] = nBackwards[Leaf],
             \/ pc[n] = "forward" /\ l = "backward" /\ n # Leaf
             \/ pc[n] = "backward" /\ l = "join" /\ n # Leaf
             \/ pc[n] \in {"await", "awaitJoin"} /\ l \in {"await", "awaitJoin", "done"}
             \/ pc[n] = "await" /\ l = "forward" /\ batch[n] < AllBatches
      PROVE  LoopInv'
  <2>1. \A m \in Nodes : pc'[m] = IF m = n THEN l ELSE pc[m]
    BY <1>0, <1>2 DEF Go
  <2>2. CASE n # Root /\ n # Leaf
    BY <1>2, <2>1, <2>2, Ends DEF LoopInv
  <2>3. CASE n = Root
    BY <1>0, <1>2, <2>1, <2>3, Ends DEF LoopInv, Bit
  <2>4. CASE n = Leaf
    BY <1>0, <1>2, <2>1, <2>4, Ends DEF LoopInv, Bit
  <2>. QED
    BY <2>2, <2>3, <2>4
<1>3. CASE RootForward
  <2>1. /\ pc[Root] = "forward" /\ pc' = [pc EXCEPT ![Root] = "sending"]
        /\ nForwards' = [nForwards EXCEPT ![Root] = @ + 1]
        /\ UNCHANGED <<async, batch, forwardDone, nBackwards>>
    BY <1>3 DEF RootForward, Go
  <2>2. /\ nForwards'[Root] = nForwards[Root] + 1
        /\ \A m \in Nodes : pc'[m] = IF m = Root THEN "sending" ELSE pc[m]
    BY <1>0, <2>1, Ends
  <2>3. async => forwardDone[Root] = FALSE
    BY <1>0, <2>1, Ends DEF LoopInv
  <2>. QED
    BY <1>0, <2>1, <2>2, <2>3, Ends DEF LoopInv, Bit
<1>4. CASE LeafForward
  <2>1. /\ pc[Leaf] = "forward" /\ pc' = [pc EXCEPT ![Leaf] = "backward"]
        /\ forwardDone' = [forwardDone EXCEPT ![Leaf] = TRUE]
        /\ UNCHANGED <<async, batch, nForwards, nBackwards>>
    BY <1>4 DEF LeafForward, Go, MarkBegun
  <2>2. \A m \in Nodes : /\ pc'[m] = IF m = Leaf THEN "backward" ELSE pc[m]
                         /\ forwardDone'[m] = IF m = Leaf THEN TRUE ELSE forwardDone[m]
    BY <1>0, <2>1
  <2>. QED
    BY <1>0, <2>1, <2>2, Ends DEF LoopInv, Bit
<1>5. CASE LeafBackward
  <2>1. /\ pc[Leaf] = "backward" /\ pc' = [pc EXCEPT ![Leaf] = "join"]
        /\ nBackwards' = [nBackwards EXCEPT ![Leaf] = @ + 1]
        /\ UNCHANGED <<async, batch, nForwards, forwardDone>>
    BY <1>5 DEF LeafBackward, Go
  <2>2. /\ nBackwards'[Leaf] = nBackwards[Leaf] + 1
        /\ \A m \in Nodes : pc'[m] = IF m = Leaf THEN "join" ELSE pc[m]
    BY <1>0, <2>1, Ends
  <2>. QED
    BY <1>0, <2>1, <2>2, Ends DEF LoopInv, Bit
<1>6. ASSUME NEW n \in Nodes, TakeGradient(n)
      PROVE  UNCHANGED <<async, batch, forwardDone, nForwards>> /\ nBackwards'[Leaf] = nBackwards[Leaf]
  <2>1. n # Leaf
    BY <1>6, Taken DEF TakeGradient, FlowInv
  <2>. QED
    BY <1>0, <1>6, <2>1 DEF TakeGradient
<1>7. ASSUME NEW n \in Nodes, Backward(n) \/ AwaitBackward(n)
      PROVE  LoopInv'
  <2>1. UNCHANGED <<async, batch, forwardDone, nForwards>> /\ nBackwards'[Leaf] = nBackwards[Leaf]
    BY <1>6, <1>7 DEF Backward, AwaitBackward, counts
  <2>2. \/ pc[n] = "backward" /\ Go(n, "join") /\ n # Leaf
        \/ pc[n] = "await" /\ Go(n, "awaitJoin")
    BY <1>7 DEF Backward, AwaitBackward
  <2>3. {"join", "awaitJoin"} \subseteq Labels
    BY DEF Labels
  <2>. QED
    BY <1>2, <2>1, <2>2, <2>3
<1>8. CASE RootSkips
  BY <1>2, <1>8, Ends DEF RootSkips, counts, Labels
<1>9. CASE RootTakesGradientWhileSending
  BY <1>1, <1>6, <1>9, Ends DEF RootTakesGradientWhileSending
<1>10. ASSUME NEW n \in Nodes, PollForward(n) \/ PollBackward(n) \/ DeliverBackward(n)
       PROVE  LoopInv'
  BY <1>1, <1>10 DEF PollForward, PollBackward, DeliverBackward, loop, counts
<1>11. ASSUME NEW n \in Nodes, DeliverForward(n)
       PROVE  LoopInv'
  <2>1. UNCHANGED <<async, batch, nForwards, nBackwards>>
    BY <1>11 DEF DeliverForward
  <2>2. CASE n # Root
    BY <1>1, <1>11, <2>1, <2>2 DEF DeliverForward
  <2>3. CASE n = Root
    <3>1. pc' = [pc EXCEPT ![Root] = "backward"] /\ forwardDone' = [forwardDone EXCEPT ![Root] = TRUE]
      BY <1>11, <2>3 DEF DeliverForward, MarkBegun, Go
    <3>2. pc[Root] = "sending"
      BY <1>11, <2>3 DEF DeliverForward, FlowInv, PlacesInv, Idle
    <3>3. \A m \in Nodes : /\ pc'[m] = IF m = Root THEN "backward" ELSE pc[m]
                           /\ forwardDone'[m] = IF m = Root THEN TRUE ELSE forwardDone[m]
      BY <1>0, <3>1
    <3>. QED
      BY <1>0, <2>1, <3>2, <3>3, Ends DEF LoopInv, Bit
  <2>. QED
    BY <2>2, <2>3
<1>12. ASSUME NEW n \in Nodes, StemForward(n) \/ StemFindsNothing(n)
       PROVE  LoopInv'
  <2>1. /\ n \notin {Root, Leaf} /\ pc[n] = "forward" /\ pc' = [pc EXCEPT ![n] = "backward"]
        /\ forwardDone' = forwardDone \/ forwardDone' = [forwardDone EXCEPT ![n] = TRUE]
        /\ nForwards' = nForwards \/ nForwards' = [nForwards EXCEPT ![n] = @ + 1]
        /\ UNCHANGED <<async, batch, nBackwards>>
    BY <1>12 DEF StemForward, StemFindsNothing, MarkBegun, Go, counts
  <2>2. \A m \in Nodes \ {n} : pc'[m] = pc[m] /\ forwardDone'[m] = forwardDone[m] /\ nForwards'[m] = nForwards[m]
    BY <1>0, <2>1
  <2>3. pc'[n] = "backward"
    BY <1>0, <2>1
  <2>. QED
    BY <2>1, <2>2, <2>3, Ends DEF LoopInv
<1>13. ASSUME NEW n \in Nodes, AwaitJoin(n)
       PROVE  LoopInv'
  BY <1>2, <1>13 DEF AwaitJoin, counts, Labels
<1>14. ASSUME NEW n \in Nodes, AwaitEnds(n)
       PROVE  LoopInv'
  <2>1. CASE IsOver(n)
    BY <1>2, <1>14, <2>1 DEF AwaitEnds, counts, Labels
  <2>2. CASE ~IsOver(n)
    <3>1. batch[n] < AllBatches
      BY <2>2, SomeBatches DEF IsOver, LoopInv
    <3>. QED
      BY <1>2, <1>14, <2>2, <3>1 DEF AwaitEnds, counts, Labels
  <2>. QED
    BY <2>1, <2>2
<1>15. CASE UNCHANGED trainingVars
  BY <1>1, <1>15 DEF trainingVars, loop, counts
<1>. QED
  BY <1>3, <1>4, <1>5, <1>7, <1>8, <1>9, <1>10, <1>11, <1>12, <1>13, <1>14, <1>15, JoinLoops
  DEF TrainingNext, RootMain, LeafMain, Main, Sends, Answers

(* Messages that fit are passed on. *)
LEMMA MessagesMove ==
  ASSUME MessagesInv, async' = async,
         \A n \in Nodes :
           /\ fwd'[n] = fwd[n] \/ fwd'[n] = <<>> \/ \E m : fwd'[n] = <<m>> /\ Fits(m)
           /\ bwd'[n] = bwd[n] \/ bwd'[n] = <<>> \/ \E m : bwd'[n] = <<m>> /\ Fits(m)
           /\ fsend'[n] = fsend[n] \/ fsend'[n] = Idle \/ Fits(fsend'[n])
           /\ bsend'[n] = bsend[n] \/ bsend'[n] = Idle \/ Fits(bsend'[n]),
         \/ seen' = seen /\ (pc'[Leaf] = "backward" => pc[Leaf] = "backward")
         \/ seen' # NoPass /\ Fits(seen')
  PROVE  MessagesInv'
<1>1. ASSUME NEW s, AllFit(s) \/ s = <<>> \/ \E m : s = <<m>> /\ Fits(m)
      PROVE  \A i \in DOMAIN s : s[i].batch \in Passes /\ (async' => s[i].batch = s[i].id)
  BY <1>1 DEF AllFit, Fits
<1>2. \A n \in Nodes : AllFit(fwd[n]) /\ AllFit(bwd[n])
  BY DEF MessagesInv
<1>3. ASSUME NEW n \in Nodes
      PROVE  AllFit(fwd[n])' /\ AllFit(bwd[n])'
  BY <1>1, <1>2 DEF AllFit, Fits
<1>4. ASSUME NEW n \in Nodes
      PROVE  (fsend'[n] # Idle => Fits(fsend[n])') /\ (bsend'[n] # Idle => Fits(bsend[n])')
  BY DEF MessagesInv, Fits
<1>5. (seen' # NoPass => Fits(seen)') /\ (pc'[Leaf] = "backward" => seen' # NoPass)
  BY DEF MessagesInv, Fits
<1>. QED
  BY <1>3, <1>4, <1>5 DEF MessagesInv

(* Only the leaf's own step from forward changes what it has seen. *)
LEMMA TakeGradientFits ==
  ASSUME MessagesInv, BufferInv, NEW n \in Nodes, TakeGradient(n),
         pc'[Leaf] = "backward" => pc[Leaf] = "backward"
  PROVE  MessagesInv'
<1>. DEFINE g == Head(bwd[n])
<1>1. bwd[n] # <<>> /\ bwd[n] \in Seq(Msg) /\ Tail(bwd[n]) = <<>> /\ n # Leaf
  BY Taken DEF TakeGradient, BufferInv, WireTypes
<1>2. g = bwd[n][1] /\ 1 \in DOMAIN bwd[n] /\ g \in Msg
  <2>1. Len(bwd[n]) <= 1
    BY <1>1 DEF BufferInv, Backwards
  <2>2. Len(bwd[n]) = 1 /\ g = bwd[n][1]
    BY <1>1, <2>1, TheOne
  <2>. QED
    BY <1>1, <2>2
<1>3. Fits(g)
  BY <1>2 DEF MessagesInv, AllFit
<1>. HIDE DEF g
<1>4. /\ bwd' = [bwd EXCEPT ![n] = <<>>]
      /\ bsend' = bsend \/ bsend' = [bsend EXCEPT ![n] = Sending(g.id, g.batch)]
      /\ UNCHANGED <<async, fwd, fsend, seen>>
  BY <1>1 DEF TakeGradient, g
<1>5. Fits(Sending(g.id, g.batch))
  BY <1>3 DEF Fits, Sending
<1>6. \A m \in Nodes : /\ bwd'[m] = bwd[m] \/ bwd'[m] = <<>>
                       /\ bsend'[m] = bsend[m] \/ bsend'[m] = Sending(g.id, g.batch)
  BY <1>4 DEF BufferInv, WireTypes
<1>7. \A m \in Nodes : bsend'[m] = bsend[m] \/ Fits(bsend'[m])
  BY <1>5, <1>6
<1>. QED
  BY <1>4, <1>6, <1>7, MessagesMove

(* MessagesInv is inductive, with FlowInv and LoopInv. *)
LEMMA MessagesStep ==
  MessagesInv /\ FlowInv /\ LoopInv /\ [TrainingNext]_trainingVars => MessagesInv'
<1>. SUFFICES ASSUME MessagesInv, FlowInv, LoopInv, [TrainingNext]_trainingVars PROVE MessagesInv'
  OBVIOUS
<1>0. /\ fwd \in [Nodes -> Seq(Msg)] /\ bwd \in [Nodes -> Seq(Msg)]
      /\ fsend \in [Nodes -> Wire] /\ bsend \in [Nodes -> Wire]
      /\ pc \in [Nodes -> Labels] /\ seen \in Msg
  BY DEF FlowInv, BufferInv, WireTypes, LoopTypes
<1>1. ASSUME UNCHANGED <<async, fwd, bwd, fsend, bsend, seen>>,
             pc'[Leaf] = "backward" => pc[Leaf] = "backward"
      PROVE  MessagesInv'
  BY <1>1, MessagesMove
<1>2. ASSUME NEW n \in Nodes, fwd[n] # <<>>
      PROVE  Fits(Head(fwd[n])) /\ Head(fwd[n]) \in Msg /\ Tail(fwd[n]) = <<>>
             /\ Head(fwd[n]) = fwd[n][1] /\ 1 \in DOMAIN fwd[n] /\ n # Root
  <2>1. fwd[n] \in Seq(Msg) /\ Len(fwd[n]) <= 1 /\ n # Root
    BY <1>0, <1>2, Taken DEF FlowInv, BufferInv, Forwards
  <2>2. Len(fwd[n]) = 1 /\ Tail(fwd[n]) = <<>> /\ Head(fwd[n]) = fwd[n][1]
    BY <1>2, <2>1, TheOne
  <2>3. 1 \in DOMAIN fwd[n] /\ fwd[n][1] \in Msg
    BY <2>1, <2>2
  <2>. QED
    BY <2>1, <2>2, <2>3 DEF MessagesInv, AllFit
<1>3. CASE RootForward
  <2>1. /\ pc[Root] = "forward" /\ pc' = [pc EXCEPT ![Root] = "sending"]
        /\ fsend' = [fsend EXCEPT ![Root] = Sending(passId[Root], batch[Root])]
        /\ UNCHANGED <<async, fwd, bwd, bsend, seen>>
    BY <1>3 DEF RootForward, Go
  <2>2. OnFwd(Root) = 0 /\ passId[Root] = nForwards[Root] - OnFwd(Root) /\ nForwards[Root] \in Int
    BY <2>1, Ends DEF FlowInv, PassesInv, PlacesInv, FlowTypes, OnFwd, Bit
  <2>3. batch[Root] \in Passes
    BY <2>1, Ends, SomeBatches DEF LoopInv, Passes
  <2>4. async => passId[Root] = batch[Root]
    <3>1. async => nForwards[Root] = batch[Root]
      BY <2>1, <2>3, Ends DEF LoopInv, Bit, Passes
    <3>. QED
      BY <2>2, <3>1
  <2>5. Fits(Sending(passId[Root], batch[Root]))
    BY <2>3, <2>4 DEF Fits, Sending
  <2>6. \A m \in Nodes : fsend'[m] = fsend[m] \/ Fits(fsend'[m])
    BY <1>0, <2>1, <2>5
  <2>7. pc'[Leaf] = pc[Leaf]
    BY <1>0, <2>1, Ends
  <2>. QED
    BY <2>1, <2>6, <2>7, MessagesMove
<1>4. CASE LeafForward
  <2>1. fwd[Leaf] # <<>> /\ seen' = Head(fwd[Leaf])
        /\ UNCHANGED <<async, bwd, fsend, bsend>>
    BY <1>4 DEF LeafForward
  <2>2. Fits(Head(fwd[Leaf])) /\ Tail(fwd[Leaf]) = <<>>
    BY <1>2, <2>1, Ends
  <2>3. fwd' = [fwd EXCEPT ![Leaf] = <<>>]
    BY <1>4, <2>2 DEF LeafForward
  <2>4. \A m \in Nodes : fwd'[m] = fwd[m] \/ fwd'[m] = <<>>
    BY <1>0, <2>3
  <2>5. seen' # NoPass /\ Fits(seen')
    BY <2>1, <2>2 DEF Fits, Passes, NoPass
  <2>. QED
    BY <2>1, <2>4, <2>5, MessagesMove
<1>5. CASE LeafBackward
  <2>1. /\ pc[Leaf] = "backward" /\ pc' = [pc EXCEPT ![Leaf] = "join"]
        /\ bsend' = [bsend EXCEPT ![Leaf] = Sending(passId[Leaf], seen.batch)]
        /\ UNCHANGED <<async, fwd, bwd, fsend, seen>>
    BY <1>5 DEF LeafBackward, Go
  <2>2. Fits(seen) /\ passId[Leaf] = seen.id
    BY <2>1 DEF MessagesInv, FlowInv, PassesInv
  <2>3. Fits(Sending(passId[Leaf], seen.batch))
    BY <2>2 DEF Fits, Sending
  <2>4. \A m \in Nodes : bsend'[m] = bsend[m] \/ Fits(bsend'[m])
    BY <1>0, <2>1, <2>3
  <2>5. pc'[Leaf] # "backward"
    BY <1>0, <2>1, Ends
  <2>. QED
    BY <2>1, <2>4, <2>5, MessagesMove
<1>6. ASSUME NEW n \in Nodes, StemForward(n)
      PROVE  MessagesInv'
  <2>. DEFINE m == Head(fwd[n])
  <2>1. fwd[n] # <<>> /\ pc' = [pc EXCEPT ![n] = "backward"] /\ n # Leaf
        /\ fsend' = [fsend EXCEPT ![n] = Sending(m.id, m.batch)]
        /\ UNCHANGED <<async, bwd, bsend, seen>>
    BY <1>6 DEF StemForward, Go
  <2>2. Fits(m) /\ Tail(fwd[n]) = <<>>
    BY <1>2, <2>1
  <2>3. fwd' = [fwd EXCEPT ![n] = <<>>]
    BY <1>6, <2>2 DEF StemForward
  <2>4. Fits(Sending(m.id, m.batch))
    BY <2>2 DEF Fits, Sending
  <2>. HIDE DEF m
  <2>5. \A k \in Nodes : /\ fwd'[k] = fwd[k] \/ fwd'[k] = <<>>
                         /\ fsend'[k] = fsend[k] \/ Fits(fsend'[k])
    BY <1>0, <2>1, <2>3, <2>4
  <2>6. pc'[Leaf] = pc[Leaf]
    BY <1>0, <2>1, Ends
  <2>. QED
    BY <2>1, <2>5, <2>6, MessagesMove
<1>7. ASSUME NEW n \in Nodes, DeliverForward(n)
      PROVE  MessagesInv'
  <2>1. fsend[n] # Idle /\ n # Leaf /\ n + 1 \in Nodes /\ fwd[n + 1] = <<>>
    <3>1. fsend[n].granted /\ n # Leaf
      BY <1>7 DEF DeliverForward, FlowInv, BufferInv, Forwards
    <3>2. n + 1 \in Nodes \ {Root} /\ (n + 1) - 1 = n
      BY <3>1, Neighbours, TrainingAssumption DEF Nodes, Root
    <3>. QED
      BY <3>1, <3>2 DEF FlowInv, BufferInv, Forwards, Idle
  <2>2. Fits(Message(fsend[n]))
    BY <2>1 DEF MessagesInv, Fits, Message
  <2>3. /\ fwd' = [fwd EXCEPT ![n + 1] = <<Message(fsend[n])>>] /\ fsend' = [fsend EXCEPT ![n] = Idle]
        /\ UNCHANGED <<async, bwd, bsend, seen>>
    BY <1>7, <2>1 DEF DeliverForward
  <2>4. \A k \in Nodes : /\ fwd'[k] = fwd[k] \/ fwd'[k] = <<Message(fsend[n])>>
                         /\ fsend'[k] = fsend[k] \/ fsend'[k] = Idle
    BY <1>0, <2>3
  <2>5. pc'[Leaf] = pc[Leaf]
    BY <1>0, <1>7, Ends DEF DeliverForward, Go
  <2>. QED
    BY <2>2, <2>3, <2>4, <2>5, MessagesMove
<1>8. ASSUME NEW n \in Nodes, DeliverBackward(n)
      PROVE  MessagesInv'
  <2>1. bsend[n] # Idle /\ n # Root /\ n - 1 \in Nodes /\ bwd[n - 1] = <<>>
    <3>1. bsend[n].granted /\ n # Root
      BY <1>8 DEF DeliverBackward, FlowInv, BufferInv, Backwards
    <3>2. n - 1 \in Nodes \ {Leaf} /\ (n - 1) + 1 = n
      BY <3>1, Neighbours, TrainingAssumption DEF Nodes, Leaf
    <3>. QED
      BY <3>1, <3>2 DEF FlowInv, BufferInv, Backwards, Idle
  <2>2. Fits(Message(bsend[n]))
    BY <2>1 DEF MessagesInv, Fits, Message
  <2>3. /\ bwd' = [bwd EXCEPT ![n - 1] = <<Message(bsend[n])>>] /\ bsend' = [bsend EXCEPT ![n] = Idle]
        /\ UNCHANGED <<async, fwd, fsend, seen, pc>>
    BY <1>8, <2>1 DEF DeliverBackward, loop
  <2>4. \A k \in Nodes : /\ bwd'[k] = bwd[k] \/ bwd'[k] = <<Message(bsend[n])>>
                         /\ bsend'[k] = bsend[k] \/ bsend'[k] = Idle
    BY <1>0, <2>3
  <2>. QED
    BY <2>2, <2>3, <2>4, MessagesMove
<1>9. ASSUME NEW n \in Nodes, PollForward(n) \/ PollBackward(n)
      PROVE  MessagesInv'
  <2>1. UNCHANGED <<async, pc, fwd, bwd, seen>>
    BY <1>9 DEF PollForward, PollBackward, loop
  <2>2. ASSUME NEW k \in Nodes
        PROVE  /\ fsend'[k] = fsend[k] \/ Fits(fsend'[k])
               /\ bsend'[k] = bsend[k] \/ Fits(bsend'[k])
    <3>1. CASE PollForward(n)
      <4>1. bsend' = bsend /\ fsend[n] # Idle /\ fsend' = [fsend EXCEPT ![n] = [fsend[n] EXCEPT !.granted = TRUE]]
        BY <3>1 DEF PollForward
      <4>2. fsend'[n].id = fsend[n].id /\ fsend'[n].batch = fsend[n].batch /\ \A m \in Nodes \ {n} : fsend'[m] = fsend[m]
        BY <1>0, <4>1 DEF Wire
      <4>. QED
        BY <4>1, <4>2 DEF MessagesInv, Fits
    <3>2. CASE PollBackward(n)
      <4>1. fsend' = fsend /\ bsend[n] # Idle /\ bsend' = [bsend EXCEPT ![n] = [bsend[n] EXCEPT !.granted = TRUE]]
        BY <3>2 DEF PollBackward
      <4>2. bsend'[n].id = bsend[n].id /\ bsend'[n].batch = bsend[n].batch /\ \A m \in Nodes \ {n} : bsend'[m] = bsend[m]
        BY <1>0, <4>1 DEF Wire
      <4>. QED
        BY <4>1, <4>2 DEF MessagesInv, Fits
    <3>. QED
      BY <1>9, <3>1, <3>2
  <2>. QED
    BY <2>1, <2>2, MessagesMove
<1>10. ASSUME NEW n \in Nodes, NEW l \in Labels, Go(n, l), l # "backward" \/ n # Leaf
       PROVE  pc'[Leaf] = "backward" => pc[Leaf] = "backward"
  BY <1>0, <1>10, Ends DEF Go
<1>11. ASSUME NEW n \in Nodes, Backward(n) \/ AwaitBackward(n)
       PROVE  MessagesInv'
  <2>1. pc'[Leaf] = "backward" => pc[Leaf] = "backward"
    BY <1>10, <1>11 DEF Backward, AwaitBackward, Labels
  <2>2. CASE TakeGradient(n)
    BY <2>1, <2>2, TakeGradientFits DEF FlowInv
  <2>3. CASE UNCHANGED <<async, wires, seen>>
    BY <1>1, <2>1, <2>3 DEF wires
  <2>. QED
    BY <1>11, <2>2, <2>3 DEF Backward, AwaitBackward
<1>12. CASE RootTakesGradientWhileSending
  BY <1>12, Ends, TakeGradientFits DEF RootTakesGradientWhileSending, FlowInv
<1>13. CASE RootSkips
  BY <1>1, <1>10, <1>13, Ends DEF RootSkips, wires, Labels
<1>14. ASSUME NEW n \in Nodes, StemFindsNothing(n)
       PROVE  MessagesInv'
  BY <1>1, <1>10, <1>14 DEF StemFindsNothing, wires, Labels
<1>15. ASSUME NEW n \in Nodes, Join(n) \/ AwaitJoin(n) \/ AwaitEnds(n)
       PROVE  MessagesInv'
  <2>1. UNCHANGED <<async, wires, seen>>
    BY <1>15 DEF Join, AwaitJoin, AwaitEnds
  <2>2. \E l \in {"forward", "await", "done"} : Go(n, l)
    BY <1>15 DEF Join, AwaitJoin, AwaitEnds, AfterUpdate
  <2>3. pc'[Leaf] = "backward" => pc[Leaf] = "backward"
    BY <1>10, <2>2 DEF Labels
  <2>. QED
    BY <1>1, <2>1, <2>3 DEF wires
<1>16. CASE UNCHANGED trainingVars
  BY <1>1, <1>16 DEF trainingVars, loop, wires
<1>. QED
  BY <1>3, <1>4, <1>5, <1>6, <1>7, <1>8, <1>9, <1>11, <1>12, <1>13, <1>14, <1>15, <1>16
  DEF TrainingNext, RootMain, LeafMain, Main, Sends, Answers

(* No node is ahead of the root with the passes, nor behind it with their  *)
(* gradients.                                                              *)
LEMMA RootLeads ==
  ASSUME FlowInv, NEW n \in Nodes
  PROVE  /\ Begun(n) \in Nat /\ nBackwards[n] \in Nat /\ nForwards[Root] \in Nat
         /\ nBackwards[Root] \in Nat
         /\ nBackwards[Root] <= nBackwards[n] /\ nBackwards[n] <= Begun(n)
         /\ Begun(n) <= nForwards[Root]
         /\ n # Root => Begun(n) + InFwd(n) <= nForwards[Root]
<1>1. \A m \in Nodes : /\ nBackwards[m] \in Nat /\ Begun(m) \in Nat
                       /\ InFwd(m) \in {0, 1} /\ InBwd(m) \in {0, 1}
                       /\ OnFwd(m) \in {0, 1} /\ OnBwd(m) \in {0, 1}
  BY DEF FlowInv, FlowTypes, Begun, InFwd, InBwd, OnFwd, OnBwd, Bit
<1>2. nBackwards[n] <= Begun(n)
  BY DEF FlowInv, GradientsInv
<1>3. ASSUME NEW m \in Nodes \ {Leaf}
      PROVE  /\ m + 1 \in Nodes /\ nBackwards[m] <= nBackwards[m + 1]
             /\ Begun(m + 1) + InFwd(m + 1) <= Begun(m)
  <2>1. m + 1 \in Nodes
    BY Neighbours
  <2>2. nBackwards[m + 1] = nBackwards[m] + InBwd(m) + OnBwd(m + 1)
    BY DEF FlowInv, GradientsInv
  <2>3. Begun(m) = Begun(m + 1) + InFwd(m + 1) + OnFwd(m)
    BY DEF FlowInv, PassesInv, Begun
  <2>4. /\ nBackwards[m] \in Nat /\ nBackwards[m + 1] \in Nat /\ Begun(m) \in Nat /\ Begun(m + 1) \in Nat
        /\ InFwd(m + 1) \in {0, 1} /\ InBwd(m) \in {0, 1} /\ OnFwd(m) \in {0, 1} /\ OnBwd(m + 1) \in {0, 1}
    BY <1>1, <2>1
  <2>. QED
    BY <2>1, <2>2, <2>3, <2>4
<1>4. Begun(Root) = nForwards[Root] /\ Root \in Nodes \ {Leaf}
  BY Ends DEF Begun
<1>5. CASE n = 0
  BY <1>1, <1>2, <1>4, <1>5 DEF Root
<1>6. CASE n = 1
  BY <1>1, <1>2, <1>3, <1>4, <1>6 DEF Root
<1>7. CASE n = 2
  <2>1. 1 \in Nodes \ {Leaf}
    BY <1>7, TrainingAssumption DEF Nodes, Leaf
  <2>2. /\ nBackwards[1] <= nBackwards[2] /\ Begun(2) + InFwd(2) <= Begun(1)
        /\ nBackwards[0] <= nBackwards[1] /\ Begun(1) + InFwd(1) <= Begun(0)
    BY <1>3, <1>4, <2>1 DEF Root
  <2>. QED
    BY <1>1, <1>2, <1>4, <1>7, <2>1, <2>2 DEF Root
<1>. QED
  BY <1>5, <1>6, <1>7, TrainingAssumption DEF Nodes

(* The root has begun no more passes than there are batches. *)
LEMMA PassesAreBatches ==
  ASSUME FlowInv, LoopInv
  PROVE  nForwards[Root] \in 0..AllBatches
BY Ends, SomeBatches DEF FlowInv, FlowTypes, LoopInv, Bit

(* RangesInv is inductive, with the others. *)
LEMMA RangesStep ==
  ASSUME RangesInv, GradientInv, FlowInv, LoopInv, MessagesInv, FlowInv', LoopInv', [TrainingNext]_trainingVars
  PROVE  RangesInv'
<1>0. /\ live \in [Nodes -> SUBSET [id : Int, version : Nat]] /\ version \in [Nodes -> Nat]
      /\ grads \in [Nodes -> Int] /\ dropped \in [Nodes -> Int] /\ passId \in [Nodes -> Int]
  BY DEF FlowInv, FlowTypes, LoopTypes, BufferInv, WireTypes
<1>1. passId'[Root] \in 0..AllBatches
  <2>1. nForwards'[Root] \in 0..AllBatches
    BY Ends, SomeBatches DEF FlowInv, FlowTypes, LoopInv, Bit
  <2>2. passId'[Root] = nForwards'[Root] - OnFwd(Root)' /\ OnFwd(Root)' \in {0, 1}
    BY DEF FlowInv, PassesInv, OnFwd, Bit
  <2>3. OnFwd(Root)' = 1 => nForwards'[Root] # 0
    <3>1. nForwards'[Root] = Begun(Root + 1)' + InFwd(Root + 1)' + OnFwd(Root)' /\ Root + 1 \in Nodes
      BY Ends, Neighbours DEF FlowInv, PassesInv
    <3>2. Begun(Root + 1)' \in Nat /\ InFwd(Root + 1)' \in {0, 1}
      BY <3>1 DEF FlowInv, FlowTypes, Begun, InFwd, Bit
    <3>. QED
      BY <3>1, <3>2
  <2>. QED
    BY <2>1, <2>2, <2>3, SomeBatches
<1>2. ASSUME \A m \in Nodes : live'[m] \subseteq live[m] /\ version'[m] >= version[m]
      PROVE  \A m \in Nodes : \A f \in live'[m] : f.version <= version'[m]
  <2>1. ASSUME NEW m \in Nodes, NEW f \in live'[m]
        PROVE  f.version <= version'[m]
    <3>1. f.version \in Nat /\ version[m] \in Nat /\ version'[m] \in Nat /\ f.version <= version[m]
      BY <1>0, <1>2 DEF FlowInv, FlowTypes, RangesInv
    <3>. QED
      BY <1>2, <3>1
  <2>. QED
    BY <2>1
<1>3. ASSUME \A m \in Nodes \ {Root} : passId'[m] = passId[m], seen' = seen,
             \A m \in Nodes : live'[m] \subseteq live[m] /\ version'[m] >= version[m],
             \A m \in Nodes : grads'[m] >= 0 /\ dropped'[m] >= 0
      PROVE  RangesInv'
  BY <1>1, <1>2, <1>3, Ends DEF RangesInv
<1>4. ASSUME UNCHANGED <<live, version, grads, dropped, seen>>,
             \A m \in Nodes \ {Root} : passId'[m] = passId[m]
      PROVE  RangesInv'
  BY <1>0, <1>3, <1>4 DEF RangesInv
<1>5. ASSUME NEW n \in Nodes, NEW i \in Int, Register(n, i), UNCHANGED <<passId, version, grads, dropped, seen>>
      PROVE  RangesInv'
  <2>1. \A m \in Nodes : \A f \in live'[m] : f \in live[m] \/ (m = n /\ f.version = version[n])
    BY <1>0, <1>5 DEF Register
  <2>2. \A m \in Nodes : \A f \in live'[m] : f.version <= version'[m]
    BY <1>0, <1>5, <2>1 DEF RangesInv
  <2>. QED
    BY <1>5, <2>2 DEF RangesInv
<1>6. CASE RootForward
  <2>1. passId[Root] \in Int
    BY <1>0, Ends
  <2>. QED
    BY <1>5, <1>6, <2>1, Ends DEF RootForward
<1>7. ASSUME NEW n \in Nodes, StemForward(n)
      PROVE  RangesInv'
  <2>1. Head(fwd[n]) \in Msg
    <3>1. fwd[n] \in Seq(Msg) /\ fwd[n] # <<>>
      BY <1>7 DEF StemForward, FlowInv, BufferInv, WireTypes
    <3>. QED
      BY <3>1
  <2>2. Head(fwd[n]).id \in Int
    BY <2>1 DEF Msg
  <2>. QED
    BY <1>5, <1>7, <2>2 DEF StemForward
<1>8. CASE LeafForward
  <2>1. /\ fwd[Leaf] # <<>> /\ seen' = Head(fwd[Leaf])
        /\ passId' = [passId EXCEPT ![Leaf] = Head(fwd[Leaf]).id]
        /\ UNCHANGED <<live, version, grads, dropped>>
    BY <1>8 DEF LeafForward, compute
  <2>2. Head(fwd[Leaf]).id = Begun(Leaf)
    <3>1. fwd[Leaf] \in Seq(Msg) /\ Len(fwd[Leaf]) <= 1
      BY Ends DEF FlowInv, BufferInv, WireTypes, Forwards
    <3>2. Len(fwd[Leaf]) = 1 /\ Head(fwd[Leaf]) = fwd[Leaf][1]
      BY <2>1, <3>1, TheOne
    <3>3. 1 \in DOMAIN fwd[Leaf]
      BY <3>1, <3>2
    <3>. QED
      BY <3>2, <3>3, BeforeLeaf DEF FlowInv, PassesInv
  <2>3. InFwd(Leaf) = 1
    BY <2>1 DEF InFwd, Bit
  <2>4. Begun(Leaf) \in Passes
    BY <2>3, Ends, RootLeads, PassesAreBatches, SomeBatches DEF Passes
  <2>5. Head(fwd[Leaf]).id \in Passes /\ Head(fwd[Leaf]).id \in 0..AllBatches
    BY <2>2, <2>4, SomeBatches DEF Passes
  <2>6. \A m \in Nodes : passId'[m] \in 0..AllBatches
    BY <1>0, <2>1, <2>5 DEF RangesInv
  <2>. QED
    BY <2>1, <2>5, <2>6 DEF RangesInv
<1>9. CASE LeafBackward
  <2>1. grads' = [grads EXCEPT ![Leaf] = @ + 1] /\ UNCHANGED <<live, version, dropped, seen, passId>>
    BY <1>9 DEF LeafBackward, compute
  <2>2. \A m \in Nodes : grads'[m] >= 0
    BY <1>0, <2>1 DEF RangesInv
  <2>. QED
    BY <1>0, <1>3, <2>1, <2>2 DEF RangesInv
<1>10. ASSUME NEW n \in Nodes, TakeGradient(n)
       PROVE  RangesInv'
  <2>1. /\ grads' = [grads EXCEPT ![n] = @ + 1] /\ UNCHANGED <<version, dropped, seen, passId>>
        /\ live' = [live EXCEPT ![n] = {f \in @ : f.id # Head(bwd[n]).id}]
    BY <1>10 DEF TakeGradient, Forget
  <2>2. \A m \in Nodes : grads'[m] >= 0
    BY <1>0, <2>1 DEF RangesInv
  <2>3. \A m \in Nodes : live'[m] \subseteq live[m]
    BY <1>0, <2>1
  <2>. QED
    BY <1>0, <1>3, <2>1, <2>2, <2>3 DEF RangesInv
<1>11. ASSUME NEW n \in Nodes, Update(n), UNCHANGED <<live, seen, passId>>
       PROVE  RangesInv'
  <2>1. CASE IsDue(n)
    <3>1. NextVersion(n) \in Nat /\ NextVersion(n) >= version[n]
      BY <1>0 DEF NextVersion
    <3>2. \A m \in Nodes : version'[m] >= version[m]
      BY <1>0, <2>1, <1>11, <3>1 DEF Update
    <3>3. \A m \in Nodes : grads'[m] >= 0 /\ dropped'[m] >= 0
      BY <1>0, <2>1, <1>11 DEF Update, RangesInv
    <3>. QED
      BY <1>3, <1>11, <3>2, <3>3
  <2>2. CASE ~IsDue(n)
    BY <1>4, <1>11, <2>2 DEF Update
  <2>. QED
    BY <2>1, <2>2
<1>12. ASSUME NEW n \in Nodes, DeliverForward(n)
       PROVE  RangesInv'
  <2>1. \A m \in Nodes \ {Root} : passId'[m] = passId[m]
    BY <1>0, <1>12 DEF DeliverForward
  <2>. QED
    BY <1>4, <1>12, <2>1 DEF DeliverForward, compute
<1>13. ASSUME NEW n \in Nodes, \/ PollForward(n) \/ PollBackward(n) \/ DeliverBackward(n)
                               \/ StemFindsNothing(n) \/ AwaitEnds(n)
       PROVE  RangesInv'
  BY <1>4, <1>13 DEF PollForward, PollBackward, DeliverBackward, StemFindsNothing, AwaitEnds, counts, compute
<1>14. CASE RootSkips
  BY <1>4, <1>14 DEF RootSkips, counts, compute
<1>15. CASE RootTakesGradientWhileSending
  BY <1>10, <1>15, Ends DEF RootTakesGradientWhileSending
<1>16. ASSUME NEW n \in Nodes, Backward(n) \/ AwaitBackward(n)
       PROVE  RangesInv'
  BY <1>4, <1>10, <1>16 DEF Backward, AwaitBackward, counts, compute
<1>17. ASSUME NEW n \in Nodes, Join(n) \/ AwaitJoin(n)
       PROVE  RangesInv'
  BY <1>11, <1>17 DEF Join, AwaitJoin, counts
<1>18. CASE UNCHANGED trainingVars
  BY <1>4, <1>18 DEF trainingVars, counts, compute
<1>. QED
  BY <1>6, <1>7, <1>8, <1>9, <1>12, <1>13, <1>14, <1>15, <1>16, <1>17, <1>18
  DEF TrainingNext, RootMain, LeafMain, Main, Sends, Answers

(* The five invariants hold together. *)
LEMMA TrainingInductive == TrainingSpec => []TrainingInv
<1>1. TrainingInit => TrainingInv
  BY GradientInit, FlowInit, BatchInit DEF TrainingInv
<1>2. TrainingInv /\ [TrainingNext]_trainingVars => TrainingInv'
  <2>. SUFFICES ASSUME TrainingInv, [TrainingNext]_trainingVars PROVE TrainingInv'
    OBVIOUS
  <2>1. GradientInv' /\ FlowInv'
    BY GradientStep, FlowStep DEF TrainingInv
  <2>2. LoopInv' /\ MessagesInv'
    BY <2>1, LoopStep, MessagesStep DEF TrainingInv, GradientInv
  <2>3. RangesInv'
    BY <2>1, <2>2, RangesStep DEF TrainingInv
  <2>. QED
    BY <2>1, <2>2, <2>3 DEF TrainingInv
<1>. QED
  BY <1>1, <1>2, PTL DEF TrainingSpec

-----------------------------------------------------------------------------
(* What follows from the invariant. *)

(* The gradients on their way to a node are those of its oldest passes, in *)
(* their order.                                                            *)
LEMMA ArrivingInOrder ==
  ASSUME FlowInv, NEW n \in Nodes \ {Leaf}
  PROVE  \A i \in DOMAIN Arriving(n) :
           /\ i \in Nat \ {0} /\ Arriving(n)[i] = nBackwards[n] + i - 1
           /\ Arriving(n)[i] < nForwards[n]
<1>. DEFINE sent == IF bsend[n + 1] = Idle THEN <<>> ELSE <<Message(bsend[n + 1])>>
            all == bwd[n] \o sent
<1>1. /\ n + 1 \in Nodes /\ nBackwards[n] \in Nat /\ nBackwards[n + 1] \in Nat /\ nForwards[n] \in Nat
      /\ Begun(n + 1) \in Int
  <2>1. n + 1 \in Nodes
    BY Neighbours
  <2>2. nBackwards \in [Nodes -> Nat] /\ nForwards \in [Nodes -> Nat]
    BY DEF FlowInv, FlowTypes
  <2>. QED
    BY <2>1, <2>2 DEF Begun, Bit
<1>2. /\ nBackwards[n + 1] = nBackwards[n] + InBwd(n) + OnBwd(n + 1)
      /\ bsend[n + 1] # Idle => bsend[n + 1].id = nBackwards[n + 1] - 1
      /\ \A i \in DOMAIN bwd[n] : bwd[n][i].id = nBackwards[n]
  BY DEF FlowInv, GradientsInv
<1>3. nBackwards[n + 1] <= nForwards[n]
  <2>1. nBackwards[n + 1] <= Begun(n + 1)
    BY <1>1 DEF FlowInv, GradientsInv
  <2>2. nForwards[n] = Begun(n + 1) + InFwd(n + 1) + OnFwd(n) /\ InFwd(n + 1) \in {0, 1} /\ OnFwd(n) \in {0, 1}
    BY DEF FlowInv, PassesInv, InFwd, OnFwd, Bit
  <2>. QED
    BY <1>1, <2>1, <2>2
<1>4. bwd[n] \in Seq(Msg) /\ Len(bwd[n]) <= 1 /\ Len(bwd[n]) \in Nat
  BY DEF FlowInv, BufferInv, WireTypes, Backwards
<1>5. sent \in Seq(Msg) /\ Len(sent) <= 1
  <2>1. Message(bsend[n + 1]) \in Msg
    BY <1>1 DEF FlowInv, BufferInv, WireTypes, Message, Msg, Wire
  <2>. QED
    BY <2>1
<1>6. /\ Len(bwd[n]) = InBwd(n)
      /\ Len(sent) = OnBwd(n + 1)
  <2>1. Len(bwd[n]) = 0 <=> bwd[n] = <<>>
    BY <1>4
  <2>2. Len(bwd[n]) = InBwd(n)
    BY <1>4, <2>1 DEF InBwd, Bit
  <2>3. Len(sent) = OnBwd(n + 1)
    BY DEF OnBwd, Bit
  <2>. QED
    BY <2>2, <2>3
<1>7. bsend[n + 1] # Idle => sent[1].id = nBackwards[n + 1] - 1
  BY <1>2 DEF Message
<1>8. Len(sent) = 1 => bsend[n + 1] # Idle
  OBVIOUS
<1>. HIDE DEF sent
<1>9. /\ Len(all) = Len(bwd[n]) + Len(sent) /\ DOMAIN all = 1..Len(all)
      /\ \A i \in 1..Len(all) : all[i] = IF i <= Len(bwd[n]) THEN bwd[n][i] ELSE sent[i - Len(bwd[n])]
  BY <1>4, <1>5
<1>10. Arriving(n) = [i \in DOMAIN all |-> all[i].id]
  BY DEF Arriving, sent
<1>11. InBwd(n) \in {0, 1} /\ OnBwd(n + 1) \in {0, 1}
  BY DEF InBwd, OnBwd, Bit
<1>12. DOMAIN Arriving(n) = 1..(InBwd(n) + OnBwd(n + 1))
       /\ \A i \in DOMAIN Arriving(n) : Arriving(n)[i] = all[i].id
  BY <1>6, <1>9, <1>10
<1>. HIDE DEF all
<1>13. ASSUME NEW i \in DOMAIN Arriving(n)
       PROVE  i \in Nat \ {0} /\ Arriving(n)[i] = nBackwards[n] + i - 1 /\ i <= InBwd(n) + OnBwd(n + 1)
  <2>1. i \in 1..(InBwd(n) + OnBwd(n + 1))
    BY <1>12
  <2>2. CASE i <= InBwd(n)
    <3>1. i = 1 /\ i \in DOMAIN bwd[n]
      BY <1>4, <1>6, <1>11, <2>1, <2>2
    <3>2. all[i] = bwd[n][i]
      BY <1>6, <1>9, <1>11, <2>1, <2>2
    <3>. QED
      BY <1>1, <1>2, <1>11, <1>12, <2>1, <3>1, <3>2
  <2>3. CASE i > InBwd(n)
    <3>1. i - InBwd(n) = 1 /\ OnBwd(n + 1) = 1
      BY <1>11, <2>1, <2>3
    <3>2. all[i] = sent[1]
      BY <1>6, <1>9, <1>11, <2>1, <2>3, <3>1
    <3>3. sent[1].id = nBackwards[n + 1] - 1
      BY <1>6, <1>7, <1>8, <3>1
    <3>4. nBackwards[n + 1] = nBackwards[n] + InBwd(n) + 1 /\ i = InBwd(n) + 1
      BY <1>2, <1>11, <2>1, <3>1
    <3>5. Arriving(n)[i] = nBackwards[n + 1] - 1
      BY <1>12, <3>2, <3>3
    <3>. QED
      BY <1>1, <1>11, <3>1, <3>4, <3>5
  <2>. QED
    BY <1>11, <2>1, <2>2, <2>3
<1>. QED
  BY <1>1, <1>2, <1>3, <1>11, <1>13

(* A gradient finds the outputs of its pass. *)
THEOREM GradientsComeInOrder == TrainingSpec => []GradientsFindTheirPass
<1>1. ASSUME FlowInv
      PROVE  GradientsFindTheirPass
  <2>1. BuffersHoldOne
    <3>1. Len(<<>>) = 0
      OBVIOUS
    <3>. QED
      BY <1>1, <3>1, Ends DEF FlowInv, BufferInv, Forwards, Backwards, BuffersHoldOne
  <2>2. ASSUME NEW n \in Nodes \ {Leaf}
        PROVE  /\ \A i \in DOMAIN Arriving(n) : \E f \in live[n] : f.id = Arriving(n)[i]
               /\ \A i, j \in DOMAIN Arriving(n) : i < j => Arriving(n)[i] < Arriving(n)[j]
               /\ \A i \in DOMAIN Arriving(n) : Arriving(n)[i] >= latest[n]
    <3>1. nBackwards[n] \in Nat /\ nForwards[n] \in Nat
          /\ latest[n] = IF nBackwards[n] = 0 THEN 0 ELSE nBackwards[n] - 1
      BY <1>1 DEF FlowInv, FlowTypes, GradientsInv
    <3>2. \A i \in DOMAIN Arriving(n) :
             i \in Nat \ {0} /\ Arriving(n)[i] = nBackwards[n] + i - 1 /\ Arriving(n)[i] < nForwards[n]
      BY <1>1, ArrivingInOrder
    <3>3. \A i \in DOMAIN Arriving(n) : Arriving(n)[i] \in nBackwards[n]..(nForwards[n] - 1)
      BY <3>1, <3>2
    <3>4. \A i \in DOMAIN Arriving(n) : \E f \in live[n] : f.id = Arriving(n)[i]
      BY <1>1, <3>3 DEF FlowInv, LiveInv
    <3>. QED
      BY <3>1, <3>2, <3>4
  <2>. QED
    BY <2>1, <2>2 DEF GradientsFindTheirPass
<1>. QED
  BY <1>1, TrainingInductive, PTL DEF TrainingInv

(* A set of passes with numbers of an interval has no more of them. *)
LEMMA PassesCount ==
  ASSUME NEW S, NEW a \in Int, NEW b \in Int, a <= b,
         \A f \in S : f.id \in a..(b - 1), \A f, g \in S : f.id = g.id => f = g
  PROVE  IsFiniteSet(S) /\ Cardinality(S) <= b - a
<1>. DEFINE number == [f \in S |-> f.id]
<1>1. number \in Injection(S, a..(b - 1))
  BY DEF Injection, IsInjective
<1>2. IsFiniteSet(a..(b - 1)) /\ Cardinality(a..(b - 1)) = b - a
  BY FS_Interval
<1>. QED
  BY <1>1, <1>2, FS_Injection

(* The gate of the root bounds the passes a node holds, and their age. *)
THEOREM GateBoundsStaleness == TrainingSpec => []StalenessIsBounded
<1>1. ASSUME FlowInv
      PROVE  StalenessIsBounded
  <2>1. ASSUME NEW n \in Nodes
        PROVE  Cardinality(live[n]) <= N + 1
    <3>1. CASE n = Leaf
      <4>1. live[n] = {}
        BY <1>1, <3>1 DEF FlowInv, LiveInv
      <4>2. Cardinality({}) = 0
        BY FS_EmptySet
      <4>. QED
        BY <4>1, <4>2, TrainingAssumption
    <3>2. CASE n # Leaf
      <4>1. /\ nBackwards[n] \in Nat /\ nForwards[n] \in Nat /\ nForwards[Root] \in Nat /\ nBackwards[Root] \in Nat
            /\ nBackwards[Root] <= nBackwards[n] /\ nBackwards[n] <= nForwards[n]
            /\ nForwards[n] <= nForwards[Root]
        BY <1>1, <3>2, RootLeads DEF Begun
      <4>2. nForwards[Root] - nBackwards[Root] <= N + 1
        BY <1>1 DEF FlowInv, AgeInv
      <4>3. IsFiniteSet(live[n]) /\ Cardinality(live[n]) <= nForwards[n] - nBackwards[n]
        <5>1. /\ \A f \in live[n] : f.id \in nBackwards[n]..(nForwards[n] - 1)
              /\ \A f, g \in live[n] : f.id = g.id => f = g
          BY <1>1, <3>2 DEF FlowInv, LiveInv
        <5>2. nBackwards[n] \in Int /\ nForwards[n] \in Int /\ nBackwards[n] <= nForwards[n]
          BY <4>1
        <5>. QED
          BY <5>1, <5>2, PassesCount
      <4>. QED
        BY <4>1, <4>2, <4>3, FS_CardinalityType, TrainingAssumption
    <3>. QED
      BY <3>1, <3>2
  <2>2. ASSUME NEW n \in Nodes, NEW f \in live[n]
        PROVE  version[n] - f.version <= N
    <3>1. n # Leaf
      BY <1>1, <2>2 DEF FlowInv, LiveInv
    <3>2. /\ version[n] \in Nat /\ Pending(n) \in {0, 1} /\ nBackwards[n] \in Nat /\ nForwards[n] \in Nat
          /\ f.id \in Int /\ f.version \in Nat
      BY <1>1 DEF FlowInv, FlowTypes, Pending, Bit
    <3>3. f.id \in nBackwards[n]..(nForwards[n] - 1)
      BY <1>1, <2>2, <3>1 DEF FlowInv, LiveInv
    <3>4. version[n] + Pending(n) - f.version <= nBackwards[n] - f.id + N
      BY <1>1, <2>2 DEF FlowInv, AgeInv
    <3>. QED
      BY <3>2, <3>3, <3>4, TrainingAssumption
  <2>. QED
    BY <2>1, <2>2 DEF StalenessIsBounded
<1>. QED
  BY <1>1, TrainingInductive, PTL DEF TrainingInv

(* BaseTrainerFullAsync pairs a batch with its own labels. *)
THEOREM FullAsyncLabelsMatch == TrainingSpec => []LabelsMatch
<1>1. ASSUME TrainingInv
      PROVE  LabelsMatch
  <2>1. SUFFICES ASSUME async, pc[Leaf] = "backward" PROVE seen.batch = batch[Leaf]
    BY DEF LabelsMatch
  <2>2. seen.batch = seen.id
    BY <1>1, <2>1 DEF TrainingInv, MessagesInv, Fits
  <2>3. seen.id = nBackwards[Leaf]
    BY <1>1, <2>1 DEF TrainingInv, FlowInv, PassesInv
  <2>4. nBackwards[Leaf] = batch[Leaf]
    <3>1. nBackwards[Leaf] = batch[Leaf] + Bit(pc[Leaf] = "join") /\ batch[Leaf] \in 0..AllBatches
      BY <1>1, <2>1, Ends DEF TrainingInv, LoopInv
    <3>. QED
      BY <2>1, <3>1, SomeBatches DEF Bit
  <2>. QED
    BY <2>2, <2>3, <2>4
<1>. QED
  BY <1>1, TrainingInductive, PTL

(* A buffer with one message, or none. *)
LEMMA OneTyped ==
  ASSUME NEW s \in Seq(Msg), Len(s) <= 1, \A i \in DOMAIN s : s[i].id \in Passes /\ s[i].batch \in Passes
  PROVE  s \in Seq(Pass)
<1>1. \A i \in DOMAIN s : s[i] \in Msg
  OBVIOUS
<1>2. \A i \in DOMAIN s : s[i] \in Pass
  BY <1>1 DEF Msg, Pass
<1>3. DOMAIN s = 1..Len(s) /\ Len(s) \in Nat /\ s \in [1..Len(s) -> Msg]
  OBVIOUS
<1>4. s \in [1..Len(s) -> Pass]
  BY <1>2, <1>3
<1>. QED
  BY <1>3, <1>4, SeqDef

(* Every variable keeps its range: no counter, pass or version exceeds the *)
(* number of batches, and no message is sent without a pass of a batch.    *)
THEOREM TrainingTypes == TrainingSpec => []TrainingTypeOK
<1>1. ASSUME TrainingInv
      PROVE  TrainingTypeOK
  <2>. USE <1>1 DEF TrainingInv
  <2>1. nForwards[Root] \in 0..AllBatches /\ AllBatches \in Nat \ {0}
    BY PassesAreBatches, SomeBatches
  <2>2. ASSUME NEW n \in Nodes
        PROVE  /\ nBackwards[n] \in Nat /\ Begun(n) \in Nat
               /\ nBackwards[n] <= Begun(n) /\ Begun(n) <= AllBatches
               /\ n # Root => Begun(n) + InFwd(n) <= AllBatches
    <3>1. InFwd(n) \in {0, 1}
      BY DEF InFwd, Bit
    <3>. QED
      BY <2>1, <3>1, RootLeads
  <2>3. async \in BOOLEAN /\ pc \in [Nodes -> Labels] /\ flag \in [Nodes -> BOOLEAN]
        /\ forwardDone \in [Nodes -> BOOLEAN] /\ batch \in [Nodes -> 0..AllBatches]
        /\ grads \in [Nodes -> Nat] /\ dropped \in [Nodes -> Nat]
        /\ passId \in [Nodes -> 0..AllBatches]
    <3>1. batch \in [Nodes -> 0..AllBatches] /\ passId \in [Nodes -> 0..AllBatches]
      BY DEF FlowInv, BufferInv, WireTypes, LoopInv, RangesInv
    <3>2. grads \in [Nodes -> Nat] /\ dropped \in [Nodes -> Nat]
      BY DEF GradientInv, LoopTypes, RangesInv
    <3>. QED
      BY <3>1, <3>2 DEF GradientInv, LoopTypes, FlowInv, FlowTypes, LoopInv
  <2>4. fwd \in [Nodes -> Seq(Pass)]
    <3>1. ASSUME NEW n \in Nodes
          PROVE  fwd[n] \in Seq(Pass)
      <4>1. CASE n = Root
        <5>1. fwd[n] = <<>>
          BY <4>1 DEF FlowInv, BufferInv, Forwards
        <5>. QED
          BY <5>1
      <4>2. CASE n # Root
        <5>1. fwd[n] \in Seq(Msg) /\ Len(fwd[n]) <= 1
          BY <4>2 DEF FlowInv, BufferInv, WireTypes, Forwards
        <5>2. n - 1 \in Nodes \ {Leaf} /\ (n - 1) + 1 = n
          BY <4>2, Neighbours, TrainingAssumption DEF Nodes, Leaf
        <5>3. \A i \in DOMAIN fwd[n] : fwd[n][i].id = Begun(n)
          BY <5>2 DEF FlowInv, PassesInv
        <5>4. fwd[n] # <<>> => Begun(n) \in Passes
          BY <2>1, <2>2, <4>2 DEF InFwd, Bit, Passes
        <5>5. \A i \in DOMAIN fwd[n] : fwd[n] # <<>>
          BY <5>1
        <5>6. \A i \in DOMAIN fwd[n] : fwd[n][i].batch \in Passes
          BY DEF MessagesInv, AllFit, Fits
        <5>. QED
          BY <5>1, <5>3, <5>4, <5>5, <5>6, OneTyped
      <4>. QED
        BY <4>1, <4>2
    <3>. QED
      BY <3>1 DEF FlowInv, BufferInv, WireTypes
  <2>5. ASSUME NEW n \in Nodes \ {Leaf}
        PROVE  /\ n + 1 \in Nodes /\ nForwards[n] = Begun(n) /\ nBackwards[n + 1] <= nForwards[n]
               /\ nBackwards[n + 1] = nBackwards[n] + InBwd(n) + OnBwd(n + 1)
               /\ InBwd(n) \in {0, 1} /\ OnBwd(n + 1) \in {0, 1}
               /\ nBackwards[n + 1] \in Nat
    <3>1. n + 1 \in Nodes /\ nForwards[n] = Begun(n)
      BY Neighbours DEF Begun
    <3>2. nForwards[n] = Begun(n + 1) + InFwd(n + 1) + OnFwd(n) /\ InFwd(n + 1) \in {0, 1} /\ OnFwd(n) \in {0, 1}
      BY DEF FlowInv, PassesInv, InFwd, OnFwd, Bit
    <3>3. nBackwards[n + 1] <= Begun(n + 1) /\ Begun(n + 1) \in Nat /\ nBackwards[n + 1] \in Nat
      BY <2>2, <3>1
    <3>4. nBackwards[n + 1] = nBackwards[n] + InBwd(n) + OnBwd(n + 1)
          /\ InBwd(n) \in {0, 1} /\ OnBwd(n + 1) \in {0, 1}
      BY DEF FlowInv, GradientsInv, InBwd, OnBwd, Bit
    <3>. QED
      BY <3>1, <3>2, <3>3, <3>4
  <2>6. bwd \in [Nodes -> Seq(Pass)]
    <3>1. ASSUME NEW n \in Nodes
          PROVE  bwd[n] \in Seq(Pass)
      <4>1. CASE n = Leaf
        <5>1. bwd[n] = <<>>
          BY <4>1 DEF FlowInv, BufferInv, Backwards
        <5>. QED
          BY <5>1
      <4>2. CASE n # Leaf
        <5>1. bwd[n] \in Seq(Msg) /\ Len(bwd[n]) <= 1
          BY <4>2 DEF FlowInv, BufferInv, WireTypes, Backwards
        <5>2. \A i \in DOMAIN bwd[n] : bwd[n][i].id = nBackwards[n]
          BY <4>2 DEF FlowInv, GradientsInv
        <5>3. bwd[n] # <<>> => nBackwards[n] \in Passes
          <6>1. bwd[n] # <<>> => InBwd(n) = 1
            BY DEF InBwd, Bit
          <6>. QED
            BY <2>1, <2>2, <2>5, <4>2, <6>1 DEF Passes
        <5>4. \A i \in DOMAIN bwd[n] : bwd[n] # <<>>
          BY <5>1
        <5>5. \A i \in DOMAIN bwd[n] : bwd[n][i].batch \in Passes
          BY DEF MessagesInv, AllFit, Fits
        <5>. QED
          BY <5>1, <5>2, <5>3, <5>4, <5>5, OneTyped
      <4>. QED
        BY <4>1, <4>2
    <3>. QED
      BY <3>1 DEF FlowInv, BufferInv, WireTypes
  <2>7. fsend \in [Nodes -> SendState]
    <3>1. ASSUME NEW n \in Nodes, fsend[n] # Idle
          PROVE  fsend[n] \in [id : Passes, batch : Passes, granted : BOOLEAN]
      <4>1. n # Leaf /\ fsend[n] \in Wire
        BY <3>1 DEF FlowInv, PlacesInv, BufferInv, WireTypes
      <4>2. fsend[n].id = nForwards[n] - 1 /\ nForwards[n] = Begun(n + 1) + InFwd(n + 1) + OnFwd(n)
            /\ OnFwd(n) = 1 /\ InFwd(n + 1) \in {0, 1} /\ n + 1 \in Nodes /\ nForwards[n] = Begun(n)
        BY <3>1, <4>1, Neighbours DEF FlowInv, PassesInv, OnFwd, InFwd, Bit, Begun
      <4>3. fsend[n].id \in Passes
        BY <2>1, <2>2, <4>2 DEF Passes
      <4>4. fsend[n].batch \in Passes
        BY <3>1 DEF MessagesInv, Fits
      <4>. QED
        BY <4>1, <4>3, <4>4 DEF Wire
    <3>. QED
      BY <3>1 DEF FlowInv, BufferInv, WireTypes, SendState
  <2>8. bsend \in [Nodes -> SendState]
    <3>1. ASSUME NEW n \in Nodes, bsend[n] # Idle
          PROVE  bsend[n] \in [id : Passes, batch : Passes, granted : BOOLEAN]
      <4>1. n # Root /\ bsend[n] \in Wire
        BY <3>1 DEF FlowInv, PlacesInv, BufferInv, WireTypes
      <4>2. n - 1 \in Nodes \ {Leaf} /\ (n - 1) + 1 = n
        BY <4>1, Neighbours, TrainingAssumption DEF Nodes, Leaf
      <4>3. bsend[n].id = nBackwards[n] - 1 /\ OnBwd(n) = 1
        BY <3>1, <4>2 DEF FlowInv, GradientsInv, OnBwd, Bit
      <4>4. nBackwards[n] >= 1 /\ nBackwards[n] <= AllBatches /\ nBackwards[n] \in Nat
        BY <2>1, <2>2, <2>5, <4>2, <4>3
      <4>5. bsend[n].id \in Passes
        BY <2>1, <4>3, <4>4 DEF Passes
      <4>6. bsend[n].batch \in Passes
        BY <3>1 DEF MessagesInv, Fits
      <4>. QED
        BY <4>1, <4>5, <4>6 DEF Wire
    <3>. QED
      BY <3>1 DEF FlowInv, BufferInv, WireTypes, SendState
  <2>9. ASSUME NEW n \in Nodes
        PROVE  /\ latest[n] \in Passes /\ nForwards[n] \in 0..AllBatches /\ nBackwards[n] \in 0..AllBatches
               /\ version[n] \in 0..AllBatches
               /\ live[n] \subseteq [id : Passes, version : 0..AllBatches]
    <3>1. nBackwards[n] \in 0..AllBatches
      BY <2>1, <2>2
    <3>2. nForwards[n] \in 0..AllBatches
      BY <2>1, <2>2 DEF FlowInv, PlacesInv, Begun
    <3>3. latest[n] \in Passes
      BY <2>1, <3>1 DEF FlowInv, GradientsInv, LiveInv, Passes
    <3>4. version[n] \in 0..AllBatches
      <4>1. version[n] + Pending(n) <= nBackwards[n] /\ Pending(n) \in {0, 1} /\ version[n] \in Nat
        BY DEF FlowInv, AgeInv, FlowTypes, Pending, Bit
      <4>. QED
        BY <2>1, <3>1, <4>1
    <3>5. ASSUME NEW f \in live[n]
          PROVE  f \in [id : Passes, version : 0..AllBatches]
      <4>1. f \in [id : Int, version : Nat] /\ n # Leaf /\ f.version <= version[n]
        BY DEF FlowInv, FlowTypes, LiveInv, RangesInv
      <4>2. f.id \in nBackwards[n]..(nForwards[n] - 1)
        BY <4>1 DEF FlowInv, LiveInv
      <4>3. f.id \in Passes
        BY <2>1, <3>1, <3>2, <4>2 DEF Passes
      <4>4. f.version \in 0..AllBatches
        BY <2>1, <3>4, <4>1
      <4>. QED
        BY <4>1, <4>3, <4>4
    <3>. QED
      BY <3>1, <3>2, <3>3, <3>4, <3>5
  <2>10. seen \in Pass \union {NoPass}
    <3>1. CASE seen = NoPass
      BY <3>1
    <3>2. CASE seen # NoPass
      <4>1. seen \in Msg /\ seen.id \in Passes /\ seen.batch \in Passes
        BY <3>2 DEF FlowInv, BufferInv, WireTypes, RangesInv, MessagesInv, Fits
      <4>. QED
        BY <4>1 DEF Msg, Pass
    <3>. QED
      BY <3>1, <3>2
  <2>11. /\ latest \in [Nodes -> Passes] /\ nForwards \in [Nodes -> 0..AllBatches]
         /\ nBackwards \in [Nodes -> 0..AllBatches] /\ version \in [Nodes -> 0..AllBatches]
         /\ live \in [Nodes -> SUBSET [id : Passes, version : 0..AllBatches]]
    BY <2>9 DEF FlowInv, FlowTypes
  <2>. QED
    BY <2>3, <2>4, <2>6, <2>7, <2>8, <2>10, <2>11 DEF TrainingTypeOK
<1>. QED
  BY <1>1, TrainingInductive, PTL
=============================================================================
