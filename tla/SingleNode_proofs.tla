---------------------------- MODULE SingleNode_proofs ----------------------------
(***************************************************************************)
(* What the request queue guarantees for any number of requests, slots and *)
(* threads; and the server with its engine: it is an API server as         *)
(* ApiQueue describes it, whatever the engine, so that all that is proved  *)
(* of ApiQueue holds of it; and one generation runs at a time.             *)
(***************************************************************************)
EXTENDS SingleNode, FiniteSetTheorems, TLAPS

-----------------------------------------------------------------------------
(* The request queue. *)

(* The types, without the bounds of the counter: these follow from its     *)
(* being exact.                                                            *)
FieldTypes ==
  /\ pc \in [Requests -> Labels]
  /\ gone \subseteq Requests
  /\ lock \in BOOLEAN
  /\ size \in Int

QueueInv ==
  /\ FieldTypes
  /\ SizeIsExact
  /\ LockHasOneHolder
  /\ size <= MaxQueue

-----------------------------------------------------------------------------
(* The requests at some labels are finitely many. *)
LEMMA AtIsFinite ==
  ASSUME NEW labels
  PROVE  IsFiniteSet(At(labels)) /\ Cardinality(At(labels)) \in Nat
BY RequestsAssumption, FS_Subset, FS_CardinalityType DEF At

(* A request that changes its label joins, leaves or stays in a set of     *)
(* labels; the others stay where they are.                                 *)
LEMMA AtMoves ==
  ASSUME FieldTypes, NEW r \in Requests, NEW label \in Labels, Goto(r, label), NEW labels
  PROVE  At(labels)' = IF label \in labels THEN At(labels) \union {r}
                                           ELSE At(labels) \ {r}
BY DEF FieldTypes, Goto, At

(* A set of labels that contains both of its labels or none has no other   *)
(* requests after the step.                                                *)
LEMMA AtStays ==
  ASSUME FieldTypes, NEW r \in Requests, NEW label \in Labels, Goto(r, label),
         NEW labels, label \in labels <=> pc[r] \in labels
  PROVE  At(labels)' = At(labels)
BY DEF FieldTypes, Goto, At

(* The number of counted requests after such a step. *)
LEMMA CountMoves ==
  ASSUME FieldTypes, NEW r \in Requests, NEW label \in Labels, Goto(r, label)
  PROVE  Cardinality(At(Counted)') =
           Cardinality(At(Counted))
             + (IF label \in Counted THEN 1 ELSE 0)
             - (IF pc[r] \in Counted THEN 1 ELSE 0)
<1>1. IsFiniteSet(At(Counted)) /\ Cardinality(At(Counted)) \in Nat
  BY AtIsFinite
<1>2. r \in At(Counted) <=> pc[r] \in Counted
  BY DEF At
<1>3. CASE label \in Counted
  <2>1. At(Counted)' = At(Counted) \union {r}
    BY <1>3, AtMoves
  <2>. QED
    BY <1>1, <1>2, <1>3, <2>1, FS_AddElement
<1>4. CASE label \notin Counted
  <2>1. At(Counted)' = At(Counted) \ {r}
    BY <1>4, AtMoves
  <2>2. Cardinality(At(Counted) \ {r}) =
          IF r \in At(Counted) THEN Cardinality(At(Counted)) - 1
                               ELSE Cardinality(At(Counted))
    BY <1>1, FS_RemoveElement
  <2>. QED
    BY <1>1, <1>2, <1>4, <2>1, <2>2
<1>. QED
  BY <1>3, <1>4

(* A step that leaves the counter alone and takes a request from one       *)
(* counted label to another, or from one uncounted label to another, and   *)
(* does the same to the lock, changes nothing of the invariant.            *)
LEMMA MoveKeepsQueue ==
  ASSUME QueueInv, NEW r \in Requests, NEW label \in Labels, Goto(r, label),
         label \in Counted <=> pc[r] \in Counted,
         label \in Holding <=> pc[r] \in Holding,
         gone' \subseteq Requests, UNCHANGED <<lock, size>>
  PROVE  QueueInv'
<1>1. FieldTypes /\ Cardinality(At(Counted)) \in Nat
  BY AtIsFinite DEF QueueInv
<1>2. FieldTypes'
  BY <1>1 DEF FieldTypes, Goto
<1>3. Cardinality(At(Counted)') = Cardinality(At(Counted))
  BY <1>1, CountMoves
<1>4. At(Holding)' = At(Holding)
  BY <1>1, AtStays
<1>. QED
  BY <1>1, <1>2, <1>3, <1>4 DEF QueueInv, SizeIsExact, LockHasOneHolder

(* Every step of a request keeps the invariant. *)
LEMMA QueueStep == QueueInv /\ [ApiNext]_vars => QueueInv'
<1>. SUFFICES ASSUME QueueInv, [ApiNext]_vars
              PROVE  QueueInv'
  OBVIOUS
<1>. USE DEF Labels, Counted, Holding
<1>1. FieldTypes /\ Cardinality(At(Counted)) \in Nat
  BY AtIsFinite DEF QueueInv
<1>2. ASSUME NEW r \in Requests,
             Arrive(r) \/ TimeOut(r) \/ EndPlain(r) \/ StepStream(r) \/ YieldChunk(r)
               \/ EndStream(r) \/ DropStream(r)
      PROVE  QueueInv'
  <2>1. CASE Arrive(r)
    BY <1>1, <2>1, MoveKeepsQueue DEF Arrive, FieldTypes
  <2>2. CASE TimeOut(r)
    BY <1>1, <2>2, MoveKeepsQueue DEF TimeOut, FieldTypes
  <2>3. CASE EndPlain(r)
    BY <1>1, <2>3, MoveKeepsQueue DEF EndPlain, FieldTypes
  <2>4. CASE StepStream(r)
    BY <1>1, <2>4, MoveKeepsQueue DEF StepStream, FieldTypes
  <2>5. CASE YieldChunk(r)
    BY <1>1, <2>5, MoveKeepsQueue DEF YieldChunk, FieldTypes
  <2>6. CASE EndStream(r)
    BY <1>1, <2>6, MoveKeepsQueue DEF EndStream, FieldTypes
  <2>7. CASE DropStream(r)
    BY <1>1, <2>7, MoveKeepsQueue DEF DropStream, FieldTypes
  <2>. QED
    BY <1>2, <2>1, <2>2, <2>3, <2>4, <2>5, <2>6, <2>7
<1>3. ASSUME NEW r \in Requests, Disconnect(r)
      PROVE  QueueInv'
  BY <1>3 DEF Disconnect, QueueInv, FieldTypes, SizeIsExact, LockHasOneHolder, At
<1>4. ASSUME NEW r \in Requests, Enqueue(r)
      PROVE  QueueInv'
  <2>1. CASE size >= MaxQueue
    BY <1>1, <1>4, <2>1, MoveKeepsQueue DEF Enqueue, FieldTypes
  <2>2. CASE ~(size >= MaxQueue)
    <3>1. Goto(r, "wait") /\ size' = size + 1 /\ pc[r] = "new" /\ UNCHANGED <<gone, lock>>
      BY <1>4, <2>2 DEF Enqueue
    <3>2. size' <= MaxQueue
      BY <1>1, <2>2, <3>1, SizesAssumption DEF FieldTypes
    <3>3. Cardinality(At(Counted)') = Cardinality(At(Counted)) + 1
      BY <1>1, <3>1, CountMoves
    <3>4. At(Holding)' = At(Holding)
      BY <1>1, <3>1, AtStays
    <3>5. FieldTypes'
      BY <1>1, <3>1 DEF FieldTypes, Goto
    <3>. QED
      BY <3>1, <3>2, <3>3, <3>4, <3>5 DEF QueueInv, SizeIsExact, LockHasOneHolder
  <2>. QED
    BY <2>1, <2>2
<1>5. ASSUME NEW r \in Requests, Acquire(r)
      PROVE  QueueInv'
  <2>1. PICK label \in {"respond", "generate"} : Goto(r, label)
    BY <1>5 DEF Acquire
  <2>2. pc[r] = "wait" /\ ~lock /\ lock' = TRUE /\ UNCHANGED <<gone, size>>
    BY <1>5 DEF Acquire
  <2>3. Cardinality(At(Counted)') = Cardinality(At(Counted))
    BY <1>1, <2>1, <2>2, CountMoves
  <2>4. At(Holding)' = {r}
    BY <1>1, <2>1, <2>2, AtMoves DEF QueueInv, LockHasOneHolder
  <2>5. FieldTypes'
    BY <1>1, <2>1, <2>2 DEF FieldTypes, Goto
  <2>. QED
    BY <2>2, <2>3, <2>4, <2>5 DEF QueueInv, SizeIsExact, LockHasOneHolder
<1>6. ASSUME NEW r \in Requests, Release(r)
      PROVE  QueueInv'
  <2>1. Goto(r, "slot") /\ pc[r] = "release" /\ lock' = FALSE /\ UNCHANGED <<gone, size>>
    BY <1>6 DEF Release
  <2>2. Cardinality(At(Counted)') = Cardinality(At(Counted))
    BY <1>1, <2>1, CountMoves
  <2>3. At(Holding)' = {}
    <3>1. At(Holding)' = At(Holding) \ {r}
      BY <1>1, <2>1, AtMoves
    <3>2. r \in At(Holding)
      BY <2>1 DEF At
    <3>. QED
      BY <3>1, <3>2 DEF QueueInv, LockHasOneHolder
  <2>4. FieldTypes'
    BY <1>1, <2>1 DEF FieldTypes, Goto
  <2>. QED
    BY <2>1, <2>2, <2>3, <2>4 DEF QueueInv, SizeIsExact, LockHasOneHolder
<1>7. ASSUME NEW r \in Requests, GiveUp(r) \/ GiveBack(r)
      PROVE  QueueInv'
  <2>1. Goto(r, "idle") /\ pc[r] \in {"timeout", "slot"} /\ UNCHANGED <<gone, lock>>
    BY <1>7 DEF GiveUp, GiveBack
  <2>2. Cardinality(At(Counted)') = Cardinality(At(Counted)) - 1
    BY <1>1, <2>1, CountMoves
  <2>3. Cardinality(At(Counted)') \in Nat
    <3>1. At(Counted)' = At(Counted) \ {r}
      BY <1>1, <2>1, AtMoves
    <3>2. IsFiniteSet(At(Counted) \ {r})
      BY AtIsFinite, FS_RemoveElement
    <3>. QED
      BY <3>1, <3>2, FS_CardinalityType
  <2>4. size = Cardinality(At(Counted)) /\ size \in Nat
    BY <1>1 DEF QueueInv, SizeIsExact
  <2>5. size' = size - 1
    BY <1>1, <1>7, <2>2, <2>3, <2>4 DEF GiveUp, GiveBack
  <2>6. At(Holding)' = At(Holding)
    BY <1>1, <2>1, AtStays
  <2>7. FieldTypes'
    BY <1>1, <2>1, <2>4, <2>5 DEF FieldTypes, Goto
  <2>8. size' <= MaxQueue
    BY <2>4, <2>5, SizesAssumption DEF QueueInv
  <2>. QED
    BY <2>1, <2>2, <2>4, <2>5, <2>6, <2>7, <2>8
    DEF QueueInv, SizeIsExact, LockHasOneHolder
<1>8. CASE UNCHANGED vars
  BY <1>8 DEF vars, QueueInv, FieldTypes, SizeIsExact, LockHasOneHolder, At
<1>. QED
  BY <1>2, <1>3, <1>4, <1>5, <1>6, <1>7, <1>8 DEF ApiNext, Proceed

(* The inductive invariant holds. *)
LEMMA QueueInvariant == ApiSpec => []QueueInv
<1>1. ASSUME ApiInit
      PROVE  QueueInv
  <2>1. At(Counted) = {} /\ At(Holding) = {}
    BY <1>1 DEF ApiInit, At, Counted, Holding
  <2>2. FieldTypes
    <3>1. "idle" \in Labels
      BY DEF Labels
    <3>2. size \in Int
      BY <1>1 DEF ApiInit
    <3>3. lock \in BOOLEAN /\ gone \subseteq Requests
      BY <1>1 DEF ApiInit
    <3>. QED
      BY <1>1, <3>1, <3>2, <3>3 DEF ApiInit, FieldTypes
  <2>3. SizeIsExact
    BY <1>1, <2>1, FS_EmptySet DEF ApiInit, SizeIsExact
  <2>4. LockHasOneHolder
    BY <1>1, <2>1 DEF ApiInit, LockHasOneHolder
  <2>. QED
    BY <1>1, <2>2, <2>3, <2>4, SizesAssumption DEF ApiInit, QueueInv
<1>. QED
  BY <1>1, QueueStep, PTL DEF ApiSpec

-----------------------------------------------------------------------------
(* queue_size never leaves 0 .. MAX_QUEUE. *)
THEOREM ApiTypes == ApiSpec => []ApiTypeOK
<1>1. QueueInv => ApiTypeOK
  BY AtIsFinite, SizesAssumption DEF QueueInv, FieldTypes, SizeIsExact, ApiTypeOK
<1>. QED
  BY <1>1, QueueInvariant, PTL

(* No path through the endpoints loses a slot or gives one back twice.     *)
THEOREM QueueSizeIsExact == ApiSpec => []SizeIsExact
BY QueueInvariant, PTL DEF QueueInv

(* The engine serves one request at a time, and the lock is locked exactly *)
(* while it does.                                                          *)
THEOREM OneRequestAtATime == ApiSpec => []LockHasOneHolder
BY QueueInvariant, PTL DEF QueueInv

-----------------------------------------------------------------------------
(* While a stream has the lock, the others are at most MAX_QUEUE - 1.      *)
LEMMA StreamLeavesRoom == QueueInv => StreamFindsThread
<1>. SUFFICES ASSUME QueueInv, MaxQueue <= Threads, NEW r \in At({"respond", "pause"})
              PROVE  ThreadFree
  BY DEF StreamFindsThread
<1>. DEFINE Busy == At({"wait", "generate", "step"})
<1>1. IsFiniteSet(At(Counted)) /\ Cardinality(At(Counted)) \in Nat
  BY AtIsFinite
<1>2. Busy \subseteq At(Counted) /\ r \in At(Counted) /\ r \notin Busy
  BY DEF At, Counted, Holding
<1>3. Cardinality(Busy) \in Nat /\ Cardinality(Busy) <= Cardinality(At(Counted))
      /\ Cardinality(Busy) # Cardinality(At(Counted))
  BY <1>1, <1>2, FS_Subset, FS_CardinalityType
<1>4. Cardinality(At(Counted)) <= MaxQueue
  BY DEF QueueInv, SizeIsExact
<1>. QED
  BY <1>1, <1>3, <1>4, SizesAssumption DEF ThreadFree

(* A pool of at least MAX_QUEUE threads cannot be blocked by requests that *)
(* wait for the stream to end while it waits for a thread.                 *)
THEOREM StreamNeverStarves == ApiSpec => []StreamFindsThread
BY QueueInvariant, StreamLeavesRoom, PTL

-----------------------------------------------------------------------------
(* Each step of a request is one step of the bounded queue or none: the    *)
(* counter decides as the number of requests inside would, and the lock is *)
(* free only when nobody is served.                                        *)
LEMMA BoundedStep == QueueInv /\ [ApiNext]_vars => [Queue!Next]_(Queue!vars)
<1>. SUFFICES ASSUME QueueInv, [ApiNext]_vars
              PROVE  [Queue!Next]_(Queue!vars)
  OBVIOUS
<1>. USE DEF Labels, Counted, Holding
<1>1. FieldTypes
  BY DEF QueueInv
<1>2. ASSUME At(Counted)' = At(Counted), At(Holding)' = At(Holding)
      PROVE  [Queue!Next]_(Queue!vars)
  BY <1>2 DEF Queue!vars
<1>3. ASSUME NEW r \in Requests, NEW label \in Labels, Goto(r, label),
             label \in Counted <=> pc[r] \in Counted,
             label \in Holding <=> pc[r] \in Holding
      PROVE  [Queue!Next]_(Queue!vars)
  BY <1>1, <1>2, <1>3, AtStays
<1>4. ASSUME NEW r \in Requests, Enqueue(r)
      PROVE  [Queue!Next]_(Queue!vars)
  <2>1. CASE size >= MaxQueue
    BY <1>3, <1>4, <2>1 DEF Enqueue
  <2>2. CASE ~(size >= MaxQueue)
    <3>1. Goto(r, "wait") /\ pc[r] = "new"
      BY <1>4, <2>2 DEF Enqueue
    <3>2. At(Counted)' = At(Counted) \union {r} /\ At(Holding)' = At(Holding)
      BY <1>1, <3>1, AtMoves, AtStays
    <3>3. r \notin At(Counted) /\ Cardinality(At(Counted)) < MaxQueue
      BY <2>2, <3>1, SizesAssumption DEF At, QueueInv, FieldTypes, SizeIsExact
    <3>4. Queue!Admit(r)
      BY <3>2, <3>3 DEF Queue!Admit, Queue!Cardinality, Cardinality
    <3>. QED
      BY <3>4 DEF Queue!Next
  <2>. QED
    BY <2>1, <2>2
<1>5. ASSUME NEW r \in Requests, Acquire(r)
      PROVE  [Queue!Next]_(Queue!vars)
  <2>1. PICK label \in {"respond", "generate"} : Goto(r, label)
    BY <1>5 DEF Acquire
  <2>2. pc[r] = "wait" /\ At(Holding) = {}
    BY <1>5 DEF Acquire, QueueInv, LockHasOneHolder
  <2>3. At(Counted)' = At(Counted)
    BY <1>1, <2>1, <2>2, AtStays
  <2>4. At(Holding)' = {r}
    BY <1>1, <2>1, <2>2, AtMoves
  <2>5. r \in At(Counted)
    BY <2>2 DEF At
  <2>6. Queue!Serve(r)
    BY <2>2, <2>3, <2>4, <2>5 DEF Queue!Serve
  <2>. QED
    BY <2>6 DEF Queue!Next
<1>6. ASSUME NEW r \in Requests, Release(r)
      PROVE  [Queue!Next]_(Queue!vars)
  <2>1. Goto(r, "slot") /\ pc[r] = "release"
    BY <1>6 DEF Release
  <2>2. At(Counted)' = At(Counted)
    BY <1>1, <2>1, AtStays
  <2>3. At(Holding)' = At(Holding) \ {r}
    BY <1>1, <2>1, AtMoves
  <2>4. r \in At(Holding)
    BY <2>1 DEF At
  <2>5. At(Holding) = {r}
    BY <2>4 DEF QueueInv, LockHasOneHolder
  <2>6. Queue!Finish(r)
    BY <2>2, <2>3, <2>5 DEF Queue!Finish
  <2>. QED
    BY <2>6 DEF Queue!Next
<1>7. ASSUME NEW r \in Requests, GiveUp(r) \/ GiveBack(r)
      PROVE  [Queue!Next]_(Queue!vars)
  <2>1. Goto(r, "idle") /\ pc[r] \in {"timeout", "slot"}
    BY <1>7 DEF GiveUp, GiveBack
  <2>2. At(Counted)' = At(Counted) \ {r}
    BY <1>1, <2>1, AtMoves
  <2>3. At(Holding)' = At(Holding)
    BY <1>1, <2>1, AtStays
  <2>4. r \in At(Counted) \ At(Holding)
    BY <2>1 DEF At
  <2>5. Queue!Leave(r)
    BY <2>2, <2>3, <2>4 DEF Queue!Leave
  <2>. QED
    BY <2>5 DEF Queue!Next
<1>8. ASSUME NEW r \in Requests, Disconnect(r)
      PROVE  [Queue!Next]_(Queue!vars)
  BY <1>2, <1>8 DEF Disconnect, At
<1>9. ASSUME NEW r \in Requests,
             Arrive(r) \/ TimeOut(r) \/ EndPlain(r) \/ StepStream(r) \/ YieldChunk(r)
               \/ EndStream(r) \/ DropStream(r)
      PROVE  [Queue!Next]_(Queue!vars)
  BY <1>3, <1>9
  DEF Arrive, TimeOut, EndPlain, StepStream, YieldChunk, EndStream, DropStream
<1>10. CASE UNCHANGED vars
  BY <1>2, <1>10 DEF vars, At
<1>. QED
  BY <1>4, <1>5, <1>6, <1>7, <1>8, <1>9, <1>10 DEF ApiNext, Proceed

(* The counter and the lock implement the bounded queue that serves one    *)
(* request at a time.                                                      *)
THEOREM ApiImplementsBoundedQueue == ApiSpec => ImplementsBoundedQueue
<1>1. ApiInit => Queue!Init
  BY DEF ApiInit, Queue!Init, At, Counted, Holding
<1>. QED
  BY <1>1, QueueInvariant, BoundedStep, PTL
  DEF ApiSpec, ImplementsBoundedQueue, Queue!Spec

-----------------------------------------------------------------------------
(* The server with its engine. *)

(* A step of the server is one of ApiQueue, or one of a thread. *)
LEMMA ServerStep == [ServerNext]_serverVars => [ApiNext]_vars
<1>. SUFFICES ASSUME [ServerNext]_serverVars PROVE [ApiNext]_vars
  OBVIOUS
<1>1. CASE UNCHANGED serverVars
  BY <1>1 DEF serverVars
<1>2. CASE LeftEnds
  BY <1>2 DEF LeftEnds
<1>3. ASSUME NEW r \in Requests, Ask(r)
      PROVE  ApiNext
  BY <1>3 DEF Ask, ApiNext
<1>4. ASSUME NEW r \in Requests, Serve(r)
      PROVE  ApiNext
  BY <1>4 DEF Serve, ApiNext, Proceed
<1>5. ASSUME NEW r \in Requests, TakeText(r) \/ Finish(r) \/ Drop(r)
      PROVE  ApiNext
  BY <1>5 DEF TakeText, Finish, Drop, ApiNext, Proceed
<1>6. ASSUME NEW r \in Requests, Generate(r)
      PROVE  UNCHANGED vars
  BY <1>6 DEF Generate, StartThread, ThreadEnds
<1>. QED
  BY <1>1, <1>2, <1>3, <1>4, <1>5, <1>6 DEF ServerNext

(* Under every engine the server is an API server of ApiQueue: the counter *)
(* and the lock do not depend on what generates the tokens.                *)
THEOREM ServerIsApiServer == ServerSpec => ApiSpec
<1>1. ServerInit => ApiInit
  BY DEF ServerInit
<1>. QED
  BY <1>1, ServerStep, PTL DEF ServerSpec, ApiSpec

-----------------------------------------------------------------------------
ThreadTypes == thread \in [Requests -> {"none", "runs", "ended", "died"}]
ThreadsHoldLock == \A r \in Requests : thread[r] # "none" => pc[r] \in {"step", "pause"}
ThreadInv == ThreadTypes /\ ThreadsHoldLock

(* A request of ApiQueue that moves from a label outside "step" and        *)
(* "pause" had no thread, and nobody else's thread is concerned.           *)
LEMMA OthersMove ==
  ASSUME FieldTypes, ThreadInv, NEW r \in Requests, NEW l, Goto(r, l), UNCHANGED thread,
         pc[r] \notin {"step", "pause"} \/ l \in {"step", "pause"}
  PROVE  ThreadInv'
BY DEF FieldTypes, ThreadInv, ThreadTypes, ThreadsHoldLock, Goto

(* ThreadInv is inductive, given the types of the queue's state. *)
LEMMA ThreadStep == FieldTypes /\ ThreadInv /\ [ServerNext]_serverVars => ThreadInv'
<1>. SUFFICES ASSUME FieldTypes, ThreadInv, [ServerNext]_serverVars PROVE ThreadInv'
  OBVIOUS
<1>. USE DEF ThreadInv, ThreadTypes, ThreadsHoldLock
<1>1. CASE UNCHANGED serverVars \/ LeftEnds
  BY <1>1 DEF serverVars, threadVars, vars, LeftEnds
<1>2. ASSUME NEW r \in Requests, Ask(r)
      PROVE  ThreadInv'
  <2>1. UNCHANGED thread
    BY <1>2 DEF Ask, threadVars
  <2>2. CASE UNCHANGED pc
    BY <2>1, <2>2
  <2>3. CASE Arrive(r) \/ Enqueue(r)
    BY <1>2, <2>1, <2>2, <2>3, OthersMove DEF Arrive, Enqueue
  <2>. QED
    BY <1>2, <2>2, <2>3 DEF Ask, Disconnect
<1>3. ASSUME NEW r \in Requests, Serve(r)
      PROVE  ThreadInv'
  <2>1. UNCHANGED thread
    BY <1>3 DEF Serve, threadVars
  <2>. QED
    BY <1>3, <2>1, OthersMove
    DEF Serve, Acquire, TimeOut, GiveUp, EndPlain, StepStream, Release, GiveBack
<1>4. ASSUME NEW r \in Requests, TakeText(r)
      PROVE  ThreadInv'
  BY <1>4, OthersMove DEF TakeText, YieldChunk, threadVars
<1>5. ASSUME NEW r \in Requests, Finish(r) \/ Drop(r)
      PROVE  ThreadInv'
  BY <1>5 DEF Finish, Drop, EndStream, DropStream, Becomes, Goto, FieldTypes
<1>6. ASSUME NEW r \in Requests, Generate(r)
      PROVE  ThreadInv'
  BY <1>6 DEF Generate, StartThread, ThreadEnds, Becomes, vars
<1>. QED
  BY <1>1, <1>2, <1>3, <1>4, <1>5, <1>6 DEF ServerNext

(* Two requests that are still served never generate at once, and a stream *)
(* has a thread only while it has the lock: what overlaps with another     *)
(* generation can only be a thread that a dropped stream has left behind.  *)
THEOREM ServedOneByOne ==
  ServerSpec => [](ThreadsHoldLock /\ \A r, s \in Generating : r = s)
<1>1. ServerInit => ThreadInv
  BY DEF ServerInit, ThreadInv, ThreadTypes, ThreadsHoldLock
<1>2. ServerSpec => []QueueInv
  BY ServerIsApiServer, QueueInvariant, PTL
<1>3. QueueInv => FieldTypes
  BY DEF QueueInv
<1>4. QueueInv /\ ThreadInv => ThreadsHoldLock /\ \A r, s \in Generating : r = s
  <2>. SUFFICES ASSUME QueueInv, ThreadInv
                PROVE  ThreadsHoldLock /\ \A r, s \in Generating : r = s
    OBVIOUS
  <2>1. Generating \subseteq At(Holding)
    BY DEF ThreadInv, ThreadsHoldLock, Generating, At, Holding
  <2>. QED
    BY <2>1 DEF QueueInv, LockHasOneHolder, ThreadInv
<1>. QED
  BY <1>1, <1>2, <1>3, <1>4, ThreadStep, PTL DEF ServerSpec

=============================================================================
