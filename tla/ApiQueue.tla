------------------------------- MODULE ApiQueue -------------------------------
(***************************************************************************)
(* The request queue of the API server: create_app of deploy/api_server.py *)
(* with its counter queue_size, its inference lock, and the two kinds of   *)
(* response.  A plain response holds the lock during one call on one       *)
(* thread.  A streamed one is a generator that takes the lock along when   *)
(* the endpoint returns: the web framework runs it step by step on threads *)
(* of its pool, and drops it when the client has gone.                     *)
(*                                                                         *)
(* Authentication, validation and the replies' contents are left out: they *)
(* refuse a request before it has touched anything.                        *)
(***************************************************************************)
EXTENDS Integers, FiniteSets

CONSTANTS Requests,  \* connections on which requests arrive, one at a time
          Streams,   \* those that ask for a streamed response
          MaxQueue,  \* MAX_QUEUE
          Threads    \* size of the framework's thread pool

ASSUME RequestsAssumption == IsFiniteSet(Requests) /\ Streams \subseteq Requests
ASSUME SizesAssumption == MaxQueue \in Nat /\ Threads \in Nat

VARIABLES pc,    \* where a request is
          gone,  \* requests whose client has disconnected
          lock,  \* is `lock' locked
          size   \* queue_size[0]

vars == <<pc, gone, lock, size>>

(* Where a request has the lock, and where it has been counted. *)
Holding == {"generate", "respond", "step", "pause", "release", "lost"}
Counted == Holding \union {"wait", "timeout", "slot"}
Labels == Counted \union {"idle", "new"}

At(labels) == {r \in Requests : pc[r] \in labels}
Goto(r, label) == pc' = [pc EXCEPT ![r] = label]

(* Threads are held by requests that wait for the lock or generate.  All   *)
(* other code on a thread comes to its end without waiting.                *)
ThreadFree == Cardinality(At({"wait", "generate", "step"})) < Threads

ApiInit ==
  /\ pc = [r \in Requests |-> "idle"]
  /\ gone = {}
  /\ lock = FALSE
  /\ size = 0

Arrive(r) ==
  /\ pc[r] = "idle"
  /\ Goto(r, "new")
  /\ gone' = gone \ {r}
  /\ UNCHANGED <<lock, size>>

(* The client closes the connection before it has its answer. *)
Disconnect(r) ==
  /\ pc[r] # "idle"
  /\ gone' = gone \union {r}
  /\ UNCHANGED <<pc, lock, size>>

-----------------------------------------------------------------------------
(* _enqueue_and_acquire. *)

(* Mutant: the comparison lets one request too many in. *)
EnqueueOffByOne(r) ==
  /\ pc[r] = "new"
  /\ ThreadFree
  /\ IF size > MaxQueue THEN Goto(r, "idle") /\ UNCHANGED size
     ELSE Goto(r, "wait") /\ size' = size + 1
  /\ UNCHANGED <<gone, lock>>

(* The endpoint gets a thread, and is refused with 503 or counted. *)
Enqueue(r) ==
  /\ pc[r] = "new"
  /\ ThreadFree
  /\ IF size >= MaxQueue THEN Goto(r, "idle") /\ UNCHANGED size
     ELSE Goto(r, "wait") /\ size' = size + 1
  /\ UNCHANGED <<gone, lock>>

(* Whoever waits may be next: threading.Lock keeps no order. *)
Acquire(r) ==
  /\ pc[r] = "wait"
  /\ ~lock
  /\ lock' = TRUE
  /\ Goto(r, IF r \in Streams THEN "respond" ELSE "generate")
  /\ UNCHANGED <<gone, size>>

(* Mutant: after the timeout the request waits again. *)
TimeOutRetries(r) == pc[r] = "wait" /\ lock /\ UNCHANGED vars

(* Mutant: the endpoint's `finally' also covers a request that never got   *)
(* the lock.                                                               *)
TimeOutReleases(r) ==
  /\ pc[r] = "wait"
  /\ lock
  /\ lock' = FALSE
  /\ Goto(r, "timeout")
  /\ UNCHANGED <<gone, size>>

(* The lock was not free for QUEUE_TIMEOUT seconds: 504. *)
TimeOut(r) ==
  /\ pc[r] = "wait"
  /\ lock
  /\ Goto(r, "timeout")
  /\ UNCHANGED <<gone, lock, size>>

(* Mutant: the slot is not given back after a timeout. *)
GiveUpKeepsSlot(r) ==
  /\ pc[r] = "timeout"
  /\ Goto(r, "idle")
  /\ UNCHANGED <<gone, lock, size>>

GiveUp(r) ==
  /\ pc[r] = "timeout"
  /\ Goto(r, "idle")
  /\ size' = size - 1
  /\ UNCHANGED <<gone, lock>>

-----------------------------------------------------------------------------
(* Generation, and the `finally' that ends it. *)

(* generate() has returned or raised. *)
EndPlain(r) ==
  /\ pc[r] = "generate"
  /\ Goto(r, "release")
  /\ UNCHANGED <<gone, lock, size>>

(* The framework asks the generator for its first or its next chunk... *)
StepStream(r) ==
  /\ pc[r] \in {"respond", "pause"}
  /\ ThreadFree
  /\ Goto(r, "step")
  /\ UNCHANGED <<gone, lock, size>>

(* ... which it gives, ... *)
YieldChunk(r) ==
  /\ pc[r] = "step"
  /\ Goto(r, "pause")
  /\ UNCHANGED <<gone, lock, size>>

(* ... or it ends. *)
EndStream(r) ==
  /\ pc[r] = "step"
  /\ Goto(r, "release")
  /\ UNCHANGED <<gone, lock, size>>

(* The framework notices that the client has gone and drops the generator. *)
(* One that waits at a `yield' is closed, which runs its `finally'.  One   *)
(* that was never started has no `try' to leave.                           *)
DropStream(r) ==
  /\ r \in gone
  /\ \/ pc[r] = "pause" /\ Goto(r, "release")
     \/ pc[r] = "respond" /\ Goto(r, "lost")
  /\ UNCHANGED <<gone, lock, size>>

Release(r) ==
  /\ pc[r] = "release"
  /\ lock' = FALSE
  /\ Goto(r, "slot")
  /\ UNCHANGED <<gone, size>>

(* _release_queue_slot. *)
GiveBack(r) ==
  /\ pc[r] = "slot"
  /\ size' = IF size > 0 THEN size - 1 ELSE 0
  /\ Goto(r, "idle")
  /\ UNCHANGED <<gone, lock>>

-----------------------------------------------------------------------------
(* What the server does for an admitted request. *)
Proceed(r) ==
  \/ Acquire(r)
  \/ TimeOut(r)
  \/ GiveUp(r)
  \/ EndPlain(r)
  \/ StepStream(r)
  \/ YieldChunk(r)
  \/ EndStream(r)
  \/ DropStream(r)
  \/ Release(r)
  \/ GiveBack(r)

ApiNext ==
  \E r \in Requests : Arrive(r) \/ Disconnect(r) \/ Enqueue(r) \/ Proceed(r)

ApiSpec == ApiInit /\ [][ApiNext]_vars

(* Threads run; the pool serves those that wait for a thread in order,     *)
(* which is strong fairness; and a generation has a last token (the loop   *)
(* of _generate_stream is bounded by max_seq_lengths).  Nothing makes a    *)
(* client send or disconnect.                                              *)
ApiFairness ==
  \A r \in Requests :
    /\ WF_vars(Proceed(r))
    /\ SF_vars(Enqueue(r))
    /\ SF_vars(StepStream(r))
    /\ SF_vars(EndStream(r))

ApiFairSpec == ApiSpec /\ ApiFairness

-----------------------------------------------------------------------------
(* The types of the queue's state; queue_size stays between its bounds.    *)
ApiTypeOK ==
  /\ pc \in [Requests -> Labels]
  /\ gone \subseteq Requests
  /\ lock \in BOOLEAN
  /\ size \in 0 .. MaxQueue

(* On every path, refusal, timeout, error and disconnection included, a    *)
(* slot is taken once and given back once: queue_size, and so what         *)
(* /v1/queue reports and the 503 decision, counts exactly the requests     *)
(* that are inside (the max(0, ...) of _release_queue_slot hides nothing). *)
SizeIsExact == size = Cardinality(At(Counted))

(* The lock is taken exactly while one request has the engine: no release  *)
(* is missing, none is done twice, and none is somebody else's.            *)
LockHasOneHolder ==
  /\ \A r, s \in At(Holding) : r = s
  /\ lock <=> At(Holding) # {}

(* The requests that wait for the lock block a thread each, and the stream *)
(* that has the lock needs one for its next chunk.  They never take the    *)
(* last one, as long as MAX_QUEUE is not larger than the pool.             *)
StreamFindsThread ==
  MaxQueue <= Threads /\ At({"respond", "pause"}) # {} => ThreadFree

(* The counter and the lock make a bounded queue that serves one request   *)
(* at a time.                                                              *)
Queue == INSTANCE BoundedQueue WITH inside <- At(Counted), serving <- At(Holding)

ImplementsBoundedQueue == Queue!Spec
=============================================================================
