------------------------------ MODULE SingleNode ------------------------------
(***************************************************************************)
(* The API server on top of an engine.  With deploy/entrypoint_single.py   *)
(* the engine is SingleNodeEngine: a plain request generates on the thread *)
(* of its endpoint, a stream starts a thread that generates, and iterates  *)
(* over what this thread puts into a streamer.  The thread knows nothing   *)
(* of the lock: it goes on when the stream is dropped, and when it raises  *)
(* an error, nobody tells the streamer.  With a pipeline as the engine     *)
(* nothing runs besides the stream, and ApiQueue says all there is.        *)
(*                                                                         *)
(* The streamer is external (transformers).  What it holds when its thread *)
(* ends is not told apart from what the thread would still put.  Bound:    *)
(* one thread that was left behind stands for any number of them.          *)
(***************************************************************************)
EXTENDS ApiQueue

VARIABLES engine,  \* "single" or "pipeline"
          thread,  \* the thread of a stream: "none", "runs", "ended" or "died"
          left     \* does a thread run that a dropped stream left behind

threadVars == <<engine, thread, left>>
serverVars == <<vars, threadVars>>

ServerInit ==
  /\ ApiInit
  /\ engine \in {"single", "pipeline"}
  /\ thread = [r \in Requests |-> "none"]
  /\ left = FALSE

Single(r) == engine = "single" /\ r \in Streams
Becomes(r, state) == thread' = [thread EXCEPT ![r] = state]

(* generate_stream up to its loop; the tokenizer may raise, which ends the *)
(* stream with a chunk that tells of the error.                            *)
StartThread(r) ==
  /\ Single(r) /\ pc[r] = "step" /\ thread[r] = "none"
  /\ Becomes(r, "runs") \/ Becomes(r, "ended")
  /\ UNCHANGED <<vars, engine, left>>

(* model.generate returns, after it has told the streamer, or raises. *)
ThreadEnds(r) ==
  /\ thread[r] = "runs"
  /\ Becomes(r, "ended") \/ Becomes(r, "died")
  /\ UNCHANGED <<vars, engine, left>>

LeftEnds ==
  /\ left /\ left' = FALSE
  /\ UNCHANGED <<vars, engine, thread>>

(* The stream takes a text, or, after the last one, yields a final chunk.  *)
TakeText(r) ==
  /\ YieldChunk(r)
  /\ Single(r) => thread[r] \in {"runs", "ended"}
  /\ UNCHANGED threadVars

(* The loop is over, and the thread joined. *)
Finish(r) ==
  /\ EndStream(r)
  /\ Single(r) => thread[r] = "ended"
  /\ Becomes(r, "none")
  /\ UNCHANGED <<engine, left>>

(* The dropped generator drops generate_stream, at its `yield'. *)
Drop(r) ==
  /\ DropStream(r)
  /\ left' = (left \/ thread[r] = "runs")
  /\ Becomes(r, "none")
  /\ UNCHANGED engine

(* All else is independent of the engine. *)
Serve(r) ==
  /\ \/ Acquire(r) \/ TimeOut(r) \/ GiveUp(r) \/ EndPlain(r) \/ StepStream(r)
     \/ Release(r) \/ GiveBack(r)
  /\ UNCHANGED threadVars

Ask(r) == (Arrive(r) \/ Disconnect(r) \/ Enqueue(r)) /\ UNCHANGED threadVars
Generate(r) == StartThread(r) \/ ThreadEnds(r)

ServerNext ==
  \/ \E r \in Requests :
       Ask(r) \/ Serve(r) \/ TakeText(r) \/ Finish(r) \/ Drop(r) \/ Generate(r)
  \/ LeftEnds

ServerSpec == ServerInit /\ [][ServerNext]_serverVars

(* As in ApiQueue; a thread has a last token, too. *)
ServerFairSpec ==
  /\ ServerSpec
  /\ \A r \in Requests :
       /\ WF_serverVars(Serve(r) \/ TakeText(r) \/ Finish(r) \/ Drop(r))
       /\ WF_serverVars(Generate(r))
       /\ SF_serverVars(Enqueue(r) /\ UNCHANGED threadVars)
       /\ SF_serverVars(StepStream(r) /\ UNCHANGED threadVars)
       /\ SF_serverVars(Finish(r))

-----------------------------------------------------------------------------
(* The requests that are served by a generation in progress. *)
Generating == At({"generate"}) \union {r \in Requests : thread[r] = "runs"}

(* Every request is answered: served, or refused with 503 or 504.  The     *)
(* ones that are not are the stream whose client had left before it began, *)
(* and the stream whose thread has died; those behind them get their 504.  *)
EveryRequestEnds ==
  \A r \in Requests :
    pc[r] = "new" ~> pc[r] \in {"idle", "lost"} \/ (pc[r] = "step" /\ thread[r] = "died")
=============================================================================
