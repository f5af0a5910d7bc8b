------------------------------- MODULE Pipeline -------------------------------
(***************************************************************************)
(* Generation over the stages of a pipeline: InferenceEngine of            *)
(* inference_engine.py on the sockets of Communication_Dynamic.            *)
(*                                                                         *)
(* Stage 0 is the root, the last stage the leaf, those between are stems.  *)
(* The root announces a request on the metadata sockets (batch size,       *)
(* prompts, lengths), then every step sends one activation down the        *)
(* stages, the leaf answers with a token, and the root forwards the token  *)
(* to the stems.  Nobody says when a request is over: each stage counts    *)
(* the tokens it has seen, and compares them with the end-of-text token.   *)
(*                                                                         *)
(* A batch is one sequence, as the API server sends it.  Tensors are       *)
(* represented by the request and step they were computed for.  The        *)
(* stages' loops around generate() are in Serving.                         *)
(***************************************************************************)
EXTENDS Integers, Sequences

CONSTANTS N,         \* stages
          R,         \* requests, numbered in the order of their start
          Limit,     \* max_seq_lengths of each request
          Abandons,  \* may a client close its stream
          MaxLate    \* bound: times a timer goes off on somebody still at work

ASSUME StagesAssumption == N \in Nat /\ N >= 2
ASSUME LimitAssumption == R \in Nat /\ Limit \in [1..R -> Nat \ {0}]
ASSUME FailuresAssumption == Abandons \in BOOLEAN /\ MaxLate \in Nat

Stages == 0..(N - 1)
Leaf == N - 1
Followers == Stages \ {0}
Stems == Followers \ {Leaf}

VARIABLES pc,       \* where a stage's engine is
          req,      \* the last request the root has started
          gen,      \* _generate's request (by its lengths) and token count
          meta,     \* unread messages from the root on the metadata socket
          act,      \* unread activations from the stage before
          up,       \* unread tokens from the leaf on its metadata socket
          work,     \* is feedback_recv_work under way
          tok,      \* feedback_ip
          orphans,  \* receivers the root left behind when it gave up
          late,     \* times a timer has gone off on somebody still at work
          broken,   \* has a stage given up or been left inside a request
          foreign   \* requests that were given a token not computed for them

channels == <<meta, act, up>>
receivers == <<work, tok, orphans>>
vars == <<pc, req, gen, channels, receivers, late, broken, foreign>>

Message(kind, q, i) == [k |-> kind, q |-> q, i |-> i, eos |-> FALSE]
Zero == Message("tok", 0, 0)
Token(m, eos) == [Message("tok", m.q, m.i) EXCEPT !.eos = eos]

(* send_tensor and send_object: what cannot be told apart on the wire.     *)
IsTensor(m) == m.k \in {"bs", "tok"}

Labels == {"idle", "send", "top", "prompt", "plist", "lens", "act", "fb",
           "lost", "paused", "deaf"}
Goto(s, label) == pc' = [pc EXCEPT ![s] = label]

NoGen == [q |-> 0, n |-> 0]
NewGen(q) == [q |-> q, n |-> 0]
SetGen(s, g) == gen' = [gen EXCEPT ![s] = g]

(* Sends ms on the metadata sockets of the stages in `to'. *)
Broadcast(ms, to) ==
  meta' = [s \in Followers |-> IF s \in to THEN meta[s] \o ms ELSE meta[s]]

PipeInit ==
  /\ pc = [s \in Stages |-> IF s = 0 THEN "idle" ELSE "top"]
  /\ req = 0
  /\ gen = [s \in Stages |-> NoGen]
  /\ meta = [s \in Followers |-> << >>]
  /\ act = [s \in Followers |-> << >>]
  /\ up = << >>
  /\ work = [s \in Stages |-> FALSE]
  /\ tok = [s \in Stages |-> Zero]
  /\ orphans = 0
  /\ late = 0
  /\ broken = FALSE
  /\ foreign = {}

-----------------------------------------------------------------------------
(* The announcement of a request. *)

(* generate or generate_stream at the root, as far as configure_pipelining. *)
Start ==
  /\ pc[0] = "idle" /\ req < R
  /\ req' = req + 1
  /\ SetGen(0, NewGen(req'))
  /\ Broadcast(<<Message("bs", req', 0), Message("prompts", req', 0),
                 Message("lens", req', 0)>>, Followers)
  /\ Goto(0, "send")
  /\ UNCHANGED <<act, up, receivers, late, broken, foreign>>

(* A stage reads what it takes for the batch size, the prompts or the      *)
(* lengths.  Anything else raises, and the stage's loop begins again: a    *)
(* tensor is not a pickle and a pickle no tensor, a token has another      *)
(* shape than a batch size, and neither can lengths be tokenized nor       *)
(* prompts be compared with a number.                                      *)
Expects == [prompt |-> "bs", plist |-> "prompts", lens |-> "lens"]
Then == [prompt |-> "plist", plist |-> "lens", lens |-> "act"]

Read(s) ==
  /\ pc[s] \in DOMAIN Expects
  /\ meta[s] # << >>
  /\ LET m == Head(meta[s]) IN
       /\ Goto(s, IF m.k = Expects[pc[s]] THEN Then[pc[s]] ELSE "top")
       /\ IF pc[s] = "lens" /\ m.k = "lens"
          THEN SetGen(s, NewGen(m.q)) ELSE UNCHANGED gen
  /\ meta' = [meta EXCEPT ![s] = Tail(@)]
  /\ UNCHANGED <<req, act, up, receivers, late, broken, foreign>>

-----------------------------------------------------------------------------
(* One step: activation, token, feedback. *)

(* start_feedback_recv. *)
Listen(s) ==
  /\ work' = [work EXCEPT ![s] = TRUE]
  /\ tok' = [tok EXCEPT ![s] = Zero]

(* no_grad_forward_compute at the root. *)
RootForward ==
  /\ pc[0] = "send"
  /\ act' = [act EXCEPT ![1] = Append(@, Message("act", gen[0].q, gen[0].n + 1))]
  /\ Listen(0)
  /\ Goto(0, "fb")
  /\ UNCHANGED <<req, gen, meta, up, orphans, late, broken, foreign>>

(* is_generation_complete, for the stage's own count and lengths.          *)
Complete(s, t) == t.eos \/ gen[s].n + 1 >= Limit[gen[s].q]

(* _generate returns or raises: its locals are gone. *)
Leave(s, label) == Goto(s, label) /\ SetGen(s, NoGen)

(* The end of the loop's body, after the stage has seen token t. *)
Count(s, t) ==
  IF Complete(s, t) THEN Leave(s, IF s = 0 THEN "idle" ELSE "top")
  ELSE /\ Goto(s, IF s = 0 THEN "send" ELSE "act")
       /\ gen' = [gen EXCEPT ![s].n = @ + 1]

(* trigger_feedback_send. *)
Feedback(t) == up' = Append(up, t)

(* What a stage makes of activation m: the leaf samples a token and sends  *)
(* it to the root, a stem sends the result on and listens.                 *)
Forward(s, m) ==
  IF s = Leaf
  THEN \E eos \in BOOLEAN :
         LET t == Token(m, eos) IN
           /\ Feedback(t)
           /\ Count(s, t)
           /\ UNCHANGED receivers
  ELSE /\ Listen(s)
       /\ Goto(s, "fb")
       /\ UNCHANGED <<up, gen, orphans>>

(* check_forward_buffer: the activation that comes is the one it works on. *)
(* If it is not the one its masks were made for the model may also raise.  *)
Step(s) ==
  /\ pc[s] = "act" /\ act[s] # << >>
  /\ LET m == Head(act[s])
         rest == [act EXCEPT ![s] = Tail(@)]
     IN \/ /\ Forward(s, m)
           /\ act' = IF s = Leaf THEN rest
                     ELSE [rest EXCEPT ![s + 1] = Append(@, m)]
        \/ /\ m.q # 0 /\ (m.q # gen[s].q \/ m.i # gen[s].n + 1)
           /\ Leave(s, "top")
           /\ act' = rest
           /\ UNCHANGED <<up, receivers>>
  /\ UNCHANGED <<req, meta, late, broken, foreign>>

(* Somebody can go on without waiting for a timer. *)
Busy ==
  \/ pc[0] = "send"
  \/ up # << >> /\ (work[0] \/ orphans > 0)
  \/ \E s \in Stages : pc[s] = "fb" /\ ~work[s]
  \/ \E s \in Followers :
       \/ pc[s] \in {"top", "lost"}
       \/ pc[s] = "act" /\ act[s] # << >>
       \/ meta[s] # << >> /\ (work[s] \/ pc[s] \in DOMAIN Expects)

(* A timer: normally nothing else can happen; if something can, it is late. *)
GoesOff(working) ==
  IF working THEN late < MaxLate /\ late' = late + 1 ELSE UNCHANGED late

(* Mutant: the receive waits for ever. *)
StepOnlyWithInput(s) == pc[s] = "act" /\ act[s] # << >> /\ UNCHANGED vars

(* No activation for 300 s.  AsyncWork keeps the error and reports that it *)
(* is done, so the stage works on the zeros it had prepared.               *)
StepWithoutInput(s) ==
  /\ pc[s] = "act" /\ act[s] = << >>
  /\ GoesOff(Busy \/ \E r \in Stages : work[r])
  /\ Forward(s, Message("act", 0, 0))
  /\ act' = IF s = Leaf THEN act
            ELSE [act EXCEPT ![s + 1] = Append(@, Message("act", 0, 0))]
  /\ broken' = TRUE
  /\ UNCHANGED <<req, meta, foreign>>

(* Mutant: the token goes to the leaf too. *)
RootReceiveToAll ==
  /\ up # << >>
  /\ \/ work[0] /\ work' = [work EXCEPT ![0] = FALSE] /\ UNCHANGED orphans
     \/ orphans > 0 /\ orphans' = orphans - 1 /\ UNCHANGED work
  /\ tok' = [tok EXCEPT ![0] = Head(up)]
  /\ Broadcast(<<Head(up)>>, Followers)
  /\ up' = Tail(up)
  /\ UNCHANGED <<pc, req, gen, act, late, broken, foreign>>

(* The root's receiver, or one it has left behind: recv_and_forward.       *)
RootReceive ==
  /\ up # << >>
  /\ \/ work[0] /\ work' = [work EXCEPT ![0] = FALSE] /\ UNCHANGED orphans
     \/ orphans > 0 /\ orphans' = orphans - 1 /\ UNCHANGED work
  /\ tok' = [tok EXCEPT ![0] = Head(up)]
  /\ Broadcast(<<Head(up)>>, Stems)
  /\ up' = Tail(up)
  /\ UNCHANGED <<pc, req, gen, act, late, broken, foreign>>

(* A stem's receiver takes the next message on its metadata socket for the *)
(* token.  If that is no tensor the zeros stay, and the error is kept.     *)
StemReceive(s) ==
  /\ work[s] /\ meta[s] # << >>
  /\ work' = [work EXCEPT ![s] = FALSE]
  /\ IF IsTensor(Head(meta[s])) THEN tok' = [tok EXCEPT ![s] = Head(meta[s])]
     ELSE UNCHANGED tok
  /\ meta' = [meta EXCEPT ![s] = Tail(@)]
  /\ UNCHANGED <<pc, req, gen, act, up, orphans, late, broken, foreign>>

(* The history of what the root takes from its receiver; what is left in   *)
(* feedback_ip has no reader.                                              *)
Accept(s) ==
  /\ tok' = [tok EXCEPT ![s] = Zero]
  /\ foreign' = IF s = 0 /\ (tok[0].q # gen[0].q \/ tok[0].i # gen[0].n + 1)
                THEN foreign \union {gen[0].q} ELSE foreign

(* feedback_recv_work_done: the token is used, whatever became of it.      *)
Advance(s) ==
  /\ pc[s] = "fb" /\ ~work[s]
  /\ Accept(s)
  /\ Count(s, tok[s])
  /\ UNCHANGED <<req, channels, work, orphans, late, broken>>

(* Mutant: only the other stages have a timeout. *)
GiveUpNotRoot(s) ==
  /\ s # 0 /\ pc[s] = "fb" /\ work[s]
  /\ GoesOff(Busy)
  /\ Leave(s, "lost")
  /\ work' = [work EXCEPT ![s] = FALSE]
  /\ broken' = TRUE
  /\ UNCHANGED <<req, channels, tok, orphans, foreign>>

(* Mutant: the call fails and its receiver stays the current one. *)
GiveUpStillListens(s) ==
  /\ pc[s] = "fb" /\ work[s]
  /\ GoesOff(Busy)
  /\ Leave(s, IF s = 0 THEN "idle" ELSE "lost")
  /\ broken' = TRUE
  /\ UNCHANGED <<req, channels, work, tok, orphans, foreign>>

(* No token for 30 s: the call fails, the receiver stays.  At the root the *)
(* request is over; a stem's loop takes it for a lost connection.          *)
GiveUp(s) ==
  /\ pc[s] = "fb" /\ work[s]
  /\ GoesOff(Busy)
  /\ Leave(s, IF s = 0 THEN "idle" ELSE "lost")
  /\ work' = [work EXCEPT ![s] = FALSE]
  /\ orphans' = IF s = 0 THEN orphans + 1 ELSE orphans
  /\ broken' = TRUE
  /\ UNCHANGED <<req, channels, tok, foreign>>

(* The client of a stream is gone: the generator is closed where it yields *)
(* the token, and the root is ready for the next request.                  *)
Abandon ==
  /\ Abandons
  /\ pc[0] = "fb" /\ ~work[0]
  /\ Accept(0)
  /\ Leave(0, "idle")
  /\ broken' = (broken \/ ~Complete(0, tok[0]))
  /\ UNCHANGED <<req, channels, work, orphans, late>>

Engine ==
  \/ Start \/ RootForward \/ RootReceive \/ Advance(0) \/ GiveUp(0) \/ Abandon
  \/ \E s \in Followers :
       \/ Read(s) \/ Step(s) \/ StepWithoutInput(s)
       \/ s \in Stems /\ (StemReceive(s) \/ Advance(s) \/ GiveUp(s))

-----------------------------------------------------------------------------
(* Properties. *)

(* Every token the root hands to a client was computed for the request of  *)
(* this client and for this place in it.                                   *)
OwnTokens == foreign = {}

=============================================================================
