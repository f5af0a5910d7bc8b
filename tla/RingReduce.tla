------------------------------- MODULE RingReduce -------------------------------
(***************************************************************************)
(* parallel_ring_reduce of communication_grpc.py, among the providers that *)
(* Formation has made: one thread per provider and ring.  A thread sends a *)
(* chunk of each of its parameters to the next cluster, and adds what the  *)
(* previous cluster sends, RingSize - 1 times; then the finished chunks go *)
(* round in the same way.  A sender first polls the receiver's iteration   *)
(* until it equals its own.  Nothing else keeps rounds and iterations of   *)
(* different providers apart.                                              *)
(*                                                                         *)
(* The value of a chunk is the set of <<cluster, round>> whose values were *)
(* added up in it.                                                         *)
(***************************************************************************)
EXTENDS Formation

CONSTANT Rounds \* bound: how often a provider averages at most

ASSUME RoundsAssumption == Rounds \in Nat

VARIABLES round,     \* rounds a provider has begun
          phase,     \* "reduce", "gather" or "done", of a thread
          iteration, \* reduce_iteration and gather_iteration
          sendPos,
          sent,      \* receivers the iteration's chunk has gone to
          got,       \* keys_received
          chunks,    \* chunked_data: parameter, position -> value
          buffer     \* reduce_ring_buffers and gather_ring_buffers

ringVars == <<round, phase, iteration, sendPos, sent, got, chunks, buffer>>
averagingVars == <<formationVars, ringVars>>

Phases == {"reduce", "gather"}
Threads == DOMAIN phase
Positions == 0..(RingSize - 1)

(* rank is the number of the cluster, from 0. *)
NodeRank(n) == ClusterOf(n) - 1

RingInit ==
  /\ round = [n \in Providers |-> 0]
  /\ phase = <<>> /\ sendPos = <<>> /\ sent = <<>> /\ got = <<>> /\ chunks = <<>>
  /\ iteration = <<>> /\ buffer = <<>>

(* The providers start after the formation. *)
StartProviders ==
  /\ CutModel
  /\ LET T == IF stage' # "formed" THEN {}
              ELSE {t \in Providers \X (0..(Params - 1)) : t[2] \in DOMAIN ringKeys'[t[1]]}
     IN /\ phase' = [t \in T |-> "done"]
        /\ iteration' = [f \in Phases |-> [t \in T |-> 0]]
        /\ sendPos' = [t \in T |-> 0]
        /\ sent' = [t \in T |-> {}]
        /\ got' = [t \in T |-> 0]
        /\ chunks' = [t \in T |-> <<>>]
        /\ buffer' = [f \in Phases |-> [t \in T |-> <<>>]]
  /\ UNCHANGED round

Finished(n) == \A t \in Threads : t[1] = n => phase[t] = "done"

(* When a provider averages is its trainer's matter: at any optimizer_step *)
(* with n_backwards % reduce_threshold = 0, which counts the provider's    *)
(* own passes, is true before the first one, and remains true when a turn  *)
(* had no gradient.  So a provider may begin a round whenever its last one *)
(* is over, and it need not: one may begin fewer than its neighbours.      *)
CanBegin(n) == stage = "formed" /\ RingSize > 1 /\ round[n] < Rounds /\ Finished(n)

(* parallel_ring_reduce begins: create_chunks, one thread per ring. *)
BeginRound(n) ==
  /\ CanBegin(n)
  /\ round' = [round EXCEPT ![n] = @ + 1]
  /\ LET rank == NodeRank(n)
     IN /\ phase' = [t \in Threads |-> IF t[1] = n THEN "reduce" ELSE phase[t]]
        /\ sendPos' = [t \in Threads |-> IF t[1] = n THEN rank ELSE sendPos[t]]
        /\ chunks' = [t \in Threads |->
                        IF t[1] = n THEN [k \in ringKeys[n][t[2]] |->
                                           [p \in Positions |-> {<<rank, round[n] + 1>>}]]
                        ELSE chunks[t]]
  /\ UNCHANGED <<formationVars, iteration, sent, got, buffer>>

Dests(t) == {address[t[1]][k] : k \in ringKeys[t[1]][t[2]]}

(* data_dict for the receiver d. *)
ChunkFor(t, d) ==
  [k \in {q \in ringKeys[t[1]][t[2]] : address[t[1]][q] = d} |->
     [pos |-> sendPos[t], value |-> chunks[t][k][sendPos[t]]]]

(* Mutant: the sender waits until its receiver is ahead. *)
MaySendBehind(t, u) == iteration[phase[t]][u] > iteration[phase[t]][t]

(* The poll of send_reduce_chunk and send_gather_chunk. *)
MaySend(t, u) == iteration[phase[t]][u] = iteration[phase[t]][t]

(* reduce_chunk and gather_chunk: the message joins the ring's buffer. *)
Deliver(u, f, m) == buffer' = [buffer EXCEPT ![f][u] = Append(@, m)]

CanSend(t, d) == phase[t] \in Phases /\ d \in Dests(t) \ sent[t] /\ MaySend(t, <<d, t[2]>>)

Send(t, d) ==
  /\ CanSend(t, d)
  /\ Deliver(<<d, t[2]>>, phase[t], ChunkFor(t, d))
  /\ sent' = [sent EXCEPT ![t] = @ \union {d}]
  /\ UNCHANGED <<formationVars, round, phase, iteration, sendPos, got, chunks>>

(* A value that is counted twice stays recognisable. *)
Twice == <<-1, -1>>
Add(x, y) == x \union y \union (IF x \intersect y = {} THEN {} ELSE {Twice})

Back(p) == (p - 1 + RingSize) % RingSize

(* After the last iteration the counter is reset; the value it has in      *)
(* between equals no sender's.                                             *)
NextIteration(i) == IF i + 1 < RingSize - 1 THEN i + 1 ELSE 0

(* Mutant: gathering begins with the position that was sent last. *)
NextPosKept(t) == IF phase[t] = "reduce" /\ NextIteration(iteration["reduce"][t]) = 0
                  THEN sendPos[t] ELSE Back(sendPos[t])

(* send_pos of the next iteration; the gathering begins where recv_pos     *)
(* ended, which is one behind it.                                          *)
NextPos(t) == Back(sendPos[t])

CanReceive(t) == phase[t] \in Phases /\ sent[t] = Dests(t) /\ buffer[phase[t]][t] # <<>>

(* One message is taken from the buffer; the last of an iteration ends it. *)
Receive(t) ==
  /\ CanReceive(t)
  /\ LET m == Head(buffer[phase[t]][t])
         value(k) == IF phase[t] = "reduce" THEN Add(chunks[t][k][m[k].pos], m[k].value)
                     ELSE m[k].value
         count == got[t] + Cardinality(DOMAIN m)
         over == count >= Cardinality(ringKeys[t[1]][t[2]])
         next == NextIteration(iteration[phase[t]][t])
     IN /\ chunks' = [chunks EXCEPT ![t] = [k \in DOMAIN @ |->
                        IF k \in DOMAIN m THEN [@[k] EXCEPT ![m[k].pos] = value(k)] ELSE @[k]]]
        /\ buffer' = [buffer EXCEPT ![phase[t]][t] = Tail(@)]
        /\ IF over
           THEN /\ sent' = [sent EXCEPT ![t] = {}]
                /\ got' = [got EXCEPT ![t] = 0]
                /\ iteration' = [iteration EXCEPT ![phase[t]][t] = next]
                /\ sendPos' = [sendPos EXCEPT ![t] = NextPos(t)]
                /\ phase' = [phase EXCEPT ![t] = IF next # 0 THEN @
                                                 ELSE IF @ = "reduce" THEN "gather" ELSE "done"]
           ELSE got' = [got EXCEPT ![t] = count] /\ UNCHANGED <<sent, iteration, sendPos, phase>>
  /\ UNCHANGED <<formationVars, round>>

ThreadNext(t) ==
  \/ \E d \in Providers : Send(t, d)
  \/ Receive(t)

Average == stage = "formed" /\ (\/ \E n \in Providers : BeginRound(n)
                                \/ \E t \in Threads : ThreadNext(t))

AveragingNext ==
  \/ (Evaluate \/ Form) /\ UNCHANGED ringVars
  \/ StartProviders
  \/ Average

AveragingInit == FormationInit /\ RingInit

AveragingSpec == AveragingInit /\ [][AveragingNext]_averagingVars

-----------------------------------------------------------------------------
(* Properties. *)

(* After a round every parameter of every provider is the sum over all     *)
(* clusters, each counted once and from this round, in every chunk.        *)
AveragesAreExact ==
  stage = "formed" =>
    \A t \in Threads : (phase[t] = "done" /\ round[t[1]] > 0) =>
      \A k \in ringKeys[t[1]][t[2]] : \A p \in Positions :
        chunks[t][k][p] = {<<c, round[t[1]]>> : c \in 0..(RingSize - 1)}

(* Providers that are in a round wait only for a provider that is not: if  *)
(* no thread can send or take a message, some provider has begun fewer     *)
(* rounds than another that is still in its last.  (The polls have no      *)
(* timeout, so if that provider never begins another round, they wait for  *)
(* ever.)  Among providers of the same number of rounds the polls and the  *)
(* full or empty buffers never close a circle.                             *)
CanGoOn(t) == CanReceive(t) \/ \E d \in Providers : CanSend(t, d)

OnlyLateRoundsAreWaitedFor ==
  (stage = "formed" /\ \E t \in Threads : phase[t] \in Phases) =>
    \/ \E t \in Threads : CanGoOn(t)
    \/ \E n, m \in Providers : Finished(n) /\ ~Finished(m) /\ round[n] < round[m]

=============================================================================
