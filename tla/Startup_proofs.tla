----------------------------- MODULE Startup_proofs -----------------------------
(***************************************************************************)
(* Proofs about Startup, for any number of nodes, machines and layers:     *)
(* every node process that runs can be accounted for, the exchange of      *)
(* hardware gives every node the proportions of what all have reported,    *)
(* and the stages that the nodes of a pipeline keep tile the model.        *)
(***************************************************************************)
EXTENDS Startup, Sums_proofs, FiniteSetTheorems, TLAPS

ProcessTypes ==
  /\ command \in [Commands -> {"start", "spawn", "watch", "stop", "ended", "crashed"}]
  /\ node \in [Commands -> [Ranks -> {"none", "running", "exited"}]]
  /\ pidFile \in [Ranks -> SUBSET (Commands \X Ranks)]
  /\ \A c \in Commands : RanksOf(c) \subseteq Ranks /\ Machine(c) \in Ranks

(* A command that has not begun has no nodes. *)
NoneYet == \A c \in Commands : command[c] = "start" => Alive(c) = {}

StrayInv == ProcessTypes /\ NoneYet /\ NoStrays

(* The machines and the ranks of a command are ranks. *)
LEMMA Places == \A c \in Commands : RanksOf(c) \subseteq Ranks /\ Machine(c) \in Ranks
<1>1. 0 \in Ranks
  BY ExchangeAssumption DEF Ranks
<1>2. ASSUME NEW c \in Commands
      PROVE  RanksOf(c) \in {{c}, Ranks, {0}}
  BY ZenonT(30) DEF RanksOf
<1>. QED
  BY <1>1, <1>2 DEF Commands, Machine

(* No process has been started in the beginning. *)
LEMMA StrayInit == StartupInit => StrayInv
<1>. SUFFICES ASSUME StartupInit PROVE StrayInv
  OBVIOUS
<1>1. ProcessTypes
  BY Places DEF StartupInit, ProcessTypes
<1>2. \A c \in Commands : Alive(c) = {}
  BY Places DEF StartupInit, Alive
<1>. QED
  BY <1>1, <1>2 DEF StrayInv, NoneYet, NoStrays

(* What a step of command c leaves to do: the other commands keep their    *)
(* processes, and nothing that names a process is lost.                    *)
LEMMA OneCommandMoves ==
  ASSUME StrayInv, ProcessTypes', NEW c \in Commands, UNCHANGED mode,
         \A d \in Commands \ {c} : command'[d] = command[d] /\ node'[d] = node[d],
         asked \subseteq asked', overwritten \subseteq overwritten',
         \A k \in Ranks : pidFile[k] \subseteq pidFile'[k] \union overwritten',
         command'[c] = "start" => Alive(c)' = {},
         \A r \in Alive(c)' :
           \/ command'[c] \in {"spawn", "watch", "stop", "crashed"}
           \/ <<c, r>> \in asked' \union overwritten' \union pidFile'[Machine(c)]
  PROVE  StrayInv'
<1>1. \A d \in Commands : RanksOf(d)' = RanksOf(d) /\ Machine(d)' = Machine(d)
  BY DEF RanksOf, Machine
<1>2. \A d \in Commands \ {c} : Alive(d)' = Alive(d)
  BY <1>1 DEF Alive
<1>3. NoneYet'
  BY <1>2 DEF StrayInv, NoneYet
<1>4. ASSUME NEW d \in Commands, NEW r \in Alive(d)'
      PROVE  \/ command'[d] \in {"spawn", "watch", "stop", "crashed"}
             \/ <<d, r>> \in asked' \union overwritten' \union pidFile'[Machine(d)]
  <2>1. CASE d = c
    BY <1>4, <2>1
  <2>2. CASE d # c
    <3>1. r \in Alive(d) /\ command'[d] = command[d] /\ Machine(d) \in Ranks
      BY <1>2, <1>4, <2>2 DEF StrayInv, ProcessTypes
    <3>. QED
      BY <3>1 DEF StrayInv, NoStrays
  <2>. QED
    BY <2>1, <2>2
<1>. QED
  BY <1>1, <1>3, <1>4 DEF StrayInv, NoStrays

(* No step changes the mode, so the ranks and the machine of a command stay. *)
LEMMA SamePlaces ==
  ASSUME StrayInv, UNCHANGED mode, command' \in [Commands -> {"start", "spawn", "watch", "stop", "ended", "crashed"}],
         node' \in [Commands -> [Ranks -> {"none", "running", "exited"}]],
         pidFile' \in [Ranks -> SUBSET (Commands \X Ranks)]
  PROVE  ProcessTypes' /\ \A d \in Commands : RanksOf(d)' = RanksOf(d) /\ Machine(d)' = Machine(d)
<1>1. \A d \in Commands : RanksOf(d)' = RanksOf(d) /\ Machine(d)' = Machine(d)
  BY DEF RanksOf, Machine
<1>. QED
  BY <1>1 DEF StrayInv, ProcessTypes

(* Every step keeps the invariant. *)
LEMMA StrayStep == StrayInv /\ [StartupNext]_startupVars => StrayInv'
<1>. SUFFICES ASSUME StrayInv, [StartupNext]_startupVars PROVE StrayInv'
  OBVIOUS
<1>. USE DEF StrayInv
<1>1. ASSUME UNCHANGED launchVars PROVE StrayInv'
  BY <1>1, SamePlaces DEF launchVars, ProcessTypes, NoneYet, NoStrays, Alive
<1>2. ASSUME NEW c \in Commands, Begin(c) PROVE StrayInv'
  <2>1. command'[c] = "spawn" /\ UNCHANGED <<mode, node, asked, pidFile, overwritten>>
    BY <1>2 DEF Begin, ProcessTypes
  <2>2. ProcessTypes' /\ \A d \in Commands : RanksOf(d)' = RanksOf(d) /\ Machine(d)' = Machine(d)
    BY <1>2, <2>1, SamePlaces DEF Begin, ProcessTypes
  <2>3. \A d \in Commands \ {c} : command'[d] = command[d] /\ node'[d] = node[d]
    BY <1>2 DEF Begin, ProcessTypes
  <2>. QED
    BY <2>1, <2>2, <2>3, OneCommandMoves
<1>3. ASSUME NEW c \in Commands, Spawn(c) PROVE StrayInv'
  <2>. DEFINE r == Min(RanksOf(c) \ Started(c))
  <2>1. UNCHANGED <<mode, command, asked, pidFile, overwritten>> /\ command[c] = "spawn"
    BY <1>3 DEF Spawn
  <2>2. node' = [node EXCEPT ![c][r] = "running"]
    BY <1>3 DEF Spawn
  <2>. HIDE DEF r
  <2>3. /\ node' \in [Commands -> [Ranks -> {"none", "running", "exited"}]]
        /\ \A d \in Commands \ {c} : node'[d] = node[d]
    BY <2>2 DEF ProcessTypes
  <2>4. ProcessTypes'
    BY <2>1, <2>3, SamePlaces DEF ProcessTypes
  <2>. QED
    BY <2>1, <2>3, <2>4, OneCommandMoves
<1>4. ASSUME NEW c \in Commands, SpawnFails(c) PROVE StrayInv'
  <2>1. UNCHANGED <<mode, node, asked, pidFile, overwritten>> /\ command'[c] = "crashed"
    BY <1>4 DEF SpawnFails, ProcessTypes
  <2>2. \A d \in Commands \ {c} : command'[d] = command[d] /\ node'[d] = node[d]
    BY <1>4 DEF SpawnFails, ProcessTypes
  <2>3. ProcessTypes'
    BY <1>4, <2>1, SamePlaces DEF SpawnFails, ProcessTypes
  <2>. QED
    BY <2>1, <2>2, <2>3, OneCommandMoves
<1>5. ASSUME NEW c \in Commands, Settle(c) PROVE StrayInv'
  <2>1. UNCHANGED <<mode, node, asked>> /\ Machine(c) \in Ranks
    BY <1>5 DEF Settle, ProcessTypes
  <2>2. CASE command' = [command EXCEPT ![c] = "watch"] /\ UNCHANGED <<pidFile, overwritten>>
    <3>1. ProcessTypes'
      BY <2>1, <2>2, SamePlaces DEF ProcessTypes
    <3>2. command'[c] = "watch" /\ \A d \in Commands \ {c} : command'[d] = command[d]
      BY <2>2 DEF ProcessTypes
    <3>. QED
      BY <2>1, <2>2, <3>1, <3>2, OneCommandMoves
  <2>3. CASE /\ command' = [command EXCEPT ![c] = "ended"]
             /\ pidFile' = [pidFile EXCEPT ![Machine(c)] = Pids(c)]
             /\ overwritten' = overwritten \union pidFile[Machine(c)]
    <3>1. Started(c) \subseteq Ranks
      BY DEF Started, ProcessTypes
    <3>2. Pids(c) \in SUBSET (Commands \X Ranks)
      BY <3>1 DEF Pids
    <3>3. pidFile' \in [Ranks -> SUBSET (Commands \X Ranks)]
      BY <2>1, <2>3, <3>2 DEF ProcessTypes
    <3>4. ProcessTypes' /\ \A d \in Commands : RanksOf(d)' = RanksOf(d) /\ Machine(d)' = Machine(d)
      BY <2>1, <2>3, <3>3, SamePlaces DEF ProcessTypes
    <3>5. command'[c] = "ended" /\ \A d \in Commands \ {c} : command'[d] = command[d]
      BY <2>3 DEF ProcessTypes
    <3>6. pidFile'[Machine(c)] = Pids(c)
      BY <2>1, <2>3 DEF ProcessTypes
    <3>7. \A k \in Ranks : pidFile[k] \subseteq pidFile'[k] \union overwritten'
      BY <2>1, <2>3 DEF ProcessTypes
    <3>8. \A r \in Alive(c)' : <<c, r>> \in pidFile'[Machine(c)]
      BY <2>1, <3>4, <3>6 DEF Alive, Started, Pids
    <3>. QED
      BY <2>1, <2>3, <3>4, <3>5, <3>7, <3>8, OneCommandMoves
  <2>. QED
    BY <1>5, <2>2, <2>3 DEF Settle
<1>6. ASSUME NEW c \in Commands, Terminate(c) PROVE StrayInv'
  <2>1. UNCHANGED <<mode, node, pidFile, overwritten>> /\ command'[c] = "stop" /\ asked \subseteq asked'
    BY <1>6 DEF Terminate, ProcessTypes
  <2>2. \A d \in Commands \ {c} : command'[d] = command[d] /\ node'[d] = node[d]
    BY <1>6 DEF Terminate, ProcessTypes
  <2>3. ProcessTypes'
    BY <1>6, <2>1, SamePlaces DEF Terminate, ProcessTypes
  <2>. QED
    BY <2>1, <2>2, <2>3, OneCommandMoves
<1>7. ASSUME NEW c \in Commands, Kill(c) PROVE StrayInv'
  <2>. DEFINE r == Min(Alive(c))
  <2>1. UNCHANGED <<mode, command, asked, pidFile, overwritten>> /\ command[c] = "stop"
    BY <1>7 DEF Kill
  <2>2. node' = [node EXCEPT ![c][r] = "exited"]
    BY <1>7 DEF Kill
  <2>. HIDE DEF r
  <2>3. /\ node' \in [Commands -> [Ranks -> {"none", "running", "exited"}]]
        /\ \A d \in Commands \ {c} : node'[d] = node[d]
    BY <2>2 DEF ProcessTypes
  <2>4. ProcessTypes'
    BY <2>1, <2>3, SamePlaces DEF ProcessTypes
  <2>. QED
    BY <2>1, <2>3, <2>4, OneCommandMoves
<1>8. ASSUME NEW c \in Commands, End(c) PROVE StrayInv'
  <2>1. UNCHANGED <<mode, node, asked, pidFile, overwritten>> /\ command'[c] = "ended" /\ Alive(c) = {}
    BY <1>8 DEF End, ProcessTypes
  <2>2. \A d \in Commands \ {c} : command'[d] = command[d] /\ node'[d] = node[d]
    BY <1>8 DEF End, ProcessTypes
  <2>3. ProcessTypes' /\ \A d \in Commands : RanksOf(d)' = RanksOf(d)
    BY <1>8, <2>1, SamePlaces DEF End, ProcessTypes
  <2>4. Alive(c)' = {}
    BY <2>1, <2>3 DEF Alive
  <2>. QED
    BY <2>1, <2>2, <2>3, <2>4, OneCommandMoves
<1>9. ASSUME NEW c \in Commands, NEW r \in RanksOf(c), Exit(c, r) PROVE StrayInv'
  <2>1. UNCHANGED <<mode, command, asked, pidFile, overwritten>>
    BY <1>9 DEF Exit
  <2>2. /\ node' \in [Commands -> [Ranks -> {"none", "running", "exited"}]]
        /\ \A d \in Commands \ {c} : node'[d] = node[d]
        /\ \A q \in Ranks : node'[c][q] = "running" => node[c][q] = "running"
    BY <1>9 DEF Exit, ProcessTypes
  <2>3. ProcessTypes' /\ \A d \in Commands : RanksOf(d)' = RanksOf(d)
    BY <2>1, <2>2, SamePlaces DEF ProcessTypes
  <2>4. Alive(c)' \subseteq Alive(c)
    BY <2>2, <2>3 DEF Alive, ProcessTypes
  <2>5. Machine(c) \in Ranks /\ \A q \in Alive(c) :
          \/ command[c] \in {"spawn", "watch", "stop", "crashed"}
          \/ <<c, q>> \in asked \union overwritten \union pidFile[Machine(c)]
    BY DEF ProcessTypes, NoStrays
  <2>. QED
    BY <2>1, <2>2, <2>3, <2>4, <2>5, OneCommandMoves DEF NoneYet
<1>10. ASSUME NEW k \in Ranks, NativeStop(k) PROVE StrayInv'
  <2>1. UNCHANGED <<mode, command, node, overwritten>>
    BY <1>10 DEF NativeStop
  <2>2. /\ pidFile' \in [Ranks -> SUBSET (Commands \X Ranks)]
        /\ \A j \in Ranks \ {k} : pidFile'[j] = pidFile[j]
    BY <1>10 DEF NativeStop, ProcessTypes
  <2>3. ProcessTypes' /\ \A d \in Commands : RanksOf(d)' = RanksOf(d) /\ Machine(d)' = Machine(d)
    BY <2>1, <2>2, SamePlaces DEF ProcessTypes
  <2>4. \A d \in Commands : Alive(d)' = Alive(d)
    BY <2>1, <2>3 DEF Alive
  <2>5. ASSUME NEW d \in Commands, NEW r \in Alive(d)
        PROVE  \/ command'[d] \in {"spawn", "watch", "stop", "crashed"}
               \/ <<d, r>> \in asked' \union overwritten' \union pidFile'[Machine(d)]
    <3>1. Machine(d) \in Ranks /\ node[d][r] = "running"
      BY <2>5 DEF ProcessTypes, Alive
    <3>2. <<d, r>> \in pidFile[k] => <<d, r>> \in asked'
      BY <1>10, <3>1 DEF NativeStop
    <3>. QED
      BY <1>10, <2>1, <2>2, <3>1, <3>2 DEF NativeStop, NoStrays
  <2>. QED
    BY <2>1, <2>3, <2>4, <2>5 DEF NoStrays, NoneYet
<1>. QED
  BY <1>1, <1>2, <1>3, <1>4, <1>5, <1>6, <1>7, <1>8, <1>9, <1>10
  DEF StartupNext, Launch, Exchange, Connecting, startupVars

(* A running node is watched by its command, named by a file, asked to     *)
(* exit, or lost in one of the two ways NoStrays names, whatever commands  *)
(* are given and whatever nodes exit.                                      *)
THEOREM NodesAreAccountedFor == StartupSpec => []NoStrays
<1>1. StrayInv => NoStrays
  BY DEF StrayInv
<1>. QED
  BY <1>1, StrayInit, StrayStep, PTL DEF StartupSpec

-----------------------------------------------------------------------------
(* The exchange of hardware: each node reports once and is answered once.  *)

Connection == [rank : Reporters, reports : BOOLEAN]

ExchangeTypes ==
  /\ root \in {"profile", "first", "reading", "between", "second", "done", "failed"}
  /\ accepted \in 0..(Size - 1)
  /\ reading \in Reporters \union {Nobody}
  /\ backlog \in Seq(Connection)
  /\ reporter \in [Reporters -> {"report", "return", "waiting", "done", "failed"}]
  /\ tries \in [Reporters -> 0..MaxTries]
  /\ hardware = [i \in 1..Size |-> hardware[i]]
  /\ known = [r \in Ranks |-> known[r]]
  /\ \A r \in Reporters : reporter[r] \in {"report", "return"} => tries[r] < MaxTries

(* A node has at most one connection of either kind in the backlog, and a  *)
(* connection of the second round belongs to a node that waits on it.      *)
BacklogInv ==
  /\ \A i, j \in DOMAIN backlog : backlog[i] = backlog[j] => i = j
  /\ \A i \in DOMAIN backlog :
       IF backlog[i].reports THEN reporter[backlog[i].rank] # "report"
                             ELSE reporter[backlog[i].rank] = "waiting"

(* The root has the report of r, and no other one will come. *)
Announced(r) ==
  /\ hardware[r + 1] = HardwareInfo(fleet[r + 1])
  /\ reporter[r] # "report"
  /\ \A i \in DOMAIN backlog : backlog[i].reports => backlog[i].rank # r

Answered(r) == reporter[r] = "done" /\ known[r] = known[0]

RoundsInv ==
  /\ hardware[1] = HardwareInfo(fleet[1])
  /\ root = "profile" => accepted = 0 /\ backlog = <<>>
  /\ root \in {"first", "reading"} =>
       \E A \in SUBSET Reporters : Cardinality(A) = accepted /\ \A r \in A : Announced(r)
  /\ root \in {"between", "second", "done"} =>
       /\ \A r \in Reporters : Announced(r)
       /\ known[0] = ComputeProportions(hardware)
  /\ root \in {"between", "second"} =>
       \E B \in SUBSET Reporters : Cardinality(B) = accepted /\ \A r \in B : Answered(r)
  /\ root = "done" => \A r \in Reporters : Answered(r)

ExchangeInv == ExchangeTypes /\ BacklogInv /\ RoundsInv

LEMMA ReportersAreFinite ==
  /\ Size \in Nat /\ Size > 1
  /\ Reporters \subseteq Ranks /\ 0 \in Ranks /\ 0 \notin Reporters
  /\ \A r \in Reporters : r \in Nat /\ r + 1 \in 1..Size /\ r + 1 # 1
  /\ IsFiniteSet(Reporters) /\ Cardinality(Reporters) = Size - 1
<1>1. Size \in Nat /\ Size > 1
  BY ExchangeAssumption
<1>2. /\ Reporters \subseteq Ranks /\ 0 \in Ranks /\ 0 \notin Reporters
      /\ \A r \in Reporters : r \in Nat /\ r + 1 \in 1..Size /\ r + 1 # 1
  BY <1>1 DEF Reporters, Ranks
<1>3. 1 \in Int /\ Size - 1 \in Int /\ ~(1 > Size - 1) /\ Size - 1 - 1 + 1 = Size - 1
  BY <1>1
<1>4. IsFiniteSet(Reporters) /\ Cardinality(Reporters) = Size - 1
  BY <1>3, FS_Interval DEF Reporters
<1>. QED
  BY <1>1, <1>2, <1>4

(* A set of reporters of the size of all is all of them, and a set that    *)
(* lacks one has room for one.                                             *)
LEMMA AllReporters ==
  ASSUME NEW A \in SUBSET Reporters
  PROVE  /\ IsFiniteSet(A) /\ Cardinality(A) \in Nat
         /\ Cardinality(A) = Size - 1 => A = Reporters
         /\ \A r \in Reporters \ A : /\ Cardinality(A \union {r}) = Cardinality(A) + 1
                                     /\ Cardinality(A) + 1 <= Size - 1
<1>1. IsFiniteSet(A) /\ Cardinality(A) \in Nat /\ (Cardinality(A) = Size - 1 => A = Reporters)
  BY ReportersAreFinite, FS_Subset, FS_CardinalityType
<1>2. ASSUME NEW r \in Reporters \ A
      PROVE  /\ Cardinality(A \union {r}) = Cardinality(A) + 1
             /\ Cardinality(A) + 1 <= Size - 1
  <2>1. Cardinality(A \union {r}) = Cardinality(A) + 1
    BY <1>1, FS_AddElement
  <2>2. A \union {r} \in SUBSET Reporters
    OBVIOUS
  <2>3. Cardinality(A \union {r}) <= Cardinality(Reporters)
    BY <2>2, ReportersAreFinite, FS_Subset
  <2>. QED
    BY <2>1, <2>3, ReportersAreFinite
<1>. QED
  BY <1>1, <1>2

(* The rest of a sequence, and a sequence with one element more. *)
LEMMA HeadAndTail ==
  ASSUME NEW S, NEW s \in Seq(S), s # <<>>
  PROVE  /\ Tail(s) \in Seq(S) /\ Head(s) \in S /\ Head(s) = s[1] /\ 1 \in DOMAIN s
         /\ \A i \in DOMAIN Tail(s) : i + 1 \in DOMAIN s /\ i + 1 # 1 /\ Tail(s)[i] = s[i + 1]
         /\ \A i, j \in DOMAIN Tail(s) : i + 1 = j + 1 => i = j
<1>1. Len(s) \in Nat /\ Len(s) # 0 /\ DOMAIN s = 1..Len(s)
  OBVIOUS
<1>2. Tail(s) \in Seq(S) /\ Len(Tail(s)) = Len(s) - 1 /\ Head(s) = s[1]
  BY <1>1
<1>3. DOMAIN Tail(s) = 1..(Len(s) - 1)
  BY <1>2
<1>4. \A i \in 1..(Len(s) - 1) : Tail(s)[i] = s[i + 1]
  BY <1>1
<1>5. \A i \in 1..(Len(s) - 1) : i \in Nat /\ i + 1 \in 1..Len(s) /\ i + 1 # 1
  BY <1>1
<1>6. 1 \in DOMAIN s
  BY <1>1
<1>. QED
  BY <1>1, <1>2, <1>3, <1>4, <1>5, <1>6

LEMMA OneAppended ==
  ASSUME NEW S, NEW s \in Seq(S), NEW x \in S
  PROVE  /\ Append(s, x) \in Seq(S)
         /\ \A i \in DOMAIN Append(s, x) :
              (i \in DOMAIN s /\ Append(s, x)[i] = s[i]) \/ (i = Len(s) + 1 /\ Append(s, x)[i] = x)
<1>1. Len(s) \in Nat /\ DOMAIN s = 1..Len(s)
  OBVIOUS
<1>2. Append(s, x) \in Seq(S) /\ DOMAIN Append(s, x) = 1..(Len(s) + 1)
  OBVIOUS
<1>3. \A i \in 1..Len(s) : Append(s, x)[i] = s[i]
  OBVIOUS
<1>4. Append(s, x)[Len(s) + 1] = x
  OBVIOUS
<1>5. \A i \in 1..(Len(s) + 1) : i \in 1..Len(s) \/ i = Len(s) + 1
  BY <1>1
<1>. QED
  BY <1>1, <1>2, <1>3, <1>4, <1>5

LEMMA ExchangeBegins == ExchangeInit => ExchangeInv
<1>. SUFFICES ASSUME ExchangeInit PROVE ExchangeInv
  OBVIOUS
<1>1. MaxTries \in Nat /\ 0 < MaxTries
  BY ExchangeAssumption
<1>2. ExchangeTypes
  <2>1. hardware = [i \in 1..Size |-> hardware[i]] /\ known = [r \in Ranks |-> known[r]]
    BY DEF ExchangeInit
  <2>2. \A r \in Reporters : reporter[r] = "report" /\ tries[r] = 0
    BY DEF ExchangeInit
  <2>3. tries \in [Reporters -> 0..MaxTries]
    BY <1>1 DEF ExchangeInit
  <2>4. accepted \in 0..(Size - 1)
    BY ReportersAreFinite DEF ExchangeInit
  <2>. QED
    BY <1>1, <2>1, <2>2, <2>3, <2>4 DEF ExchangeInit, ExchangeTypes
<1>3. BacklogInv
  BY DEF ExchangeInit, BacklogInv
<1>4. RoundsInv
  <2>1. hardware[1] = HardwareInfo(fleet[1])
    <3>1. 1 \in 1..Size
      BY ReportersAreFinite
    <3>. QED
      BY <3>1 DEF ExchangeInit
  <2>. QED
    BY <2>1 DEF ExchangeInit, RoundsInv
<1>. QED
  BY <1>2, <1>3, <1>4 DEF ExchangeInv

(* A root that listens begins a round that nobody has come to. *)
LEMMA ListeningStarts ==
  ASSUME ExchangeInv, RootListens \/ RootListensAgain
  PROVE  ExchangeInv'
<1>. USE DEF ExchangeInv
<1>1. UNCHANGED <<fleet, accepted, hardware, reading, backlog, reporter, tries, known>>
  BY DEF RootListens, RootListensAgain
<1>2. ExchangeTypes' /\ BacklogInv'
  BY <1>1 DEF ExchangeTypes, BacklogInv, RootListens, RootListensAgain
<1>3. /\ \A r \in Reporters : Announced(r)' <=> Announced(r)
      /\ \A r \in Reporters : Answered(r)' <=> Answered(r)
  BY <1>1 DEF Announced, Answered
<1>4. CASE RootListens
  <2>1. {} \in SUBSET Reporters /\ Cardinality({}) = accepted'
    BY <1>1, <1>4, FS_EmptySet DEF RootListens, RoundsInv
  <2>2. root' = "first" /\ hardware'[1] = HardwareInfo(fleet'[1])
    BY <1>1, <1>4 DEF RootListens, RoundsInv
  <2>3. \E A \in SUBSET Reporters : Cardinality(A) = accepted' /\ \A r \in A : Announced(r)'
    BY <2>1
  <2>. QED
    BY <1>2, <2>2, <2>3 DEF RoundsInv
<1>5. CASE RootListensAgain
  BY <1>1, <1>2, <1>3, <1>5 DEF RootListensAgain, RoundsInv
<1>. QED
  BY <1>4, <1>5

(* A node connects: for its report, which it has not sent before, or for   *)
(* its answer.                                                             *)
LEMMA ConnectingKeeps ==
  ASSUME ExchangeInv, NEW r \in Reporters, Connect(r)
  PROVE  ExchangeInv'
<1>. USE DEF ExchangeInv
<1>. DEFINE c == [rank |-> r, reports |-> reporter[r] = "report"]
<1>1. /\ Listening /\ reporter[r] \in {"report", "return"}
      /\ backlog' = Append(backlog, c)
      /\ reporter' = [reporter EXCEPT ![r] = IF @ = "report" THEN "return" ELSE "waiting"]
      /\ tries' = [tries EXCEPT ![r] = 0]
      /\ UNCHANGED <<fleet, root, accepted, hardware, reading, known>>
  BY DEF Connect
<1>2. c \in Connection /\ c.rank = r /\ (c.reports <=> reporter[r] = "report")
  BY DEF Connection
<1>. HIDE DEF c
<1>3. /\ reporter'[r] = IF reporter[r] = "report" THEN "return" ELSE "waiting"
      /\ \A q \in Reporters : q # r => reporter'[q] = reporter[q]
      /\ reporter' \in [Reporters -> {"report", "return", "waiting", "done", "failed"}]
  BY <1>1 DEF ExchangeTypes
<1>4. /\ backlog \in Seq(Connection) /\ backlog' \in Seq(Connection)
      /\ \A i \in DOMAIN backlog' : (i \in DOMAIN backlog /\ backlog'[i] = backlog[i])
                                      \/ (i = Len(backlog) + 1 /\ backlog'[i] = c)
      /\ \A i \in DOMAIN backlog : backlog[i].rank \in Reporters
  <2>1. backlog \in Seq(Connection)
    BY DEF ExchangeTypes
  <2>2. \A i \in DOMAIN backlog : backlog[i] \in Connection
    BY <2>1
  <2>. QED
    BY <1>1, <1>2, <2>1, <2>2, OneAppended DEF Connection
<1>5. ExchangeTypes'
  <2>1. tries'[r] = 0 /\ \A q \in Reporters : q # r => tries'[q] = tries[q]
    BY <1>1 DEF ExchangeTypes
  <2>2. MaxTries \in Nat /\ 0 < MaxTries
    BY ExchangeAssumption
  <2>3. tries' \in [Reporters -> 0..MaxTries]
    BY <1>1, <2>2 DEF ExchangeTypes
  <2>4. \A q \in Reporters : reporter'[q] \in {"report", "return"} => tries'[q] < MaxTries
    BY <1>3, <2>1, <2>2 DEF ExchangeTypes
  <2>5. hardware' = [i \in 1..Size |-> hardware'[i]] /\ known' = [q \in Ranks |-> known'[q]]
    BY <1>1 DEF ExchangeTypes
  <2>. QED
    BY <1>1, <1>3, <1>4, <2>3, <2>4, <2>5 DEF ExchangeTypes
<1>6. ASSUME NEW i \in DOMAIN backlog
      PROVE  /\ backlog[i] # c
             /\ IF backlog[i].reports THEN reporter'[backlog[i].rank] # "report"
                                      ELSE reporter'[backlog[i].rank] = "waiting"
  <2>1. IF backlog[i].reports THEN reporter[backlog[i].rank] # "report"
                              ELSE reporter[backlog[i].rank] = "waiting"
    BY DEF BacklogInv
  <2>2. backlog[i].rank = r => backlog[i].reports # c.reports
    BY <1>1, <1>2, <2>1
  <2>3. backlog[i] # c
    BY <1>2, <2>2
  <2>. QED
    BY <1>1, <1>3, <1>4, <2>1, <2>3
<1>7. BacklogInv'
  <2>1. ASSUME NEW i \in DOMAIN backlog', NEW j \in DOMAIN backlog', backlog'[i] = backlog'[j]
        PROVE  i = j
    BY <1>4, <1>6, <2>1 DEF BacklogInv
  <2>2. ASSUME NEW i \in DOMAIN backlog'
        PROVE  IF backlog'[i].reports THEN reporter'[backlog'[i].rank] # "report"
                                      ELSE reporter'[backlog'[i].rank] = "waiting"
    <3>1. CASE i \in DOMAIN backlog /\ backlog'[i] = backlog[i]
      BY <1>6, <3>1
    <3>2. CASE backlog'[i] = c
      BY <1>1, <1>2, <1>3, <3>2
    <3>. QED
      BY <1>4, <3>1, <3>2
  <2>. QED
    BY <2>1, <2>2 DEF BacklogInv
<1>8. ASSUME NEW q \in Reporters, Announced(q)
      PROVE  Announced(q)'
  <2>1. reporter'[q] # "report"
    BY <1>1, <1>3, <1>8 DEF Announced
  <2>2. ASSUME NEW i \in DOMAIN backlog', backlog'[i].reports PROVE backlog'[i].rank # q
    <3>1. CASE i \in DOMAIN backlog /\ backlog'[i] = backlog[i]
      BY <1>8, <2>2, <3>1 DEF Announced
    <3>2. CASE backlog'[i] = c
      BY <1>2, <1>8, <2>2, <3>2 DEF Announced
    <3>. QED
      BY <1>4, <3>1, <3>2
  <2>. QED
    BY <1>1, <1>8, <2>1, <2>2 DEF Announced
<1>9. ASSUME NEW q \in Reporters, Answered(q)
      PROVE  Answered(q)'
  BY <1>1, <1>3, <1>9 DEF Answered
<1>10. RoundsInv'
  <2>1. hardware'[1] = HardwareInfo(fleet'[1]) /\ root' # "profile" /\ root' # "done"
    BY <1>1 DEF RoundsInv, Listening
  <2>2. ASSUME root' \in {"first", "reading"}
        PROVE  \E A \in SUBSET Reporters : Cardinality(A) = accepted' /\ \A q \in A : Announced(q)'
    <3>1. PICK A \in SUBSET Reporters : Cardinality(A) = accepted /\ \A q \in A : Announced(q)
      BY <1>1, <2>2 DEF RoundsInv
    <3>. QED
      BY <1>1, <1>8, <3>1
  <2>3. ASSUME root' \in {"between", "second"}
        PROVE  \E B \in SUBSET Reporters : Cardinality(B) = accepted' /\ \A q \in B : Answered(q)'
    <3>1. PICK B \in SUBSET Reporters : Cardinality(B) = accepted /\ \A q \in B : Answered(q)
      BY <1>1, <2>3 DEF RoundsInv
    <3>. QED
      BY <1>1, <1>9, <3>1
  <2>4. ASSUME root' \in {"between", "second", "done"}
        PROVE  (\A q \in Reporters : Announced(q)') /\ known'[0] = ComputeProportions(hardware')
    BY <1>1, <1>8, <2>4 DEF RoundsInv
  <2>. QED
    BY <2>1, <2>2, <2>3, <2>4 DEF RoundsInv
<1>. QED
  BY <1>5, <1>7, <1>10

(* What is left of the backlog when its first connection is accepted.      *)
LEMMA FirstAccepted ==
  ASSUME ExchangeInv, backlog # <<>>, backlog' = Tail(backlog), reporter' = reporter
  PROVE  /\ backlog' \in Seq(Connection) /\ Head(backlog) \in Connection
         /\ BacklogInv'
         /\ \A i \in DOMAIN backlog' : backlog'[i] # Head(backlog)
         /\ \A i \in DOMAIN backlog' : \E j \in DOMAIN backlog : backlog'[i] = backlog[j]
         /\ IF Head(backlog).reports THEN reporter[Head(backlog).rank] # "report"
                                     ELSE reporter[Head(backlog).rank] = "waiting"
<1>1. backlog \in Seq(Connection)
  BY DEF ExchangeInv, ExchangeTypes
<1>2. /\ Tail(backlog) \in Seq(Connection) /\ Head(backlog) \in Connection
      /\ Head(backlog) = backlog[1] /\ 1 \in DOMAIN backlog
      /\ \A i \in DOMAIN Tail(backlog) :
           i + 1 \in DOMAIN backlog /\ i + 1 # 1 /\ Tail(backlog)[i] = backlog[i + 1]
      /\ \A i, j \in DOMAIN Tail(backlog) : i + 1 = j + 1 => i = j
  BY <1>1, HeadAndTail
<1>3. /\ \A i, j \in DOMAIN backlog : backlog[i] = backlog[j] => i = j
      /\ \A i \in DOMAIN backlog :
           IF backlog[i].reports THEN reporter[backlog[i].rank] # "report"
                                 ELSE reporter[backlog[i].rank] = "waiting"
  BY DEF ExchangeInv, BacklogInv
<1>4. \A i \in DOMAIN backlog' : backlog'[i] # Head(backlog)
  BY <1>2, <1>3
<1>5. \A i, j \in DOMAIN backlog' : backlog'[i] = backlog'[j] => i = j
  BY <1>2, <1>3
<1>6. \A i \in DOMAIN backlog' :
        IF backlog'[i].reports THEN reporter'[backlog'[i].rank] # "report"
                               ELSE reporter'[backlog'[i].rank] = "waiting"
  BY <1>2, <1>3
<1>. QED
  BY <1>2, <1>3, <1>4, <1>5, <1>6 DEF BacklogInv

LEMMA AcceptingKeeps ==
  ASSUME ExchangeInv, AcceptReport
  PROVE  ExchangeInv'
<1>. USE DEF ExchangeInv
<1>. DEFINE c == Head(backlog)
<1>1. /\ root = "first" /\ accepted < Size - 1 /\ backlog # <<>>
      /\ backlog' = Tail(backlog)
      /\ UNCHANGED <<fleet, reporter, tries, known>>
  BY DEF AcceptReport
<1>2. /\ backlog' \in Seq(Connection) /\ c \in Connection
      /\ BacklogInv'
      /\ \A i \in DOMAIN backlog' : backlog'[i] # c
      /\ \A i \in DOMAIN backlog' : \E j \in DOMAIN backlog : backlog'[i] = backlog[j]
      /\ IF c.reports THEN reporter[c.rank] # "report" ELSE reporter[c.rank] = "waiting"
  BY <1>1, FirstAccepted
<1>3. \/ /\ c.reports
         /\ hardware' = [hardware EXCEPT ![c.rank + 1] = HardwareInfo(fleet[c.rank + 1])]
         /\ accepted' = accepted + 1
         /\ UNCHANGED <<root, reading>>
      \/ /\ ~c.reports
         /\ root' = "reading" /\ reading' = c.rank /\ UNCHANGED <<accepted, hardware>>
  BY DEF AcceptReport
<1>. HIDE DEF c
<1>4. c.rank \in Reporters /\ c.reports \in BOOLEAN /\ c = [rank |-> c.rank, reports |-> c.reports]
  BY <1>2 DEF Connection
<1>5. /\ hardware' = [i \in 1..Size |-> hardware'[i]]
      /\ c.reports => hardware'[c.rank + 1] = HardwareInfo(fleet[c.rank + 1])
      /\ \A i \in 1..Size : i # c.rank + 1 => hardware'[i] = hardware[i]
  <2>1. hardware = [i \in 1..Size |-> hardware[i]]
    BY DEF ExchangeTypes
  <2>2. c.rank + 1 \in 1..Size
    BY <1>4, ReportersAreFinite
  <2>. QED
    BY <1>3, <2>1, <2>2
<1>6. hardware'[1] = HardwareInfo(fleet'[1])
  <2>1. 1 \in 1..Size /\ 1 # c.rank + 1
    BY <1>4, ReportersAreFinite
  <2>. QED
    BY <1>1, <1>5, <2>1 DEF RoundsInv
<1>7. PICK A \in SUBSET Reporters : Cardinality(A) = accepted /\ \A r \in A : Announced(r)
  BY <1>1 DEF RoundsInv
<1>8. ASSUME NEW r \in Reporters, Announced(r), ~(c.reports /\ c.rank = r)
      PROVE  Announced(r)'
  <2>1. hardware'[r + 1] = HardwareInfo(fleet'[r + 1])
    <3>1. r + 1 \in 1..Size /\ c.rank \in Nat /\ r \in Nat
      BY <1>4, ReportersAreFinite
    <3>2. CASE c.reports
      <4>1. r + 1 # c.rank + 1
        BY <1>8, <3>1, <3>2
      <4>. QED
        BY <1>1, <1>5, <1>8, <3>1, <4>1 DEF Announced
    <3>3. CASE ~c.reports
      BY <1>1, <1>3, <1>8, <3>3 DEF Announced
    <3>. QED
      BY <3>2, <3>3
  <2>2. \A i \in DOMAIN backlog' : backlog'[i].reports => backlog'[i].rank # r
    BY <1>2, <1>8 DEF Announced
  <2>. QED
    BY <1>1, <1>8, <2>1, <2>2 DEF Announced
<1>9. CASE c.reports
  <2>1. c.rank \notin A
    <3>1. \E j \in DOMAIN backlog : backlog[j] = c
      BY <1>1, HeadAndTail DEF c, ExchangeTypes
    <3>2. ~Announced(c.rank)
      BY <1>9, <3>1 DEF Announced
    <3>. QED
      BY <1>7, <3>2
  <2>2. /\ Cardinality(A \union {c.rank}) = Cardinality(A) + 1 /\ Cardinality(A) + 1 <= Size - 1
        /\ Cardinality(A) \in Nat
    BY <1>4, <2>1, AllReporters
  <2>3. ASSUME NEW q \in Reporters, q = c.rank PROVE Announced(q)'
    <3>1. ASSUME NEW i \in DOMAIN backlog', backlog'[i].reports PROVE backlog'[i].rank # c.rank
      <4>1. backlog'[i] \in Connection
        BY <1>2
      <4>2. backlog'[i] = [rank |-> backlog'[i].rank, reports |-> backlog'[i].reports]
            /\ backlog'[i].reports \in BOOLEAN
        BY <4>1 DEF Connection
      <4>3. backlog'[i].reports = c.reports
        BY <1>4, <1>9, <3>1, <4>2
      <4>. QED
        BY <1>2, <1>4, <4>2, <4>3
    <3>. QED
      BY <1>1, <1>2, <1>5, <1>9, <2>3, <3>1 DEF Announced
  <2>4. \A r \in A \union {c.rank} : Announced(r)'
    BY <1>4, <1>7, <1>8, <2>1, <2>3
  <2>5. accepted' = Cardinality(A \union {c.rank}) /\ accepted' \in 0..(Size - 1)
        /\ root' = "first" /\ reading' = reading
    BY <1>1, <1>3, <1>7, <1>9, <2>2
  <2>6. \E D \in SUBSET Reporters : Cardinality(D) = accepted' /\ \A r \in D : Announced(r)'
    <3>1. A \union {c.rank} \in SUBSET Reporters
      BY <1>4
    <3>. QED
      BY <2>4, <2>5, <3>1
  <2>7. RoundsInv'
    BY <1>6, <2>5, <2>6 DEF RoundsInv
  <2>8. ExchangeTypes'
    BY <1>1, <1>2, <1>5, <2>5 DEF ExchangeTypes
  <2>. QED
    BY <1>2, <2>7, <2>8
<1>10. CASE ~c.reports
  <2>1. root' = "reading" /\ reading' \in Reporters /\ accepted' = accepted
    BY <1>3, <1>4, <1>10
  <2>2. \E D \in SUBSET Reporters : Cardinality(D) = accepted' /\ \A r \in D : Announced(r)'
    BY <1>7, <1>8, <1>10, <2>1
  <2>3. RoundsInv'
    BY <1>6, <2>1, <2>2 DEF RoundsInv
  <2>4. ExchangeTypes'
    BY <1>1, <1>2, <1>5, <2>1 DEF ExchangeTypes
  <2>. QED
    BY <1>2, <2>3, <2>4
<1>. QED
  BY <1>9, <1>10

(* The first round is over: every node has reported. *)
LEMMA ComputingKeeps ==
  ASSUME ExchangeInv, RootComputes
  PROVE  ExchangeInv'
<1>. USE DEF ExchangeInv
<1>1. /\ root = "first" /\ accepted = Size - 1 /\ root' = "between"
      /\ backlog' = <<>>
      /\ reporter' = [r \in Reporters |-> IF r \in Resets THEN "failed" ELSE reporter[r]]
      /\ known' = [known EXCEPT ![0] = ComputeProportions(hardware)]
      /\ accepted' = 0
      /\ UNCHANGED <<fleet, hardware, reading, tries>>
  BY DEF RootComputes, CloseSocket
<1>2. \A r \in Reporters : Announced(r)
  <2>1. PICK A \in SUBSET Reporters : Cardinality(A) = accepted /\ \A r \in A : Announced(r)
    BY <1>1 DEF RoundsInv
  <2>2. A = Reporters
    BY <1>1, <2>1, AllReporters
  <2>. QED
    BY <2>1, <2>2
<1>3. /\ reporter' \in [Reporters -> {"report", "return", "waiting", "done", "failed"}]
      /\ \A r \in Reporters : reporter'[r] = reporter[r] \/ reporter'[r] = "failed"
  BY <1>1 DEF ExchangeTypes
<1>4. \A r \in Reporters : Announced(r)'
  BY <1>1, <1>2, <1>3 DEF Announced
<1>5. /\ known' = [r \in Ranks |-> known'[r]]
      /\ known'[0] = ComputeProportions(hardware')
  <2>1. known = [r \in Ranks |-> known[r]]
    BY DEF ExchangeTypes
  <2>. DEFINE p == ComputeProportions(hardware)
  <2>2. known' = [known EXCEPT ![0] = p] /\ ComputeProportions(hardware') = p
    BY <1>1
  <2>. HIDE DEF p
  <2>. QED
    BY <2>1, <2>2, ReportersAreFinite
<1>6. ExchangeTypes'
  <2>1. hardware' = [i \in 1..Size |-> hardware'[i]]
    BY <1>1 DEF ExchangeTypes
  <2>2. accepted' \in 0..(Size - 1)
    BY <1>1, ReportersAreFinite
  <2>3. backlog' \in Seq(Connection)
    BY <1>1
  <2>4. /\ reading' \in Reporters \union {Nobody}
        /\ tries' \in [Reporters -> 0..MaxTries]
        /\ \A r \in Reporters : reporter'[r] \in {"report", "return"} => tries'[r] < MaxTries
    BY <1>1, <1>3 DEF ExchangeTypes
  <2>. QED
    BY <1>1, <1>3, <1>5, <2>1, <2>2, <2>3, <2>4 DEF ExchangeTypes
<1>7. BacklogInv'
  BY <1>1 DEF BacklogInv
<1>8. RoundsInv'
  <2>1. {} \in SUBSET Reporters /\ Cardinality({}) = accepted'
    BY <1>1, FS_EmptySet
  <2>2. \E B \in SUBSET Reporters : Cardinality(B) = accepted' /\ \A r \in B : Answered(r)'
    BY <2>1
  <2>3. hardware'[1] = HardwareInfo(fleet'[1])
    BY <1>1 DEF RoundsInv
  <2>. QED
    BY <1>1, <1>4, <1>5, <2>2, <2>3 DEF RoundsInv
<1>. QED
  BY <1>6, <1>7, <1>8

(* In the second round only nodes that wait for their answer are left, and *)
(* each is answered once.                                                  *)
LEMMA AnsweringKeeps ==
  ASSUME ExchangeInv, Answers
  PROVE  ExchangeInv'
<1>. USE DEF ExchangeInv
<1>. DEFINE c == Head(backlog)
<1>1. /\ root = "second" /\ backlog # <<>>
      /\ backlog' = Tail(backlog)
      /\ accepted' = accepted + 1
      /\ root' = IF accepted + 1 = Size - 1 THEN "done" ELSE "second"
      /\ UNCHANGED <<fleet, hardware, reading, tries>>
  BY DEF Answers
<1>2. /\ Tail(backlog) \in Seq(Connection) /\ c \in Connection
      /\ c = backlog[1] /\ 1 \in DOMAIN backlog
      /\ \A i \in DOMAIN Tail(backlog) :
           i + 1 \in DOMAIN backlog /\ i + 1 # 1 /\ Tail(backlog)[i] = backlog[i + 1]
      /\ \A i, j \in DOMAIN Tail(backlog) : i + 1 = j + 1 => i = j
  BY <1>1, HeadAndTail DEF ExchangeTypes
<1>3. \A r \in Reporters : Announced(r)
  BY <1>1 DEF RoundsInv
<1>4. c.rank \in Reporters /\ c.reports \in BOOLEAN /\ ~c.reports
  <2>1. c.rank \in Reporters /\ c.reports \in BOOLEAN
    BY <1>2 DEF Connection
  <2>2. Announced(c.rank)
    BY <1>3, <2>1
  <2>. QED
    BY <1>2, <2>1, <2>2 DEF Announced
<1>5. /\ known' = [known EXCEPT ![c.rank] = known[0]]
      /\ reporter' = [reporter EXCEPT ![c.rank] = "done"]
  BY <1>4 DEF Answers
<1>. HIDE DEF c
<1>6. /\ known' = [r \in Ranks |-> known'[r]] /\ known'[c.rank] = known[0] /\ known'[0] = known[0]
      /\ \A r \in Ranks : r # c.rank => known'[r] = known[r]
  <2>1. known = [r \in Ranks |-> known[r]]
    BY DEF ExchangeTypes
  <2>2. c.rank \in Ranks /\ 0 \in Ranks /\ c.rank # 0
    BY <1>4, ReportersAreFinite
  <2>. QED
    BY <1>5, <2>1, <2>2
<1>7. /\ reporter' \in [Reporters -> {"report", "return", "waiting", "done", "failed"}]
      /\ reporter'[c.rank] = "done"
      /\ \A r \in Reporters : r # c.rank => reporter'[r] = reporter[r]
  BY <1>4, <1>5 DEF ExchangeTypes
<1>8. reporter[c.rank] = "waiting"
  BY <1>2, <1>4 DEF BacklogInv
<1>9. ASSUME NEW i \in DOMAIN backlog'
      PROVE  /\ i + 1 \in DOMAIN backlog /\ backlog'[i] = backlog[i + 1]
             /\ backlog'[i].rank \in Reporters /\ ~backlog'[i].reports
             /\ backlog'[i].rank # c.rank
             /\ reporter[backlog'[i].rank] = "waiting"
  <2>1. i + 1 \in DOMAIN backlog /\ i + 1 # 1 /\ backlog'[i] = backlog[i + 1]
    BY <1>1, <1>2
  <2>2. backlog'[i] \in Connection
    BY <1>1, <1>2
  <2>3. backlog'[i].rank \in Reporters /\ backlog'[i].reports \in BOOLEAN
        /\ backlog'[i] = [rank |-> backlog'[i].rank, reports |-> backlog'[i].reports]
    BY <2>2 DEF Connection
  <2>4. Announced(backlog'[i].rank)
    BY <1>3, <2>3
  <2>5. ~backlog'[i].reports
    BY <2>1, <2>4 DEF Announced
  <2>6. backlog'[i] # c
    BY <1>2, <2>1 DEF BacklogInv
  <2>7. c = [rank |-> c.rank, reports |-> c.reports]
    BY <1>2 DEF Connection
  <2>8. backlog'[i].reports = c.reports
    BY <1>4, <2>3, <2>5
  <2>9. backlog'[i].rank # c.rank
    BY <2>3, <2>6, <2>7, <2>8
  <2>10. reporter[backlog'[i].rank] = "waiting"
    BY <2>1, <2>5 DEF BacklogInv
  <2>. QED
    BY <2>1, <2>3, <2>5, <2>9, <2>10
<1>10. BacklogInv'
  <2>1. \A i, j \in DOMAIN backlog' : backlog'[i] = backlog'[j] => i = j
    BY <1>1, <1>2 DEF BacklogInv
  <2>2. \A i \in DOMAIN backlog' : ~backlog'[i].reports /\ reporter'[backlog'[i].rank] = "waiting"
    BY <1>7, <1>9
  <2>. QED
    BY <2>1, <2>2 DEF BacklogInv
<1>11. \A r \in Reporters : Announced(r)'
  <2>1. ASSUME NEW r \in Reporters PROVE Announced(r)'
    <3>1. reporter'[r] # "report"
      BY <1>3, <1>7 DEF Announced
    <3>2. \A i \in DOMAIN backlog' : backlog'[i].reports => backlog'[i].rank # r
      BY <1>9
    <3>. QED
      BY <1>1, <1>3, <3>1, <3>2 DEF Announced
  <2>. QED
    BY <2>1
<1>12. PICK B \in SUBSET Reporters : Cardinality(B) = accepted /\ \A r \in B : Answered(r)
  BY <1>1 DEF RoundsInv
<1>13. c.rank \notin B
  BY <1>8, <1>12 DEF Answered
<1>14. /\ Cardinality(B \union {c.rank}) = Cardinality(B) + 1 /\ Cardinality(B) + 1 <= Size - 1
       /\ Cardinality(B) \in Nat /\ B \union {c.rank} \in SUBSET Reporters
  BY <1>4, <1>13, AllReporters
<1>15. \A r \in B \union {c.rank} : Answered(r)'
  <2>1. ASSUME NEW r \in B PROVE Answered(r)'
    <3>1. r \in Ranks /\ r \in Reporters /\ r # c.rank
      BY <1>13, ReportersAreFinite
    <3>. QED
      BY <1>6, <1>7, <1>12, <3>1 DEF Answered
  <2>2. ASSUME NEW q \in Reporters, q = c.rank PROVE Answered(q)'
    BY <1>6, <1>7, <2>2 DEF Answered
  <2>. QED
    BY <1>4, <2>1, <2>2
<1>16. accepted' = Cardinality(B \union {c.rank}) /\ accepted' \in 0..(Size - 1)
  BY <1>1, <1>12, <1>14
<1>17. root' = "done" => \A r \in Reporters : Answered(r)'
  <2>1. ASSUME root' = "done" PROVE B \union {c.rank} = Reporters
    <3>1. Cardinality(B \union {c.rank}) = Size - 1
      BY <1>1, <1>16, <2>1
    <3>. QED
      BY <1>14, <3>1, AllReporters
  <2>. QED
    BY <1>15, <2>1
<1>18. RoundsInv'
  <2>1. root' \in {"second", "done"}
    BY <1>1
  <2>2. \E D \in SUBSET Reporters : Cardinality(D) = accepted' /\ \A r \in D : Answered(r)'
    BY <1>14, <1>15, <1>16
  <2>3. known'[0] = ComputeProportions(hardware') /\ hardware'[1] = HardwareInfo(fleet'[1])
    BY <1>1, <1>6 DEF RoundsInv
  <2>. QED
    BY <1>11, <1>17, <2>1, <2>2, <2>3 DEF RoundsInv
<1>19. ExchangeTypes'
  <2>1. hardware' = [i \in 1..Size |-> hardware'[i]]
    BY <1>1 DEF ExchangeTypes
  <2>2. /\ reading' \in Reporters \union {Nobody}
        /\ tries' \in [Reporters -> 0..MaxTries]
        /\ \A r \in Reporters : reporter'[r] \in {"report", "return"} => tries'[r] < MaxTries
    BY <1>1, <1>7 DEF ExchangeTypes
  <2>. QED
    BY <1>1, <1>2, <1>6, <1>7, <1>16, <2>1, <2>2 DEF ExchangeTypes
<1>. QED
  BY <1>10, <1>18, <1>19

(* A node gives up after its last attempt. *)
LEMMA RefusalKeeps ==
  ASSUME ExchangeInv, NEW r \in Reporters, Refused(r)
  PROVE  ExchangeInv'
<1>. USE DEF ExchangeInv
<1>1. /\ ~Listening /\ reporter[r] \in {"report", "return"}
      /\ tries' = [tries EXCEPT ![r] = @ + 1]
      /\ reporter' = [reporter EXCEPT ![r] = IF tries[r] + 1 = MaxTries THEN "failed" ELSE @]
      /\ UNCHANGED <<fleet, root, accepted, hardware, reading, backlog, known>>
  BY DEF Refused
<1>2. /\ tries[r] \in Nat /\ tries[r] < MaxTries /\ MaxTries \in Nat
      /\ tries'[r] = tries[r] + 1
      /\ \A q \in Reporters : q # r => tries'[q] = tries[q]
  BY <1>1, ExchangeAssumption DEF ExchangeTypes
<1>3. /\ reporter' \in [Reporters -> {"report", "return", "waiting", "done", "failed"}]
      /\ reporter'[r] = IF tries[r] + 1 = MaxTries THEN "failed" ELSE reporter[r]
      /\ \A q \in Reporters : q # r => reporter'[q] = reporter[q]
  BY <1>1 DEF ExchangeTypes
<1>4. ExchangeTypes'
  <2>1. tries' \in [Reporters -> 0..MaxTries]
    BY <1>1, <1>2 DEF ExchangeTypes
  <2>2. \A q \in Reporters : reporter'[q] \in {"report", "return"} => tries'[q] < MaxTries
    <3>1. reporter'[r] \in {"report", "return"} => tries'[r] < MaxTries
      BY <1>2, <1>3
    <3>. QED
      BY <1>2, <1>3, <3>1 DEF ExchangeTypes
  <2>3. /\ hardware' = [i \in 1..Size |-> hardware'[i]]
        /\ known' = [q \in Ranks |-> known'[q]]
    BY <1>1 DEF ExchangeTypes
  <2>. QED
    BY <1>1, <1>3, <2>1, <2>2, <2>3 DEF ExchangeTypes
<1>5. \A q \in Reporters : reporter[q] \in {"waiting", "done"} => reporter'[q] = reporter[q]
  BY <1>1, <1>3
<1>6. \A q \in Reporters : reporter[q] # "report" => reporter'[q] # "report"
  BY <1>3
<1>7. \A i \in DOMAIN backlog : backlog[i].rank \in Reporters
  <2>1. \A i \in DOMAIN backlog : backlog[i] \in Connection
    BY DEF ExchangeTypes
  <2>. QED
    BY <2>1 DEF Connection
<1>8. BacklogInv'
  BY <1>1, <1>5, <1>6, <1>7 DEF BacklogInv
<1>9. \A q \in Reporters : (Announced(q) => Announced(q)') /\ (Answered(q) => Answered(q)')
  BY <1>1, <1>5, <1>6 DEF Announced, Answered
<1>10. RoundsInv'
  <2>1. ASSUME root' \in {"between", "second"}
        PROVE  \E B \in SUBSET Reporters : Cardinality(B) = accepted' /\ \A q \in B : Answered(q)'
    <3>1. PICK B \in SUBSET Reporters : Cardinality(B) = accepted /\ \A q \in B : Answered(q)
      BY <1>1, <2>1 DEF RoundsInv
    <3>. QED
      BY <1>1, <1>9, <3>1
  <2>2. root' \notin {"first", "reading"}
    BY <1>1 DEF Listening
  <2>3. /\ hardware'[1] = HardwareInfo(fleet'[1])
        /\ root' = "profile" => accepted' = 0 /\ backlog' = <<>>
    BY <1>1 DEF RoundsInv
  <2>4. root' \in {"between", "second", "done"} =>
          /\ \A q \in Reporters : Announced(q)'
          /\ known'[0] = ComputeProportions(hardware')
    BY <1>1, <1>9 DEF RoundsInv
  <2>5. root' = "done" => \A q \in Reporters : Answered(q)'
    BY <1>1, <1>9 DEF RoundsInv
  <2>. QED
    BY <2>1, <2>2, <2>3, <2>4, <2>5 DEF RoundsInv
<1>. QED
  BY <1>4, <1>8, <1>10

LEMMA ExchangeStep == ExchangeInv /\ (ExchangeNext \/ UNCHANGED exchangeVars) => ExchangeInv'
<1>. SUFFICES ASSUME ExchangeInv, ExchangeNext \/ UNCHANGED exchangeVars PROVE ExchangeInv'
  OBVIOUS
<1>1. CASE RootListens \/ RootListensAgain
  BY <1>1, ListeningStarts
<1>2. CASE AcceptReport
  BY <1>2, AcceptingKeeps
<1>3. CASE RootComputes
  BY <1>3, ComputingKeeps
<1>4. CASE Answers
  BY <1>4, AnsweringKeeps
<1>5. CASE AcceptTimesOut
  <2>1. root' = "failed" /\ UNCHANGED <<fleet, accepted, hardware, reading, backlog, reporter, tries, known>>
    BY <1>5 DEF AcceptTimesOut
  <2>2. ExchangeTypes' /\ BacklogInv' /\ RoundsInv'
    BY <2>1 DEF ExchangeInv, ExchangeTypes, BacklogInv, RoundsInv
  <2>. QED
    BY <2>2 DEF ExchangeInv
<1>6. CASE \E r \in Reporters : Connect(r) \/ Refused(r)
  BY <1>6, ConnectingKeeps, RefusalKeeps
<1>7. CASE UNCHANGED exchangeVars
  <2>1. UNCHANGED <<fleet, root, accepted, hardware, reading, backlog, reporter, tries, known>>
    BY <1>7 DEF exchangeVars
  <2>2. \A q \in Reporters : (Announced(q)' <=> Announced(q)) /\ (Answered(q)' <=> Answered(q))
    BY <2>1 DEF Announced, Answered
  <2>3. ExchangeTypes' /\ BacklogInv'
    BY <2>1 DEF ExchangeInv, ExchangeTypes, BacklogInv
  <2>4. RoundsInv'
    BY <2>1, <2>2 DEF ExchangeInv, RoundsInv
  <2>. QED
    BY <2>3, <2>4 DEF ExchangeInv
<1>. QED
  BY <1>1, <1>2, <1>3, <1>4, <1>5, <1>6, <1>7 DEF ExchangeNext

LEMMA ExchangeInductive == StartupSpec => []ExchangeInv
<1>1. StartupInit => ExchangeInv
  BY ExchangeBegins DEF StartupInit
<1>2. ExchangeInv /\ [StartupNext]_startupVars => ExchangeInv'
  <2>. SUFFICES ASSUME ExchangeInv, [StartupNext]_startupVars PROVE ExchangeInv'
    OBVIOUS
  <2>1. ExchangeNext \/ UNCHANGED exchangeVars
    <3>1. CASE Exchange
      BY <3>1 DEF Exchange
    <3>2. CASE Connecting
      BY <3>2 DEF Connecting
    <3>3. CASE Launch
      BY <3>3 DEF Launch, Begin, Spawn, SpawnFails, Settle, Terminate, Kill, End, NativeStop,
                  Exit, otherVars
    <3>4. CASE UNCHANGED startupVars
      BY <3>4 DEF startupVars, otherVars
    <3>. QED
      BY <3>1, <3>2, <3>3, <3>4 DEF StartupNext
  <2>. QED
    BY <2>1, ExchangeStep
<1>. QED
  BY <1>1, <1>2, PTL DEF StartupSpec

(* When the root has answered everybody, every node of the pipeline, of    *)
(* any size, has the proportions of the hardware that all have reported.   *)
THEOREM ProportionsReachEveryNode == StartupSpec => []RootGoesLast
<1>1. ExchangeInv => RootGoesLast
  <2>. SUFFICES ASSUME ExchangeInv, root = "done", NEW r \in Ranks
                PROVE  known[r] = ComputeProportions([i \in 1..Size |-> HardwareInfo(fleet[i])])
    BY DEF RootGoesLast
  <2>1. /\ \A q \in Reporters : Announced(q) /\ Answered(q)
        /\ known[0] = ComputeProportions(hardware)
        /\ hardware[1] = HardwareInfo(fleet[1])
        /\ hardware = [i \in 1..Size |-> hardware[i]]
    BY DEF ExchangeInv, RoundsInv, ExchangeTypes
  <2>2. ASSUME NEW i \in 1..Size PROVE hardware[i] = HardwareInfo(fleet[i])
    <3>1. CASE i = 1
      BY <2>1, <3>1
    <3>2. CASE i # 1
      <4>1. i - 1 \in Reporters /\ (i - 1) + 1 = i
        BY <3>2, ReportersAreFinite DEF Reporters
      <4>. QED
        BY <2>1, <4>1 DEF Announced
    <3>. QED
      BY <3>1, <3>2
  <2>3. hardware = [i \in 1..Size |-> HardwareInfo(fleet[i])]
    BY <2>1, <2>2
  <2>4. known[r] = known[0]
    <3>1. r = 0 \/ r \in Reporters
      BY ReportersAreFinite DEF Ranks, Reporters
    <3>. QED
      BY <2>1, <3>1 DEF Answered
  <2>. QED
    BY <2>1, <2>3, <2>4
<1>. QED
  BY <1>1, ExchangeInductive, PTL

(* SIGTERM is only sent to processes that have been started. *)
AskedInv == asked \subseteq Commands \X Ranks /\ \A p \in asked : node[p[1]][p[2]] # "none"

LEMMA AskedStep == StrayInv /\ AskedInv /\ [StartupNext]_startupVars => AskedInv'
<1>. SUFFICES ASSUME StrayInv, AskedInv, [StartupNext]_startupVars PROVE AskedInv'
  OBVIOUS
<1>. USE DEF StrayInv, ProcessTypes
<1>1. CASE UNCHANGED <<node, asked>>
  BY <1>1 DEF AskedInv
<1>2. ASSUME NEW c \in Commands, NEW r, NEW v \in {"running", "exited"},
             node' = [node EXCEPT ![c][r] = v], UNCHANGED asked
      PROVE  AskedInv'
  <2>1. \A p \in Commands \X Ranks : node[p[1]][p[2]] # "none" => node'[p[1]][p[2]] # "none"
    <3>1. ASSUME NEW d \in Commands, NEW q \in Ranks
          PROVE  node'[d][q] = node[d][q] \/ node'[d][q] = v
      <4>1. node[d] = [s \in Ranks |-> node[d][s]]
        OBVIOUS
      <4>2. node'[d] = IF d = c THEN [node[d] EXCEPT ![r] = v] ELSE node[d]
        BY <1>2
      <4>. QED
        BY <4>1, <4>2
    <3>. QED
      BY <3>1
  <2>. QED
    BY <1>2, <2>1 DEF AskedInv
<1>3. ASSUME NEW c \in Commands, Terminate(c) PROVE AskedInv'
  <2>1. node' = node /\ asked' = asked \union {<<c, r>> : r \in Alive(c)}
    BY <1>3 DEF Terminate
  <2>2. \A r \in Alive(c) : r \in Ranks /\ node[c][r] = "running"
    BY DEF Alive
  <2>. QED
    BY <2>1, <2>2 DEF AskedInv
<1>4. ASSUME NEW k \in Ranks, NativeStop(k) PROVE AskedInv'
  <2>1. node' = node /\ asked' = asked \union {p \in pidFile[k] : node[p[1]][p[2]] = "running"}
    BY <1>4 DEF NativeStop
  <2>2. pidFile[k] \subseteq Commands \X Ranks
    OBVIOUS
  <2>. QED
    BY <2>1, <2>2 DEF AskedInv
<1>5. CASE Launch
  <2>1. ASSUME NEW c \in Commands, Begin(c) \/ SpawnFails(c) \/ Settle(c) \/ End(c)
        PROVE  UNCHANGED <<node, asked>>
    BY <2>1 DEF Begin, SpawnFails, Settle, End
  <2>2. ASSUME NEW c \in Commands, Spawn(c) PROVE AskedInv'
    <3>. DEFINE r == Min(RanksOf(c) \ Started(c))
    <3>1. node' = [node EXCEPT ![c][r] = "running"] /\ UNCHANGED asked
      BY <2>2 DEF Spawn
    <3>. HIDE DEF r
    <3>. QED
      BY <1>2, <3>1
  <2>3. ASSUME NEW c \in Commands, Kill(c) PROVE AskedInv'
    <3>. DEFINE r == Min(Alive(c))
    <3>1. node' = [node EXCEPT ![c][r] = "exited"] /\ UNCHANGED asked
      BY <2>3 DEF Kill
    <3>. HIDE DEF r
    <3>. QED
      BY <1>2, <3>1
  <2>4. ASSUME NEW c \in Commands, NEW r \in RanksOf(c), Exit(c, r) PROVE AskedInv'
    BY <1>2, <2>4 DEF Exit
  <2>. QED
    BY <1>1, <1>3, <1>4, <1>5, <2>1, <2>2, <2>3, <2>4 DEF Launch
<1>6. CASE Exchange \/ Connecting \/ UNCHANGED startupVars
  BY <1>1, <1>6 DEF Exchange, Connecting, startupVars, launchVars
<1>. QED
  BY <1>5, <1>6 DEF StartupNext

(* The fields of the exchange, of the commands and of their processes keep *)
(* their types, for any number of nodes and attempts.                      *)
THEOREM StartupTypes == StartupSpec => []StartupTypeOK
<1>1. StartupInit => AskedInv
  BY DEF StartupInit, AskedInv
<1>2. StrayInv /\ AskedInv /\ ExchangeInv => StartupTypeOK
  BY DEF StrayInv, ProcessTypes, AskedInv, ExchangeInv, ExchangeTypes, Connection, StartupTypeOK
<1>. QED
  BY <1>1, <1>2, StrayInit, StrayStep, AskedStep, ExchangeInductive, PTL DEF StartupSpec

-----------------------------------------------------------------------------
(* How the layers are divided. *)

(* Those whose fraction is larger, of equal ones the later. *)
Ahead(fraction, n, i) == {j \in 1..n : fraction[j] > fraction[i] \/ (fraction[j] = fraction[i] /\ j > i)}

(* k stages have fewer than k others ahead of them. *)
LEMMA LargestFractions ==
  ASSUME NEW n \in Nat, NEW f, \A i \in 1..n : f[i] \in Int, NEW k \in 0..n
  PROVE  Cardinality({i \in 1..n : Cardinality(Ahead(f, n, i)) < k}) = k
<1> DEFINE D == 1..n
           rank == [i \in D |-> Cardinality(Ahead(f, n, i))]
           T == 0..(Cardinality(D) - 1)
<1>1. IsFiniteSet(D) /\ Cardinality(D) = n
  BY RangeFinite
<1>2. ASSUME NEW i \in D
      PROVE  Ahead(f, n, i) \in SUBSET D /\ i \notin Ahead(f, n, i) /\ IsFiniteSet(Ahead(f, n, i))
  <2>1. f[i] \in Int /\ i \in Int
    OBVIOUS
  <2>2. Ahead(f, n, i) \in SUBSET D /\ i \notin Ahead(f, n, i)
    BY <2>1 DEF Ahead
  <2> HIDE DEF D
  <2> QED BY <1>1, <2>2, FS_Subset
<1>3. ASSUME NEW i \in D
      PROVE  rank[i] \in T
  <2> DEFINE A == Ahead(f, n, i)
  <2>1. A \in SUBSET D /\ A # D /\ IsFiniteSet(A)
    BY <1>2
  <2> HIDE DEF A, D
  <2>2. Cardinality(A) <= n /\ Cardinality(A) # n /\ Cardinality(A) \in Nat
    BY <1>1, <2>1, FS_Subset, FS_CardinalityType
  <2>3. rank[i] = Cardinality(A)
    BY DEF A
  <2> QED BY <1>1, <2>2, <2>3
<1>4. ASSUME NEW i \in D, NEW j \in D, j \in Ahead(f, n, i)
      PROVE  rank[i] # rank[j]
  <2> DEFINE A == Ahead(f, n, i)
             B == Ahead(f, n, j)
  <2>1. f[i] \in Int /\ f[j] \in Int /\ (f[j] > f[i] \/ (f[j] = f[i] /\ j > i))
    BY <1>4 DEF Ahead
  <2>2. ASSUME NEW m \in B
        PROVE  m \in A
    <3>1. m \in D /\ f[m] \in Int /\ (f[m] > f[j] \/ (f[m] = f[j] /\ m > j))
      BY DEF Ahead
    <3> QED BY <2>1, <3>1 DEF Ahead
  <2>3. j \in A /\ j \notin B /\ IsFiniteSet(A)
    BY <1>2, <1>4
  <2>4. rank[i] = Cardinality(A) /\ rank[j] = Cardinality(B)
    OBVIOUS
  <2> HIDE DEF A, B, rank
  <2>5. B \in SUBSET A /\ B # A
    BY <2>2, <2>3
  <2> QED BY <2>3, <2>4, <2>5, FS_Subset
<1>5. \A i, j \in D : rank[i] = rank[j] => i = j
  <2> SUFFICES ASSUME NEW i \in D, NEW j \in D, i # j PROVE rank[i] # rank[j]
    OBVIOUS
  <2>1. j \in Ahead(f, n, i) \/ i \in Ahead(f, n, j)
    <3>1. f[i] \in Int /\ f[j] \in Int /\ i \in Int /\ j \in Int
      OBVIOUS
    <3> QED BY <3>1 DEF Ahead
  <2> HIDE DEF rank, D
  <2> QED BY <1>4, <2>1
<1>6. rank \in [D -> T]
  BY <1>3
<1>7. \A i \in D : rank[i] = Cardinality(Ahead(f, n, i))
  OBVIOUS
<1> HIDE DEF rank
<1>8. Cardinality({i \in D : rank[i] < k}) = k
  <2>1. k \in 0..Cardinality(D)
    BY <1>1
  <2> HIDE DEF D
  <2> QED BY <1>1, <1>5, <1>6, <2>1, FirstOfRanking
<1>9. {i \in D : rank[i] < k} = {i \in 1..n : Cardinality(Ahead(f, n, i)) < k}
  BY <1>7
<1> QED BY <1>8, <1>9

(* Every stage has a layer, and together they have all. *)
IsSplit(counts, depth, n) ==
  counts \in [1..n -> Nat \ {0}] /\ SumOver(counts, 1..n) = depth

-----------------------------------------------------------------------------
(* Stages without a layer are given one. *)

Donor(c) == Min({d \in DOMAIN c : \A j \in DOMAIN c : c[j] <= c[d]})

GiveTo(i, before) ==
  IF before[i] # 0 THEN before
  ELSE [[before EXCEPT ![Donor(before)] = @ - 1] EXCEPT ![i] = 1]

IsGivingOne(counts, give) ==
  give = [i \in 0..Len(counts) |-> IF i = 0 THEN counts ELSE GiveTo(i, give[i - 1])]

(* GiveEachOne with its loop named. *)
LEMMA GiveEachOneIs ==
  ASSUME NEW counts
  PROVE  GiveEachOne(counts) = (CHOOSE give : IsGivingOne(counts, give))[Len(counts)]
BY DEF GiveEachOne, IsGivingOne, GiveTo, Donor

(* After the i-th stage the first i have a layer. *)
GivenOne(counts, n, depth, i, c) ==
  /\ c \in [1..n -> Nat]
  /\ SumOver(c, 1..n) = depth
  /\ \A j \in 1..i : c[j] # 0

(* A stage without a layer is given one of a stage that has two or more. *)
LEMMA GivingKeeps ==
  ASSUME NEW n \in Nat \ {0}, NEW depth \in Nat, n <= depth, NEW counts, NEW i \in 1..n,
         NEW b, GivenOne(counts, n, depth, i - 1, b)
  PROVE  GivenOne(counts, n, depth, i, GiveTo(i, b))
<1> DEFINE D == 1..n
           z == Donor(b)
           S == {d \in D : \A j \in D : b[j] <= b[d]}
<1>1. /\ b \in [D -> Nat] /\ SumOver(b, D) = depth /\ (\A j \in 1..(i - 1) : b[j] # 0)
      /\ IsFiniteSet(D) /\ Cardinality(D) = n
  BY RangeFinite DEF GivenOne
<1>2. z \in D /\ \A j \in D : b[j] <= b[z]
  <2>1. S # {}
    <3>1. \E c \in 1..n : \A d \in 1..n : b[d] <= b[c]
      <4>1. b \in [1..n -> Nat]
        BY <1>1
      <4> QED BY <4>1, LargestOf
    <3> QED BY <3>1
  <2>2. S \subseteq Nat
    OBVIOUS
  <2>3. z = Min(S)
    BY <1>1 DEF Donor
  <2>4. z \in S
    <3> HIDE DEF S, z
    <3> QED BY <2>1, <2>2, <2>3, MinIsLeast
  <2> QED BY <2>4
<1> HIDE DEF z, S
<1>3. CASE b[i] # 0
  <2>1. GiveTo(i, b) = b
    BY <1>3 DEF GiveTo
  <2>2. \A j \in 1..i : b[j] # 0
    <3>1. \A j \in 1..i : j = i \/ j \in 1..(i - 1)
      OBVIOUS
    <3> QED BY <1>1, <1>3, <3>1
  <2> QED BY <1>1, <2>1, <2>2 DEF GivenOne
<1>4. CASE b[i] = 0
  <2>1. b[z] >= 2
    <3> SUFFICES ASSUME ~(b[z] >= 2) PROVE FALSE
      OBVIOUS
    <3> DEFINE E == D \ {i}
    <3>1. i \in D /\ IsFiniteSet(E) /\ Cardinality(E) = n - 1
      <4>1. i \in D
        OBVIOUS
      <4> HIDE DEF D
      <4> QED BY <1>1, <4>1, FS_RemoveElement
    <3>2. \A j \in D : b[j] \in Int /\ b[j] <= 1
      BY <1>1, <1>2
    <3>3. SumOver(b, D) = b[i] + SumOver(b, E)
      <4> HIDE DEF D
      <4> QED BY <1>1, <3>1, <3>2, SumRemove
    <3>4. SumOver(b, E) <= 1 * Cardinality(E)
      <4>1. \A j \in E : b[j] \in Int /\ b[j] <= 1
        BY <3>2
      <4> HIDE DEF E
      <4> QED BY <3>1, <4>1, SumBound
    <3>5. SumOver(b, E) \in Int
      <4>1. \A j \in E : b[j] \in Int
        BY <3>2
      <4> HIDE DEF E
      <4> QED BY <3>1, <4>1, SumInt
    <3> HIDE DEF D, E
    <3> QED BY <1>1, <1>4, <3>1, <3>3, <3>4, <3>5
  <2> DEFINE less == [b EXCEPT ![z] = @ - 1]
             more == [less EXCEPT ![i] = 1]
  <2>2. GiveTo(i, b) = more
    BY <1>4 DEF GiveTo, z
  <2>3. i \in D /\ z # i /\ b[z] \in Nat
    BY <1>1, <1>2, <1>4, <2>1
  <2>4. /\ less \in [D -> Nat] /\ more \in [D -> Nat] /\ less[z] = b[z] - 1 /\ more[i] = 1 /\ less[i] = 0
        /\ more[z] = b[z] - 1
        /\ (\A j \in D : j # z => less[j] = b[j]) /\ (\A j \in D : j # i => more[j] = less[j])
    <3>1. /\ less \in [D -> Int] /\ less[z] = b[z] - 1 /\ \A j \in D : j # z => less[j] = b[j]
      BY <1>1, <1>2, <2>3
    <3>2. less[i] = 0 /\ b[z] - 1 \in Nat
      BY <1>4, <2>1, <2>3, <3>1
    <3>3. less \in [D -> Nat]
      <4>1. \A j \in D : less[j] \in Nat
        BY <1>1, <1>2, <3>1, <3>2
      <4> HIDE DEF less
      <4> QED BY <3>1, <4>1
    <3> HIDE DEF less
    <3>4. more \in [D -> Nat] /\ more[i] = 1 /\ \A j \in D : j # i => more[j] = less[j]
      BY <2>3, <3>3
    <3> QED BY <1>2, <2>3, <3>1, <3>2, <3>3, <3>4
  <2> HIDE DEF less, more
  <2>5. SumOver(less, D) - less[z] = SumOver(b, D) - b[z] /\ SumOver(less, D) \in Int
    <3>1. \A j \in D : less[j] \in Int /\ b[j] \in Int
      BY <1>1, <2>4
    <3> HIDE DEF D
    <3> QED BY <1>1, <1>2, <2>4, <3>1, SumChange, SumInt
  <2>6. SumOver(more, D) - more[i] = SumOver(less, D) - less[i] /\ SumOver(more, D) \in Int
    <3>1. (\A j \in D : more[j] \in Int /\ less[j] \in Int) /\ (\A j \in D : j # i => more[j] = less[j])
      BY <2>4
    <3> HIDE DEF D
    <3>2. \A y \in D : (\A j \in D : j # y => more[j] = less[j])
                       => SumOver(more, D) - more[y] = SumOver(less, D) - less[y]
      BY <1>1, <3>1, SumChange
    <3>3. SumOver(more, D) - more[i] = SumOver(less, D) - less[i]
      BY <2>3, <3>1, <3>2, Zenon
    <3> QED BY <1>1, <3>1, <3>3, SumInt
  <2>7. SumOver(more, D) = depth
    <3> HIDE DEF D
    <3> QED BY <1>1, <2>3, <2>4, <2>5, <2>6
  <2>8. ASSUME NEW j \in 1..i PROVE more[j] # 0
    <3>1. j \in D /\ (j = i \/ j \in 1..(i - 1))
      OBVIOUS
    <3>2. CASE j = i
      BY <2>4, <3>2
    <3>3. CASE j = z /\ j # i
      BY <2>1, <2>3, <2>4, <3>3
    <3>4. CASE j # z /\ j # i
      BY <1>1, <2>4, <3>1, <3>4
    <3> QED BY <3>2, <3>3, <3>4
  <2> QED BY <2>2, <2>4, <2>7, <2>8 DEF GivenOne
<1>5. b[i] \in Nat
  BY <1>1
<1> QED BY <1>3, <1>4

(* So the loop goes on as it should. *)
LEMMA GivingGoesOn ==
  ASSUME NEW n \in Nat \ {0}, NEW depth \in Nat, n <= depth,
         NEW counts \in [1..n -> Nat], SumOver(counts, 1..n) = depth,
         NEW f, f[0] = counts,
         \A i \in 1..n : GivenOne(counts, n, depth, i - 1, f[i - 1]) => f[i] = GiveTo(i, f[i - 1])
  PROVE  \A i \in 0..n : GivenOne(counts, n, depth, i, f[i])
<1> DEFINE Good(i) == GivenOne(counts, n, depth, i, f[i])
           Bad == {i \in 0..n : ~Good(i)}
<1> SUFFICES ASSUME Bad # {} PROVE FALSE
  OBVIOUS
<1>1. PICK i \in Bad : \A m \in Bad : i <= m
  <2>1. Bad \subseteq Nat
    OBVIOUS
  <2> HIDE DEF Bad
  <2> QED BY <2>1, Least
<1>2. i \in 0..n /\ ~Good(i)
  BY <1>1
<1>3. CASE i = 0
  BY <1>2, <1>3 DEF GivenOne
<1>4. CASE i # 0
  <2>1. i \in 1..n /\ i - 1 \in 0..n /\ i - 1 < i
    BY <1>2, <1>4
  <2>2. Good(i - 1)
    <3>1. i - 1 \notin Bad
      <4> HIDE DEF Bad
      <4> QED BY <1>1, <2>1
    <3> QED BY <2>1, <3>1
  <2> DEFINE b == f[i - 1]
  <2>3. f[i] = GiveTo(i, b) /\ GivenOne(counts, n, depth, i - 1, b)
    BY <2>1, <2>2
  <2> HIDE DEF b
  <2>4. GivenOne(counts, n, depth, i, GiveTo(i, b))
    BY <2>1, <2>3, GivingKeeps
  <2> QED BY <1>2, <2>3, <2>4
<1> QED BY <1>3, <1>4

(* GiveEachOne leaves every stage with a layer, and changes no sum. *)
LEMMA EachHasOne ==
  ASSUME NEW n \in Nat \ {0}, NEW depth \in Nat, n <= depth,
         NEW counts \in [1..n -> Nat], SumOver(counts, 1..n) = depth
  PROVE  IsSplit(GiveEachOne(counts), depth, n)
<1> DEFINE A == [1..n -> Nat]
           Arg == (1..n) \X A
           s == [x \in Arg |-> IF GiveTo(x[1], x[2]) \in A THEN GiveTo(x[1], x[2]) ELSE x[2]]
<1>1. Len(counts) = n
  OBVIOUS
<1>2. \E f : Recurs(f, n, A, counts, s)
  <2>1. s \in [(1..n) \X A -> A] /\ counts \in A
    OBVIOUS
  <2> HIDE DEF s, A
  <2> QED BY <2>1, Recursion
<1>3. PICK f : Recurs(f, n, A, counts, s)
  BY <1>2
<1>4. f \in [0..n -> A] /\ f[0] = counts /\ \A i \in 1..n : f[i] = s[<<i, f[i - 1]>>]
  BY <1>3 DEF Recurs
<1>5. ASSUME NEW i \in 1..n, GivenOne(counts, n, depth, i - 1, f[i - 1])
      PROVE  f[i] = GiveTo(i, f[i - 1])
  <2> DEFINE b == f[i - 1]
  <2>1. f[i] = s[<<i, b>>] /\ GivenOne(counts, n, depth, i - 1, b)
    BY <1>4, <1>5
  <2> HIDE DEF b
  <2>2. GivenOne(counts, n, depth, i, GiveTo(i, b))
    BY <2>1, GivingKeeps
  <2>3. b \in A /\ GiveTo(i, b) \in A
    BY <2>1, <2>2 DEF GivenOne
  <2>4. <<i, b>> \in Arg
    BY <2>3
  <2>5. s[<<i, b>>] = GiveTo(i, b)
    <3> HIDE DEF Arg, A
    <3> QED BY <2>3, <2>4
  <2> QED BY <2>1, <2>5 DEF b
<1>6. \A i \in 0..n : GivenOne(counts, n, depth, i, f[i])
  BY <1>4, <1>5, GivingGoesOn
<1> DEFINE h == [i \in 0..n |-> IF i = 0 THEN counts ELSE GiveTo(i, f[i - 1])]
<1>7. IsGivingOne(counts, f)
  <2>1. \A i \in 0..n : f[i] = h[i]
    <3> SUFFICES ASSUME NEW i \in 0..n PROVE f[i] = h[i]
      OBVIOUS
    <3>1. CASE i = 0
      BY <1>4, <3>1
    <3>2. CASE i # 0
      <4>1. i \in 1..n /\ i - 1 \in 0..n
        BY <3>2
      <4>2. GivenOne(counts, n, depth, i - 1, f[i - 1])
        BY <1>6, <4>1
      <4>3. f[i] = GiveTo(i, f[i - 1])
        BY <1>5, <4>1, <4>2
      <4> QED BY <3>2, <4>3
    <3> QED BY <3>1, <3>2
  <2>2. f = h
    <3>1. f = [i \in 0..n |-> f[i]]
      <4> HIDE DEF A
      <4> QED BY <1>4
    <3>2. h = [i \in 0..n |-> h[i]]
      OBVIOUS
    <3> HIDE DEF h
    <3> QED BY <2>1, <3>1, <3>2
  <2> QED BY <1>1, <2>2 DEF IsGivingOne
<1> DEFINE give == CHOOSE g : IsGivingOne(counts, g)
<1>8. IsGivingOne(counts, give)
  BY <1>7
<1> HIDE DEF give
<1>9. give[0] = counts /\ \A i \in 1..n : give[i] = GiveTo(i, give[i - 1])
  <2>1. give = [i \in 0..n |-> IF i = 0 THEN counts ELSE GiveTo(i, give[i - 1])]
    BY <1>1, <1>8 DEF IsGivingOne
  <2>2. \A i \in 0..n : give[i] = IF i = 0 THEN counts ELSE GiveTo(i, give[i - 1])
    <3> DEFINE v(i) == IF i = 0 THEN counts ELSE GiveTo(i, give[i - 1])
    <3>1. give = [i \in 0..n |-> v(i)]
      BY <2>1
    <3> HIDE DEF v
    <3>2. \A i \in 0..n : give[i] = v(i)
      BY <3>1
    <3> QED BY <3>2 DEF v
  <2> QED BY <2>2
<1>10. \A i \in 0..n : GivenOne(counts, n, depth, i, give[i])
  BY <1>9, GivingGoesOn
<1>11. GivenOne(counts, n, depth, n, give[n]) /\ GiveEachOne(counts) = give[n]
  BY <1>1, <1>10, GiveEachOneIs DEF give
<1> DEFINE r == give[n]
<1>12. r \in [1..n -> Nat] /\ SumOver(r, 1..n) = depth /\ \A j \in 1..n : r[j] # 0
  BY <1>11 DEF GivenOne
<1> HIDE DEF r
<1>13. r \in [1..n -> Nat \ {0}]
  BY <1>12
<1>14. GiveEachOne(counts) = r
  BY <1>11 DEF r
<1> QED BY <1>12, <1>13, <1>14 DEF IsSplit

(* get_layers_per_stage without proportions divides all layers. *)
LEMMA EvenSplitDivides ==
  ASSUME NEW n \in Nat \ {0}, NEW depth \in Nat, n <= depth
  PROVE  IsSplit(EvenSplit(depth, n), depth, n)
<1> DEFINE over == depth % n
           first == n \div 2 - over \div 2
           q == depth \div n
           D == 1..n
           T == {i \in D : i - 1 \in first..(first + over - 1)}
           one == [i \in D |-> IF i \in T THEN 1 ELSE 0]
           every == [i \in D |-> 1]
           c == EvenSplit(depth, n)
<1>1. q \in Nat /\ over \in Nat /\ over < n /\ depth = n * q + over
  BY DivMod
<1>2. IsFiniteSet(D) /\ Cardinality(D) = n
  BY RangeFinite
<1>3. c = [i \in D |-> q + IF i - 1 \in first..(first + over - 1) THEN 1 ELSE 0]
  BY DEF EvenSplit
<1>4. first \in Nat /\ first + over <= n
  <2> DEFINE a == n \div 2
             b == over \div 2
  <2>1. a \in Nat /\ b \in Nat /\ 2 * a <= n /\ n <= 2 * a + 1 /\ 2 * b <= over /\ over <= 2 * b + 1
    <3> HIDE DEF over
    <3>1. a \in Nat /\ n % 2 \in Nat /\ n % 2 < 2 /\ n = 2 * a + (n % 2)
      BY DivMod
    <3>2. b \in Nat /\ over % 2 \in Nat /\ over % 2 < 2 /\ over = 2 * b + (over % 2)
      BY <1>1, DivMod
    <3> HIDE DEF a, b
    <3> QED BY <3>1, <3>2, <1>1
  <2>2. first = a - b
    OBVIOUS
  <2> HIDE DEF a, b, over, first
  <2> QED BY <1>1, <2>1, <2>2
<1> HIDE DEF c, q, over, first
<1>5. \A i \in D : c[i] = q + one[i] /\ one[i] \in {0, 1} /\ every[i] = 1
                   /\ one[i] = IF i \in T THEN 1 ELSE 0
  BY <1>3
<1>6. c = [i \in D |-> c[i]]
  BY <1>3
<1>7. q >= 1
  <2> SUFFICES ASSUME q = 0 PROVE FALSE
    BY <1>1
  <2>1. n * q = 0
    OBVIOUS
  <2> QED BY <1>1, <2>1
<1>8. Cardinality(T) = over
  <2>1. T = (first + 1)..(first + over)
    BY <1>1, <1>4
  <2>2. first + 1 \in Int /\ first + over \in Int
    BY <1>1, <1>4
  <2> HIDE DEF T
  <2>3. Cardinality((first + 1)..(first + over))
          = IF first + 1 > first + over THEN 0 ELSE (first + over) - (first + 1) + 1
    BY <2>2, FS_Interval
  <2> QED BY <1>1, <1>4, <2>1, <2>3
<1>9. SumOver(one, D) = over
  <2>1. T \in SUBSET D
    OBVIOUS
  <2>2. \A i \in D : one[i] = IF i \in T THEN 1 ELSE 0
    BY <1>5
  <2> HIDE DEF D, T, one
  <2> QED BY <1>2, <1>8, <2>1, <2>2, SumCounts
<1>10. SumOver(every, D) = n
  <2>1. \A i \in D : every[i] = IF i \in D THEN 1 ELSE 0
    BY <1>5
  <2> HIDE DEF D, every
  <2> QED BY <1>2, <2>1, SumCounts
<1>11. 1 * SumOver(c, D) = q * SumOver(every, D) + SumOver(one, D)
  <2>1. \A i \in D : c[i] \in Int /\ every[i] \in Int /\ one[i] \in Int /\ 1 * c[i] = q * every[i] + one[i]
    <3> SUFFICES ASSUME NEW i \in D
                 PROVE  c[i] \in Int /\ every[i] \in Int /\ one[i] \in Int /\ 1 * c[i] = q * every[i] + one[i]
      OBVIOUS
    <3>1. c[i] = q + one[i] /\ one[i] \in {0, 1} /\ every[i] = 1
      BY <1>5
    <3> HIDE DEF one, every
    <3> QED BY <1>1, <3>1
  <2> DEFINE a == 1
  <2>2. Balance(D, a, q, c, every, one)
    BY <2>1 DEF Balance
  <2>3. a \in Int /\ q \in Int
    BY <1>1
  <2> HIDE DEF D, one, every, a
  <2>4. a * SumOver(c, D) = q * SumOver(every, D) + SumOver(one, D)
    BY <1>2, <2>2, <2>3, SumBalance
  <2> QED BY <2>4 DEF a
<1>12. SumOver(c, D) = depth
  <2>1. SumOver(c, D) \in Int
    <3>1. \A i \in D : c[i] \in Int
      BY <1>1, <1>5
    <3> HIDE DEF D
    <3> QED BY <1>2, <3>1, SumInt
  <2> DEFINE s == SumOver(c, D)
  <2>2. s \in Int /\ 1 * s = q * n + over
    BY <1>9, <1>10, <1>11, <2>1
  <2>3. q * n = n * q
    BY <1>1
  <2> HIDE DEF s
  <2>4. s = depth
    BY <1>1, <2>2, <2>3
  <2> QED BY <2>4 DEF s
<1>13. c \in [D -> Nat \ {0}]
  <2>1. \A i \in D : c[i] \in Nat \ {0}
    BY <1>1, <1>5, <1>7
  <2> QED BY <1>6, <2>1
<1> QED BY <1>12, <1>13 DEF IsSplit, c

-----------------------------------------------------------------------------
(* Only the last proportion may be below 0, by less than one layer. *)
Fits(p, depth, n) ==
  /\ p.parts \in [1..n -> Int] /\ p.of \in Nat \ {0}
  /\ SumOver(p.parts, 1..n) = p.of
  /\ \A i \in 1..(n - 1) : p.parts[i] >= 0
  /\ -p.of < depth * p.parts[n]

(* int() leaves a fraction of less than one, of the sign of the value. *)
LEMMA TruncateRounds ==
  ASSUME NEW a \in Int, NEW b \in Nat \ {0}, -b < a
  PROVE  /\ Truncate(a, b) \in Nat /\ b * Truncate(a, b) \in Int
         /\ a - b * Truncate(a, b) < b /\ -b < a - b * Truncate(a, b)
         /\ a >= 0 => a - b * Truncate(a, b) >= 0
<1>1. CASE a >= 0
  <2>1. Truncate(a, b) = a \div b /\ a \in Nat
    BY <1>1 DEF Truncate
  <2>2. a \div b \in Nat /\ a % b \in Nat /\ a % b < b /\ a = b * (a \div b) + (a % b)
    BY <2>1, DivMod
  <2> DEFINE m == b * (a \div b)
  <2>3. m \in Int /\ m = b * Truncate(a, b)
    BY <2>1, <2>2
  <2>4. a = m + (a % b)
    BY <2>2
  <2> HIDE DEF m
  <2>5. a - m < b /\ -b < a - m /\ a - m >= 0
    BY <2>2, <2>3, <2>4
  <2> QED BY <2>1, <2>2, <2>3, <2>5
<1>2. CASE a < 0
  <2>1. -a \in Nat /\ -a < b /\ Truncate(a, b) = -((-a) \div b)
    BY <1>2 DEF Truncate
  <2> DEFINE d == -a
             e == d \div b
  <2>2. e \in Nat /\ d % b \in Nat /\ d % b < b /\ d = b * e + (d % b)
    BY <2>1, DivMod
  <2>3. e = 0
    <3> SUFFICES ASSUME e >= 1 PROVE FALSE
      BY <2>2
    <3>1. b * 1 <= b * e
      BY <2>2, Monotone
    <3>2. b * e \in Int /\ d \in Int /\ d < b
      BY <2>1, <2>2
    <3> DEFINE m == b * e
    <3>3. m \in Int /\ b <= m /\ d = m + (d % b)
      BY <2>2, <3>1, <3>2
    <3> HIDE DEF m, e, d
    <3> QED BY <2>2, <3>2, <3>3
  <2>4. Truncate(a, b) = 0
    BY <2>1, <2>3
  <2> QED BY <1>2, <2>4
<1> QED BY <1>1, <1>2

(* The shares of all layers, rounded down, with their fractions. *)
RoundedDown(depth, of, parts, floor, fr, n) ==
  /\ SumOver(parts, 1..n) = of
  /\ \A i \in 1..n : /\ parts[i] \in Int /\ floor[i] \in Nat /\ fr[i] \in Int /\ fr[i] < of
                     /\ depth * parts[i] = of * floor[i] + fr[i]
  /\ -of < fr[n] /\ \A i \in 1..(n - 1) : fr[i] >= 0

(* What is left over when all shares are rounded down is less than one     *)
(* layer for every stage.                                                  *)
LEMMA LeftOver ==
  ASSUME NEW n \in Nat \ {0}, NEW depth \in Nat, NEW of \in Nat \ {0},
         NEW parts, NEW floor, NEW fr, RoundedDown(depth, of, parts, floor, fr, n)
  PROVE  depth - SumOver(floor, 1..n) \in 0..(n - 1)
<1> DEFINE D == 1..n
           E == D \ {n}
           neg == [i \in D |-> -fr[i]]
           sf == SumOver(floor, D)
           sn == SumOver(neg, D)
           over == depth - sf
<1>1. IsFiniteSet(D) /\ Cardinality(D) = n /\ n \in D /\ IsFiniteSet(E) /\ Cardinality(E) = n - 1
  <2>1. IsFiniteSet(D) /\ Cardinality(D) = n /\ n \in D
    BY RangeFinite
  <2> QED BY <2>1, FS_RemoveElement
<1>2. \A i \in D : neg[i] = -fr[i] /\ neg[i] \in Int /\ fr[i] \in Int /\ floor[i] \in Int /\ parts[i] \in Int
  BY DEF RoundedDown
<1>3. sf \in Int /\ sn \in Int
  <2> HIDE DEF D, neg
  <2> QED BY <1>1, <1>2, SumInt
<1>4. of * sf = depth * of + sn
  <2>1. \A i \in D : of * floor[i] = depth * parts[i] + neg[i]
    <3> SUFFICES ASSUME NEW i \in D PROVE of * floor[i] = depth * parts[i] + neg[i]
      OBVIOUS
    <3> DEFINE x == of * floor[i]
               y == depth * parts[i]
    <3>1. x \in Int /\ y \in Int /\ y = x + fr[i] /\ neg[i] = -fr[i] /\ fr[i] \in Int
      BY <1>2 DEF RoundedDown
    <3> HIDE DEF x, y, neg
    <3>2. x = y + neg[i]
      BY <3>1
    <3> QED BY <3>2 DEF x, y
  <2>2. \A i \in D : floor[i] \in Int /\ parts[i] \in Int /\ neg[i] \in Int
                     /\ of * floor[i] = depth * parts[i] + neg[i]
    BY <1>2, <2>1
  <2>3. of * SumOver(floor, D) = depth * SumOver(parts, D) + SumOver(neg, D)
    <3> HIDE DEF D, neg
    <3>1. of \in Int /\ depth \in Int
      OBVIOUS
    <3>2. Balance(D, of, depth, floor, parts, neg)
      BY <2>2 DEF Balance
    <3> QED BY <1>1, <3>1, <3>2, SumBalance
  <2>4. SumOver(parts, D) = of
    BY DEF RoundedDown
  <2> QED BY <2>3, <2>4
<1>5. sn < of
  <2>1. sn = neg[n] + SumOver(neg, E)
    <3> HIDE DEF D, neg
    <3>1. \A i \in D : neg[i] \in Int
      BY <1>2
    <3> QED BY <1>1, <3>1, SumRemove
  <2>2. \A i \in E : neg[i] \in Int /\ neg[i] <= 0
    <3> SUFFICES ASSUME NEW i \in E PROVE neg[i] \in Int /\ neg[i] <= 0
      OBVIOUS
    <3>1. i \in 1..(n - 1) /\ i \in D
      OBVIOUS
    <3>2. fr[i] >= 0 /\ neg[i] = -fr[i] /\ fr[i] \in Int
      BY <1>2, <3>1 DEF RoundedDown
    <3> HIDE DEF neg
    <3> QED BY <3>2
  <2>3. SumOver(neg, E) <= 0 * Cardinality(E) /\ SumOver(neg, E) \in Int
    <3> HIDE DEF E, neg
    <3> QED BY <1>1, <2>2, SumBound, SumInt
  <2>4. neg[n] = -fr[n] /\ fr[n] \in Int /\ -of < fr[n]
    BY <1>1, <1>2 DEF RoundedDown
  <2> DEFINE z == SumOver(neg, E)
  <2>5. z <= 0 /\ z \in Int /\ sn = neg[n] + z
    BY <1>1, <2>1, <2>3
  <2> HIDE DEF z, neg, sn
  <2> QED BY <2>4, <2>5
<1>6. -sn < of * n
  <2>1. \A i \in D : fr[i] \in Int /\ fr[i] <= of - 1
    BY <1>2 DEF RoundedDown
  <2>2. SumOver(fr, D) <= (of - 1) * Cardinality(D) /\ SumOver(fr, D) \in Int
    <3>1. of - 1 \in Nat
      OBVIOUS
    <3> HIDE DEF D
    <3> QED BY <1>1, <2>1, <3>1, SumBound, SumInt
  <2>3. SumOver(fr, D) = -sn
    <3> DEFINE zero == [i \in D |-> 0]
    <3>1. \A i \in D : zero[i] \in Int /\ neg[i] \in Int /\ fr[i] \in Int /\ zero[i] = neg[i] + fr[i] /\ zero[i] = 0
      BY <1>2
    <3>2. SumOver(zero, D) = sn + SumOver(fr, D)
      <4> HIDE DEF D, neg, zero
      <4>1. \A i \in D : neg[i] \in Int /\ fr[i] \in Int /\ zero[i] = neg[i] + fr[i]
        BY <3>1
      <4>2. SumOver(zero, D) = SumOver(neg, D) + SumOver(fr, D)
        BY <1>1, <4>1, SumPlus, Zenon
      <4> QED BY <4>2
    <3>3. SumOver(zero, D) = 0
      <4>1. \A i \in D : zero[i] = IF i \in {} THEN 1 ELSE 0
        BY <3>1
      <4>2. {} \in SUBSET D
        OBVIOUS
      <4> HIDE DEF D, zero
      <4> QED BY <1>1, <4>1, <4>2, SumCounts, FS_EmptySet
    <3> DEFINE z == SumOver(fr, D)
    <3>4. 0 = sn + z /\ z \in Int
      BY <2>2, <3>2, <3>3
    <3> HIDE DEF z, sn
    <3>5. z = -sn
      BY <1>3, <3>4
    <3> QED BY <3>5 DEF z
  <2>4. (of - 1) * n = of * n - n /\ of * n \in Int
    OBVIOUS
  <2> DEFINE x == of * n
  <2> HIDE DEF x
  <2>5. (of - 1) * n = x - n /\ x \in Int
    BY <2>4 DEF x
  <2>6. -sn <= x - n
    BY <1>1, <2>2, <2>3, <2>5
  <2>7. -sn < x
    <3> HIDE DEF sn
    <3> QED BY <1>3, <2>5, <2>6
  <2> QED BY <2>7 DEF x
<1> HIDE DEF sf, sn
<1>7. of * over = -sn /\ over \in Int
  <2>1. over \in Int
    BY <1>3
  <2>2. of * over = of * depth - of * sf /\ of * depth = depth * of
    BY <1>3
  <2> DEFINE x == of * sf
             y == depth * of
  <2>3. x \in Int /\ y \in Int /\ x = y + sn /\ of * over = y - x
    BY <1>3, <1>4, <2>2
  <2> HIDE DEF x, y
  <2> QED BY <1>3, <2>1, <2>3
<1> HIDE DEF over
<1>8. over < n
  <2> SUFFICES ASSUME n <= over PROVE FALSE
    BY <1>7
  <2>1. of * n <= of * over
    BY <1>7, Monotone
  <2> DEFINE x == of * n
  <2>2. x \in Int /\ x <= -sn /\ -sn < x
    BY <1>6, <1>7, <2>1
  <2> HIDE DEF x
  <2> QED BY <1>3, <2>2
<1>9. over >= 0
  <2> SUFFICES ASSUME over <= -1 PROVE FALSE
    BY <1>7
  <2>1. of * over <= of * (-1)
    BY <1>7, Monotone
  <2>2. of * (-1) = -of
    OBVIOUS
  <2>3. -sn <= -of
    BY <1>7, <2>1, <2>2
  <2> QED BY <1>3, <1>5, <2>3
<1>10. over \in 0..(n - 1)
  BY <1>7, <1>8, <1>9
<1> QED BY <1>10 DEF over, sf

(* _get_layers_proportional divides all layers, and leaves no stage without. *)
LEMMA ProportionalSplitDivides ==
  ASSUME NEW n \in Nat \ {0}, NEW depth \in Nat, n <= depth, NEW p, Fits(p, depth, n)
  PROVE  IsSplit(ProportionalSplit(depth, p), depth, n)
<1> DEFINE m == Len(p.parts)
           D == 1..m
           floor == [i \in 1..m |-> Truncate(p.parts[i] * depth, p.of)]
           fraction(i) == p.parts[i] * depth - p.of * floor[i]
           ahead(i) == {j \in 1..m : fraction(j) > fraction(i) \/ (fraction(j) = fraction(i) /\ j > i)}
           over == depth - Total(floor)
           counts == [i \in 1..m |-> floor[i] + IF Cardinality(ahead(i)) < over THEN 1 ELSE 0]
           fr == [i \in D |-> fraction(i)]
           T == {i \in D : Cardinality(Ahead(fr, m, i)) < over}
           one == [i \in D |-> IF i \in T THEN 1 ELSE 0]
<1>1. ProportionalSplit(depth, p) = GiveEachOne(counts)
  BY DEF ProportionalSplit
<1>2. /\ p.parts \in [1..n -> Int] /\ p.of \in Nat \ {0} /\ SumOver(p.parts, 1..n) = p.of
      /\ (\A i \in 1..(n - 1) : p.parts[i] >= 0) /\ -p.of < depth * p.parts[n]
  BY DEF Fits
<1>3. m = n
  BY <1>2
<1>4. \A i \in D : /\ floor[i] = Truncate(p.parts[i] * depth, p.of) /\ fr[i] = fraction(i)
                   /\ fraction(i) = p.parts[i] * depth - p.of * floor[i]
  OBVIOUS
<1>5. \A i \in D : counts[i] = floor[i] + IF Cardinality(ahead(i)) < over THEN 1 ELSE 0
  OBVIOUS
<1>6. \A i \in D : ahead(i) = Ahead(fr, m, i)
  <2> SUFFICES ASSUME NEW i \in D PROVE ahead(i) = Ahead(fr, m, i)
    OBVIOUS
  <2>1. \A j \in D : fr[j] = fraction(j)
    BY <1>4
  <2> HIDE DEF fraction, fr
  <2> QED BY <2>1 DEF Ahead
<1>7. Total(floor) = SumOver(floor, D)
  <2>1. Len(floor) = m
    <3>1. m \in Nat
      BY <1>3
    <3> HIDE DEF m
    <3> QED BY <3>1
  <2> HIDE DEF floor, m
  <2> QED BY <2>1 DEF Total, SumFirst
<1>8. counts = [i \in D |-> counts[i]]
  OBVIOUS
<1>9. \A i \in D : one[i] = IF i \in T THEN 1 ELSE 0
  OBVIOUS
<1> HIDE DEF m, fraction, ahead, counts, over, floor
<1>10. \A i \in D : counts[i] = floor[i] + one[i] /\ one[i] \in {0, 1}
  BY <1>5, <1>6, <1>9
<1>11. T \in SUBSET D
  OBVIOUS
<1> HIDE DEF fr, one, T
<1>12. ASSUME NEW i \in D
       PROVE  /\ floor[i] \in Nat /\ fr[i] \in Int /\ fr[i] < p.of /\ -p.of < fr[i]
              /\ depth * p.parts[i] = p.of * floor[i] + fr[i]
              /\ p.parts[i] >= 0 => fr[i] >= 0
  <2> DEFINE a == p.parts[i] * depth
             b == p.of
             w == b * floor[i]
  <2>1. p.parts[i] \in Int /\ a \in Int /\ a = depth * p.parts[i] /\ (p.parts[i] >= 0 => a >= 0)
    <3>1. p.parts[i] \in Int
      BY <1>2, <1>3
    <3>2. p.parts[i] >= 0 => depth * 0 <= depth * p.parts[i]
      BY <3>1, Monotone
    <3> QED BY <3>1, <3>2
  <2>2. b \in Nat \ {0} /\ -b < a
    <3>1. i \in 1..(n - 1) \/ i = n
      BY <1>3
    <3>2. CASE i \in 1..(n - 1)
      <4>1. a >= 0 /\ b \in Nat \ {0}
        BY <1>2, <2>1, <3>2
      <4> HIDE DEF a, b
      <4> QED BY <2>1, <4>1
    <3>3. CASE i = n
      BY <1>2, <2>1, <3>3
    <3> QED BY <3>1, <3>2, <3>3
  <2>3. floor[i] = Truncate(a, b) /\ fr[i] = a - w
    BY <1>4
  <2>4. /\ floor[i] \in Nat /\ w \in Int /\ a - w < b /\ -b < a - w /\ (a >= 0 => a - w >= 0)
    <3> HIDE DEF a, b
    <3>1. /\ Truncate(a, b) \in Nat /\ b * Truncate(a, b) \in Int
          /\ a - b * Truncate(a, b) < b /\ -b < a - b * Truncate(a, b)
          /\ (a >= 0 => a - b * Truncate(a, b) >= 0)
      BY <2>1, <2>2, TruncateRounds
    <3> QED BY <2>3, <3>1
  <2> HIDE DEF a, b, w
  <2>5. fr[i] \in Int /\ a = w + fr[i]
    BY <2>1, <2>3, <2>4
  <2>6. fr[i] < b /\ -b < fr[i] /\ (a >= 0 => fr[i] >= 0)
    BY <2>3, <2>4
  <2>7. depth * p.parts[i] = w + fr[i]
    BY <2>1, <2>5
  <2> QED BY <2>1, <2>4, <2>5, <2>6, <2>7 DEF b, w
<1>13. over \in 0..(m - 1)
  <2>1. -p.of < fr[n] /\ \A i \in 1..(n - 1) : fr[i] >= 0
    <3>1. n \in D /\ \A i \in 1..(n - 1) : i \in D
      BY <1>3
    <3> QED BY <1>2, <1>12, <3>1
  <2> DEFINE of == p.of
             parts == p.parts
  <2>2. of \in Nat \ {0} /\ parts \in [1..n -> Int] /\ SumOver(parts, 1..n) = of
    BY <1>2
  <2>3. \A i \in 1..n : /\ floor[i] \in Nat /\ fr[i] \in Int /\ fr[i] < of
                        /\ depth * parts[i] = of * floor[i] + fr[i]
    BY <1>3, <1>12
  <2>4. -of < fr[n] /\ \A i \in 1..(n - 1) : fr[i] >= 0
    BY <2>1
  <2> HIDE DEF of, parts
  <2>5. RoundedDown(depth, of, parts, floor, fr, n)
    BY <2>2, <2>3, <2>4 DEF RoundedDown
  <2>6. depth - SumOver(floor, 1..n) \in 0..(n - 1)
    BY <2>2, <2>5, LeftOver
  <2> QED BY <1>3, <1>7, <2>6 DEF over
<1>14. IsFiniteSet(D) /\ m \in Nat \ {0}
  BY <1>3, RangeFinite
<1>15. Cardinality(T) = over
  <2>1. (\A i \in 1..m : fr[i] \in Int) /\ over \in 0..m /\ m \in Nat
    BY <1>12, <1>13, <1>14
  <2>2. Cardinality({i \in 1..m : Cardinality(Ahead(fr, m, i)) < over}) = over
    BY <2>1, LargestFractions
  <2> QED BY <2>2 DEF T
<1>16. SumOver(one, D) = over
  <2> HIDE DEF D
  <2> QED BY <1>9, <1>11, <1>14, <1>15, SumCounts
<1>17. \A i \in D : floor[i] \in Int /\ one[i] \in Int /\ counts[i] = floor[i] + one[i]
  BY <1>10, <1>12
<1>18. SumOver(counts, D) = SumOver(floor, D) + over /\ SumOver(floor, D) \in Int
  <2> HIDE DEF D
  <2>1. SumOver(counts, D) = SumOver(floor, D) + SumOver(one, D)
    BY <1>14, <1>17, SumPlus
  <2> QED BY <1>14, <1>16, <1>17, <2>1, SumInt
<1>19. SumOver(counts, 1..n) = depth
  <2> DEFINE s == SumOver(floor, D)
  <2>1. s \in Int /\ over = depth - s /\ SumOver(counts, D) = s + over
    BY <1>7, <1>18 DEF over
  <2> HIDE DEF s
  <2>2. SumOver(counts, D) = depth
    BY <2>1
  <2> QED BY <1>3, <2>2
<1>20. counts \in [1..n -> Nat]
  <2>1. \A i \in D : counts[i] \in Nat
    BY <1>10, <1>12
  <2> QED BY <1>3, <1>8, <2>1
<1>21. IsSplit(GiveEachOne(counts), depth, n)
  BY <1>19, <1>20, EachHasOne
<1> QED BY <1>1, <1>21

-----------------------------------------------------------------------------
(* Rounding to hundredths adds at most half of one. *)
LEMMA HundredthsRounds ==
  ASSUME NEW w \in Nat, NEW total \in Nat \ {0}
  PROVE  Hundredths(w, total) \in Nat /\ (2 * total) * Hundredths(w, total) <= 200 * w + total
<1> DEFINE a == 100 * w
           q == a \div total
           r == a % total
           h == Hundredths(w, total)
           t == total * q
<1>1. a \in Nat /\ q \in Nat /\ r \in Nat /\ r < total /\ a = t + r /\ t \in Int
  BY DivMod
<1>2. h = q \/ (h = q + 1 /\ 2 * r >= total)
  <2>1. h = IF 2 * r > total \/ (2 * r = total /\ q % 2 = 1) THEN q + 1 ELSE q
    BY DEF Hundredths
  <2> HIDE DEF h, q, r
  <2> QED BY <1>1, <2>1
<1>3. (2 * total) * q = 2 * t /\ (2 * total) * (q + 1) = 2 * t + 2 * total
  <2>1. q \in Int /\ total \in Int
    BY <1>1
  <2> HIDE DEF q
  <2>2. (2 * total) * q = 2 * (total * q) /\ (2 * total) * (q + 1) = (2 * total) * q + (2 * total) * 1
    BY <2>1, Distribute
  <2> QED BY <2>1, <2>2
<1>4. 200 * w = 2 * a
  OBVIOUS
<1> DEFINE g == (2 * total) * h
<1>5. g = 2 * t \/ (g = 2 * t + 2 * total /\ 2 * r >= total)
  <2> HIDE DEF t, q, r, h
  <2> QED BY <1>2, <1>3
<1>6. h \in Nat
  BY <1>1, <1>2
<1>7. g <= 200 * w + total
  <2> HIDE DEF g, t, r, a, h, q
  <2> QED BY <1>1, <1>4, <1>5
<1> QED BY <1>6, <1>7

(* What the root computes with. *)
Known(n) == [1..n -> [type : {"cuda", "mps", "cpu"}, memory : Nat]]

(* compute_proportions: the shares are those of a whole.  Rounding may     *)
(* leave the last one with less than nothing, by half a hundredth of every *)
(* other at most: this is not a layer unless there are many of both.       *)
LEMMA SharesFit ==
  ASSUME NEW n \in Nat \ {0}, NEW depth \in Nat, ((n - 1) \div 2) * depth < 100,
         NEW machines \in Known(n)
  PROVE  Fits(ComputeProportions(machines), depth, n)
<1> DEFINE weights == [i \in 1..Len(machines) |-> machines[i].memory * Factor[machines[i].type]]
           total == Total(weights)
           rounded == [i \in 1..Len(machines) |-> Hundredths(weights[i], total)]
           p == ComputeProportions(machines)
           D == 1..n
           E == 1..(n - 1)
<1>1. Len(machines) = n
  BY DEF Known
<1>2. IF total = 0 THEN p.parts = [i \in 1..Len(machines) |-> 1] /\ p.of = Len(machines)
      ELSE p.parts = [rounded EXCEPT ![Len(machines)] = 100 - SumFirst(rounded, Len(machines) - 1)] /\ p.of = 100
  BY DEF ComputeProportions
<1>3. \A i \in D : weights[i] = machines[i].memory * Factor[machines[i].type] /\ rounded[i] = Hundredths(weights[i], total)
  BY <1>1
<1>4. \A i \in D : weights[i] \in Nat
  <2> SUFFICES ASSUME NEW i \in D PROVE weights[i] \in Nat
    OBVIOUS
  <2>1. machines[i] \in [type : {"cuda", "mps", "cpu"}, memory : Nat]
    BY DEF Known
  <2>2. machines[i].memory \in Nat /\ machines[i].type \in {"cuda", "mps", "cpu"}
    BY <2>1
  <2>3. Factor[machines[i].type] \in Nat
    BY <2>2 DEF Factor
  <2> DEFINE a == machines[i].memory
             b == Factor[machines[i].type]
  <2>4. weights[i] = a * b /\ a \in Nat /\ b \in Nat
    BY <1>3, <2>2, <2>3
  <2> HIDE DEF a, b, weights
  <2> QED BY <2>4
<1>5. IsFiniteSet(D) /\ Cardinality(D) = n /\ n \in D /\ D \ {n} = E /\ IsFiniteSet(E) /\ Cardinality(E) = n - 1
  <2>1. IsFiniteSet(D) /\ Cardinality(D) = n /\ n \in D /\ D \ {n} = E
    BY RangeFinite
  <2>2. n - 1 \in Nat
    OBVIOUS
  <2> QED BY <2>1, <2>2, RangeFinite
<1>6. total = SumOver(weights, D) /\ total \in Nat
  <2>1. Len(weights) = n
    BY <1>1
  <2> HIDE DEF weights, D
  <2>2. total = SumOver(weights, 1..n)
    BY <2>1 DEF Total, SumFirst
  <2> QED BY <1>4, <1>5, <2>2, SumNat DEF D
<1>7. rounded = [i \in D |-> rounded[i]]
  BY <1>1
<1> DEFINE S == SumFirst(rounded, n - 1)
           parts == p.parts
<1>8. IF total = 0 THEN parts = [i \in D |-> 1] /\ p.of = n
      ELSE parts = [rounded EXCEPT ![n] = 100 - S] /\ p.of = 100
  BY <1>1, <1>2
<1>9. S = SumOver(rounded, E)
  BY DEF SumFirst
<1> HIDE DEF weights, total, rounded, p, D, E, S, parts
<1>10. CASE total = 0
  <2>1. parts = [i \in D |-> 1] /\ p.of = n
    BY <1>8, <1>10
  <2>2. \A i \in D : parts[i] = IF i \in D THEN 1 ELSE 0
    BY <2>1
  <2>3. SumOver(parts, D) = n
    BY <1>5, <2>2, SumCounts
  <2>4. /\ parts \in [1..n -> Int] /\ parts[n] = 1 /\ \A i \in 1..(n - 1) : parts[i] >= 0
    BY <2>1 DEF D
  <2>5. -n < depth * parts[n]
    BY <2>4
  <2> QED BY <2>1, <2>3, <2>4, <2>5 DEF Fits, parts, p, D
<1>11. CASE total # 0
  <2>1. parts = [rounded EXCEPT ![n] = 100 - S] /\ p.of = 100 /\ total \in Nat \ {0}
    BY <1>6, <1>8, <1>11
  <2>2. \A i \in D : rounded[i] \in Nat /\ (2 * total) * rounded[i] <= 200 * weights[i] + total
    <3> SUFFICES ASSUME NEW i \in D
                 PROVE  rounded[i] \in Nat /\ (2 * total) * rounded[i] <= 200 * weights[i] + total
      OBVIOUS
    <3>1. weights[i] \in Nat /\ rounded[i] = Hundredths(weights[i], total)
      BY <1>3, <1>4
    <3>2. Hundredths(weights[i], total) \in Nat /\ (2 * total) * Hundredths(weights[i], total) <= 200 * weights[i] + total
      BY <2>1, <3>1, HundredthsRounds
    <3> QED BY <3>1, <3>2
  <2>3. S \in Nat
    <3>1. \A i \in E : rounded[i] \in Nat
      BY <1>5, <2>2
    <3> QED BY <1>5, <1>9, <3>1, SumNat
  <2>4. /\ parts = [i \in D |-> parts[i]] /\ parts[n] = 100 - S
        /\ \A i \in D : i # n => parts[i] = rounded[i]
    BY <1>5, <1>7, <2>1
  <2>5. \A i \in D : parts[i] \in Int /\ rounded[i] \in Int
    <3> SUFFICES ASSUME NEW i \in D PROVE parts[i] \in Int /\ rounded[i] \in Int
      OBVIOUS
    <3>1. rounded[i] \in Nat
      BY <2>2
    <3> QED BY <2>3, <2>4, <3>1
  <2>6. SumOver(parts, D) = 100
    <3>1. SumOver(parts, D) - parts[n] = SumOver(rounded, D) - rounded[n]
      BY <1>5, <2>4, <2>5, SumChange
    <3>2. SumOver(rounded, D) = rounded[n] + S
      BY <1>5, <1>9, <2>5, SumRemove
    <3>3. SumOver(parts, D) \in Int /\ rounded[n] \in Int
      BY <1>5, <2>5, SumInt
    <3> QED BY <2>3, <2>4, <3>1, <3>2, <3>3
  <2>7. 2 * S <= 199 + n
    <3> DEFINE slack == [i \in E |-> (2 * total) * rounded[i] - 200 * weights[i]]
               W == SumOver(weights, E)
               X == SumOver(slack, E)
    <3>1. ASSUME NEW i \in E
          PROVE  /\ rounded[i] \in Int /\ weights[i] \in Int /\ slack[i] \in Int /\ slack[i] <= total
                 /\ (2 * total) * rounded[i] = 200 * weights[i] + slack[i]
      <4> DEFINE x == (2 * total) * rounded[i]
      <4>1. i \in D
        BY <1>5
      <4>2. rounded[i] \in Nat /\ weights[i] \in Nat /\ x <= 200 * weights[i] + total
        BY <1>4, <2>2, <4>1
      <4>3. x \in Int
        BY <2>1, <4>2
      <4>4. slack[i] = x - 200 * weights[i]
        OBVIOUS
      <4> HIDE DEF x, slack
      <4>5. slack[i] \in Int /\ slack[i] <= total /\ x = 200 * weights[i] + slack[i]
        BY <2>1, <4>2, <4>3, <4>4
      <4> QED BY <4>2, <4>5 DEF x
    <3> HIDE DEF slack
    <3>2. (2 * total) * S = 200 * W + X
      <4>1. 2 * total \in Int /\ 200 \in Int
        BY <2>1
      <4>2. \A i \in E : /\ rounded[i] \in Int /\ weights[i] \in Int /\ slack[i] \in Int
                         /\ (2 * total) * rounded[i] = 200 * weights[i] + slack[i]
        BY <3>1
      <4>3. Balance(E, 2 * total, 200, rounded, weights, slack)
        BY <4>2 DEF Balance
      <4>4. (2 * total) * SumOver(rounded, E) = 200 * SumOver(weights, E) + SumOver(slack, E)
        BY <1>5, <4>1, <4>3, SumBalance
      <4> QED BY <1>9, <4>4
    <3>3. X <= total * (n - 1) /\ X \in Int
      <4>1. \A i \in E : slack[i] \in Int /\ slack[i] <= total
        BY <3>1
      <4>2. X <= total * Cardinality(E) /\ X \in Int
        BY <1>5, <2>1, <4>1, SumBound, SumInt
      <4> QED BY <1>5, <4>2
    <3>4. W \in Nat /\ W <= total
      <4>1. (\A i \in E : weights[i] \in Nat) /\ (\A i \in D : weights[i] \in Int) /\ weights[n] \in Nat
        <5>1. (\A i \in D : weights[i] \in Int) /\ n \in D /\ E \subseteq D
          BY <1>4, <1>5
        <5> QED BY <1>4, <5>1
      <4>2. W \in Nat
        BY <1>5, <4>1, SumNat
      <4>3. total = weights[n] + W
        BY <1>5, <1>6, <4>1, SumRemove
      <4> HIDE DEF W
      <4> QED BY <4>1, <4>2, <4>3
    <3>5. total * (2 * S) = (2 * total) * S /\ total * (199 + n) = 200 * total + total * (n - 1)
      <4>1. total \in Int /\ S \in Int /\ n \in Int
        BY <2>1, <2>3
      <4>2. total * (2 * S) = (2 * total) * S
        BY <4>1
      <4>3. total * (200 + (n - 1)) = total * 200 + total * (n - 1) /\ 200 + (n - 1) = 199 + n /\ total * 200 = 200 * total
        BY <4>1, Distribute
      <4> QED BY <4>2, <4>3
    <3> DEFINE y == total * (n - 1)
               z == (2 * total) * S
    <3>6. y \in Int /\ z \in Int
      BY <2>1, <2>3
    <3>7. z <= 200 * total + y
      <4> HIDE DEF y, z, X, W
      <4>1. z = 200 * W + X /\ X <= y
        BY <3>2, <3>3 DEF y, z
      <4> QED BY <2>1, <3>3, <3>4, <3>6, <4>1
    <3>8. total * (2 * S) <= total * (199 + n)
      BY <3>5, <3>7
    <3>9. 2 * S \in Int /\ 199 + n \in Int
      BY <2>3
    <3> QED BY <2>1, <3>8, <3>9, Cancel
  <2>8. -100 < depth * parts[n]
    <3> DEFINE k == (n - 1) \div 2
               u == S - 100
    <3>1. k \in Nat /\ n - 1 <= 2 * k + 1 /\ k * depth < 100
      BY DivMod
    <3>2. u \in Int /\ parts[n] = -u
      BY <2>3, <2>4
    <3>3. u <= k
      <4>1. 2 * u <= n - 1
        BY <2>3, <2>7
      <4> HIDE DEF k, u
      <4> QED BY <3>1, <3>2, <4>1
    <3> HIDE DEF k, u
    <3>4. depth * u <= depth * k
      BY <3>1, <3>2, <3>3, Monotone
    <3>5. depth * k = k * depth /\ depth * parts[n] = -(depth * u) /\ depth * u \in Int /\ depth * k \in Int
      BY <3>1, <3>2
    <3> DEFINE x == depth * u
               y == depth * k
               z == depth * parts[n]
    <3>6. x \in Int /\ y \in Int /\ x <= y /\ y < 100 /\ z = -x
      BY <3>1, <3>4, <3>5
    <3> HIDE DEF x, y, z
    <3>7. -100 < z
      BY <3>6
    <3> QED BY <3>7 DEF z
  <2>9. \A i \in 1..(n - 1) : parts[i] >= 0
    <3> SUFFICES ASSUME NEW i \in 1..(n - 1) PROVE parts[i] >= 0
      OBVIOUS
    <3>1. i \in D /\ i # n
      BY <1>5 DEF E
    <3> QED BY <2>2, <2>4, <3>1
  <2>10. parts \in [1..n -> Int]
    BY <2>4, <2>5 DEF D
  <2> QED BY <2>1, <2>6, <2>8, <2>9, <2>10 DEF Fits, parts, p, D
<1> QED BY <1>10, <1>11

-----------------------------------------------------------------------------
(* Numbers that rise with every step rise over several. *)
LEMMA Rising ==
  ASSUME NEW n \in Nat, NEW g, \A k \in 0..n : g[k] \in Int, \A k \in 1..n : g[k - 1] < g[k]
  PROVE  \A q, r \in 0..n : q <= r => g[q] <= g[r]
<1> DEFINE Good(r) == \A q \in 0..r : g[q] <= g[r]
           Bad == {r \in 0..n : ~Good(r)}
<1>1. Bad = {}
  <2> SUFFICES ASSUME Bad # {} PROVE FALSE
    OBVIOUS
  <2>1. PICK r \in Bad : \A m \in Bad : r <= m
    <3>1. Bad \subseteq Nat
      OBVIOUS
    <3> HIDE DEF Bad
    <3> QED BY <3>1, Least
  <2>2. r \in 0..n /\ ~Good(r)
    BY <2>1
  <2>3. r # 0
    <3> SUFFICES ASSUME r = 0 PROVE Good(r)
      BY <2>2
    <3>1. \A q \in 0..r : q = r
      OBVIOUS
    <3> QED BY <2>2, <3>1
  <2>4. r - 1 \in 0..n /\ r \in 1..n /\ r - 1 < r
    BY <2>2, <2>3
  <2>5. Good(r - 1)
    <3>1. r - 1 \notin Bad
      <4> HIDE DEF Bad
      <4> QED BY <2>1, <2>4
    <3> QED BY <2>4, <3>1
  <2>6. \A q \in 0..r : g[q] <= g[r]
    <3> SUFFICES ASSUME NEW q \in 0..r PROVE g[q] <= g[r]
      OBVIOUS
    <3>1. q = r \/ q \in 0..(r - 1)
      BY <2>4
    <3>2. q \in 0..n
      BY <2>2
    <3> QED BY <2>2, <2>4, <2>5, <3>1, <3>2
  <2> QED BY <2>2, <2>6
<1> QED BY <1>1

(* A split gives the stages consecutive ranges of layers, none of them     *)
(* empty, and leaves no layer out.                                         *)
LEMMA RangesTile ==
  ASSUME NEW n \in Nat \ {0}, NEW depth \in Nat, NEW counts, IsSplit(counts, depth, n)
  PROVE  /\ \A r \in 0..(n - 1) : StageLayers(counts, r) # {}
         /\ \A q, r \in 0..(n - 1) : q < r =>
              \A a \in StageLayers(counts, q), b \in StageLayers(counts, r) : a < b
         /\ \A r \in 0..(n - 1) : StageLayers(counts, r) \subseteq 1..depth
         /\ \A x \in 1..depth : \E r \in 0..(n - 1) : x \in StageLayers(counts, r)
<1> DEFINE g == [k \in 0..n |-> SumFirst(counts, k)]
<1>1. counts \in [1..n -> Nat \ {0}] /\ SumOver(counts, 1..n) = depth
  BY DEF IsSplit
<1>2. \A i \in 1..n : counts[i] \in Int /\ counts[i] > 0
  BY <1>1
<1>3. /\ g[0] = 0 /\ g[n] = depth /\ \A k \in 0..n : g[k] \in Int
      /\ \A k \in 1..n : g[k] = g[k - 1] + counts[k]
  <2>1. /\ SumOver(counts, 1..0) = 0
        /\ \A k \in 0..n : SumOver(counts, 1..k) \in Int
        /\ \A k \in 1..n : SumOver(counts, 1..k) = SumOver(counts, 1..(k - 1)) + counts[k]
    BY <1>2, SumUpTo
  <2>2. \A k \in 0..n : g[k] = SumOver(counts, 1..k)
    BY DEF SumFirst
  <2>3. \A k \in 1..n : k \in 0..n /\ k - 1 \in 0..n
    OBVIOUS
  <2>4. 0 \in 0..n /\ n \in 0..n
    OBVIOUS
  <2> HIDE DEF g
  <2> QED BY <1>1, <2>1, <2>2, <2>3, <2>4
<1>4. \A r \in 0..(n - 1) : /\ StageLayers(counts, r) = (g[r] + 1)..g[r + 1]
                            /\ g[r] < g[r + 1] /\ r \in 0..n /\ r + 1 \in 0..n
  <2> SUFFICES ASSUME NEW r \in 0..(n - 1)
               PROVE  /\ StageLayers(counts, r) = (g[r] + 1)..g[r + 1]
                      /\ g[r] < g[r + 1] /\ r \in 0..n /\ r + 1 \in 0..n
    OBVIOUS
  <2>1. r \in 0..n /\ r + 1 \in 1..n /\ (r + 1) - 1 = r /\ r + 1 \in 0..n
    OBVIOUS
  <2>2. g[r + 1] = g[r] + counts[r + 1] /\ counts[r + 1] > 0 /\ counts[r + 1] \in Int /\ g[r] \in Int
    BY <1>2, <1>3, <2>1
  <2>3. g[r] = SumFirst(counts, r)
    BY <2>1
  <2> HIDE DEF g
  <2>4. StageLayers(counts, r) = (g[r] + 1)..(g[r] + counts[r + 1])
    BY <2>3 DEF StageLayers
  <2> QED BY <2>1, <2>2, <2>4
<1> HIDE DEF g
<1>5. \A q, r \in 0..n : q <= r => g[q] <= g[r]
  <2>1. \A k \in 1..n : g[k - 1] < g[k]
    <3> SUFFICES ASSUME NEW k \in 1..n PROVE g[k - 1] < g[k]
      OBVIOUS
    <3>1. k - 1 \in 0..n /\ g[k] = g[k - 1] + counts[k] /\ counts[k] > 0 /\ counts[k] \in Int
      BY <1>2, <1>3
    <3>2. g[k - 1] \in Int
      BY <1>3, <3>1
    <3> QED BY <3>1, <3>2
  <2> QED BY <1>3, <2>1, Rising
<1>6. ASSUME NEW r \in 0..(n - 1)
      PROVE  StageLayers(counts, r) # {} /\ StageLayers(counts, r) \subseteq 1..depth
  <2>1. /\ StageLayers(counts, r) = (g[r] + 1)..g[r + 1]
        /\ g[r] < g[r + 1] /\ r \in 0..n /\ r + 1 \in 0..n
    BY <1>4
  <2>2. 0 \in 0..n /\ n \in 0..n /\ 0 <= r /\ r + 1 <= n
    OBVIOUS
  <2>3. g[0] <= g[r] /\ g[r + 1] <= g[n] /\ g[r] \in Int /\ g[r + 1] \in Int
    <3>1. g[0] <= g[r]
      BY <1>5, <2>1, <2>2
    <3>2. g[r + 1] <= g[n]
      BY <1>5, <2>1, <2>2
    <3>3. g[r] \in Int /\ g[r + 1] \in Int
      BY <1>3, <2>1
    <3> QED BY <3>1, <3>2, <3>3
  <2>4. 0 <= g[r] /\ g[r + 1] <= depth
    BY <1>3, <2>3
  <2> DEFINE a == g[r]
             b == g[r + 1]
  <2>5. a \in Int /\ b \in Int /\ a < b /\ 0 <= a /\ b <= depth
    BY <2>1, <2>3, <2>4
  <2> HIDE DEF a, b
  <2>6. (a + 1)..b # {} /\ (a + 1)..b \subseteq 1..depth
    BY <2>5
  <2> QED BY <2>1, <2>6 DEF a, b
<1>7. ASSUME NEW q \in 0..(n - 1), NEW r \in 0..(n - 1), q < r,
             NEW a \in StageLayers(counts, q), NEW b \in StageLayers(counts, r)
      PROVE  a < b
  <2>1. a \in (g[q] + 1)..g[q + 1] /\ b \in (g[r] + 1)..g[r + 1] /\ r \in 0..n /\ q + 1 \in 0..n /\ q \in 0..n /\ r + 1 \in 0..n
    BY <1>4
  <2>2. g[q + 1] <= g[r] /\ g[q + 1] \in Int /\ g[r] \in Int /\ g[q] \in Int /\ g[r + 1] \in Int
    <3>1. q + 1 <= r
      BY <1>7
    <3> QED BY <1>3, <1>5, <2>1, <3>1
  <2> QED BY <2>1, <2>2
<1>8. ASSUME NEW x \in 1..depth
      PROVE  \E r \in 0..(n - 1) : x \in StageLayers(counts, r)
  <2> DEFINE R == {k \in 0..n : x <= g[k]}
  <2>1. n \in R
    BY <1>3
  <2>2. PICK k \in R : \A m \in R : k <= m
    <3>1. R \subseteq Nat /\ R # {}
      BY <2>1
    <3> HIDE DEF R
    <3> QED BY <3>1, Least
  <2>3. k \in 0..n /\ x <= g[k]
    BY <2>2
  <2>4. k # 0
    BY <1>3, <2>3
  <2>5. k - 1 \in 0..(n - 1) /\ k - 1 \in 0..n /\ (k - 1) + 1 = k
    BY <2>3, <2>4
  <2>6. k - 1 \notin R
    <3> HIDE DEF R
    <3> QED BY <2>2, <2>3, <2>5
  <2>7. g[k - 1] < x /\ g[k - 1] \in Int
    BY <1>3, <2>5, <2>6
  <2>8. StageLayers(counts, k - 1) = (g[k - 1] + 1)..g[k]
    BY <1>4, <2>5
  <2>9. x \in StageLayers(counts, k - 1)
    BY <1>3, <2>3, <2>7, <2>8
  <2> QED BY <2>5, <2>9
<1> QED BY <1>6, <1>7, <1>8

-----------------------------------------------------------------------------
(* What a stage keeps, of any family. *)
LEMMA HeldIs ==
  ASSUME NEW family \in Families, NEW tied \in BOOLEAN, NEW counts, NEW r
  PROVE  Held(family, tied, counts, r) = Body(counts, r) \union HeadOf(counts, r, tied)
<1>1. \/ family = "llama" \/ family = "qwen2" \/ family = "mistral" \/ family = "phi3"
  BY DEF Families
<1>2. CASE family = "llama"
  BY <1>2 DEF Held, LlamaKeeps
<1>3. CASE family = "qwen2"
  BY <1>3 DEF Held, QwenKeeps
<1>4. CASE family = "mistral"
  BY <1>4 DEF Held, MistralKeeps
<1>5. CASE family = "phi3"
  BY <1>5 DEF Held, Phi3Keeps
<1> QED BY <1>1, <1>2, <1>3, <1>4, <1>5

(* What the stage of rank r of a split keeps. *)
LEMMA StageHolds ==
  ASSUME NEW n \in Nat \ {0}, NEW depth \in Nat, NEW counts, IsSplit(counts, depth, n),
         NEW family \in Families, NEW tied \in BOOLEAN, NEW r \in 0..(n - 1),
         NEW held, held = Held(family, tied, counts, r)
  PROVE  /\ {p[2] : p \in {q \in held : q[1] = "layer"}} = StageLayers(counts, r)
         /\ held \subseteq Whole(depth)
         /\ <<"head", 0>> \in held /\ tied => <<"embed", 0>> \in held
         /\ \A k \in StageLayers(counts, r) : <<"layer", k>> \in held
         /\ r = 0 => <<"embed", 0>> \in held
         /\ r = n - 1 => <<"norm", 0>> \in held /\ <<"head", 0>> \in held
<1> DEFINE SL == StageLayers(counts, r)
           LL == {<<"layer", k>> : k \in SL}
           emb == <<"embed", 0>>
           nrm == <<"norm", 0>>
           hd == <<"head", 0>>
<1>1. Len(counts) = n
  BY DEF IsSplit
<1>2. SL \subseteq 1..depth
  BY RangesTile
<1>3. held = Body(counts, r) \union HeadOf(counts, r, tied)
  BY HeldIs
<1>4. Body(counts, r) = LL \union (IF r = 0 THEN {emb} ELSE {}) \union (IF r = n - 1 THEN {nrm} ELSE {})
  BY <1>1 DEF Body
<1>5. HeadOf(counts, r, tied) = IF r # n - 1 THEN {} ELSE {hd} \union (IF tied THEN {emb} ELSE {})
  BY <1>1 DEF HeadOf
<1>6. Whole(depth) = {<<"layer", k>> : k \in 1..depth} \union {emb, nrm, hd}
  BY DEF Whole
<1> HIDE DEF SL
<1>7. \A x \in held : x \in LL \/ x \in {emb, nrm, hd}
  BY <1>3, <1>4, <1>5
<1>8. held \subseteq Whole(depth)
  <2>1. \A x \in LL : \E k \in 1..depth : x = <<"layer", k>>
    BY <1>2
  <2> QED BY <1>6, <1>7, <2>1
<1>9. \A k \in SL : <<"layer", k>> \in held
  BY <1>3, <1>4
<1>10. {p[2] : p \in {q \in held : q[1] = "layer"}} = SL
  <2>1. ASSUME NEW p \in held, p[1] = "layer"
        PROVE  p[2] \in SL
    <3>1. p \in LL
      BY <1>7, <2>1
    <3> QED BY <3>1
  <2>2. ASSUME NEW k \in SL
        PROVE  \E p \in held : p[1] = "layer" /\ k = p[2]
    <3>1. <<"layer", k>> \in held /\ <<"layer", k>>[1] = "layer" /\ <<"layer", k>>[2] = k
      BY <1>9
    <3> QED BY <3>1
  <2> QED BY <2>1, <2>2
<1>11. (r = 0 => emb \in held) /\ (r = n - 1 => nrm \in held /\ hd \in held)
  BY <1>3, <1>4, <1>5
<1>12. hd \in held /\ tied => emb \in held
  <2>1. hd \notin LL /\ hd # emb /\ hd # nrm
    OBVIOUS
  <2>2. hd \in held => r = n - 1
    BY <1>3, <1>4, <1>5, <2>1
  <2> QED BY <1>3, <1>5, <2>2
<1> QED BY <1>8, <1>9, <1>10, <1>11, <1>12 DEF SL

(* A stage finds all it keeps in the files it reads. *)
LEMMA StageIsLoaded ==
  ASSUME NEW depth, NEW tied \in BOOLEAN, NEW held, NEW fileOf,
         DOMAIN fileOf = Stored(tied, depth), held \subseteq Whole(depth),
         <<"head", 0>> \in held /\ tied => <<"embed", 0>> \in held
  PROVE  held \subseteq Loaded(held, fileOf)
<1> DEFINE stored == held \intersect DOMAIN fileOf
           read == {p \in stored : fileOf[p] \in {fileOf[q] : q \in stored}}
           emb == <<"embed", 0>>
           hd == <<"head", 0>>
<1>1. read = stored
  OBVIOUS
<1>2. Loaded(held, fileOf) = read \union (IF emb \in read /\ hd \notin DOMAIN fileOf THEN {hd} ELSE {})
  BY DEF Loaded
<1>3. emb \in Whole(depth) /\ emb # hd
  BY DEF Whole
<1>4. ASSUME NEW p \in held PROVE p \in Loaded(held, fileOf)
  <2>1. CASE p \in Stored(tied, depth)
    BY <1>1, <1>2, <2>1
  <2>2. CASE p \notin Stored(tied, depth)
    <3>1. p = hd /\ tied /\ hd \notin DOMAIN fileOf
      BY <2>2 DEF Stored
    <3>2. emb \in held /\ emb \in Stored(tied, depth)
      BY <1>3, <3>1 DEF Stored
    <3> QED BY <1>1, <1>2, <3>1, <3>2
  <2> QED BY <2>1, <2>2
<1> QED BY <1>4

-----------------------------------------------------------------------------
(* The nodes of a command are those of its ranks, it has none before it    *)
(* begins, and the command of the root begins when the root has answered   *)
(* everybody.                                                              *)
OwnNodes(c) == \A r \in Ranks : node[c][r] # "none" => r \in RanksOf(c) /\ command[c] # "start"

BegunInv ==
  /\ mode \in {"peers", "local", "single", "connect"} /\ layers \in LayerCounts /\ fleet \in Fleets
  /\ \A c \in Commands : OwnNodes(c)
  /\ mode = "peers" /\ command[0] # "start" => root = "done"

(* Nothing has been started in the beginning. *)
LEMMA BegunInit == StartupInit => BegunInv
<1>. SUFFICES ASSUME StartupInit PROVE BegunInv
  OBVIOUS
<1>1. mode \in {"peers", "local", "single", "connect"} /\ layers \in LayerCounts /\ fleet \in Fleets
  BY DEF StartupInit, ExchangeInit
<1>2. \A c \in Commands : OwnNodes(c)
  BY DEF StartupInit, OwnNodes
<1>3. ASSUME mode = "peers" PROVE command[0] = "start"
  <2>1. command = [c \in Commands |-> IF c \in Used THEN "start" ELSE "ended"]
    BY DEF StartupInit
  <2>2. 0 \in Commands
    BY ReportersAreFinite DEF Commands
  <2>3. Used = Commands
    BY <1>3 DEF Used
  <2>. QED
    BY <2>1, <2>2, <2>3
<1>. QED
  BY <1>1, <1>2, <1>3 DEF BegunInv

(* A step of command c: its nodes change within its ranks, and it does not *)
(* go back to its start.                                                   *)
LEMMA OwnNodesStay ==
  ASSUME StrayInv, BegunInv, UNCHANGED <<mode, layers, fleet, root>>, NEW c \in Commands,
         \A d \in Commands \ {c} : command'[d] = command[d] /\ node'[d] = node[d],
         command[c] # "start" => command'[c] # "start",
         \A r \in Ranks : node'[c][r] = node[c][r] \/ (r \in RanksOf(c) /\ command'[c] # "start"),
         mode = "peers" /\ c = 0 /\ command[0] = "start" /\ command'[0] # "start" => root = "done"
  PROVE  BegunInv'
<1>1. \A d \in Commands : RanksOf(d)' = RanksOf(d)
  BY DEF RanksOf
<1>2. ASSUME NEW d \in Commands PROVE OwnNodes(d)'
  <2>1. OwnNodes(d)
    BY DEF BegunInv
  <2>2. CASE d = c
    <3>1. ASSUME NEW r \in Ranks, node'[c][r] # "none"
          PROVE  r \in RanksOf(c)' /\ command'[c] # "start"
      BY <1>1, <2>1, <2>2, <3>1 DEF OwnNodes
    <3>. QED
      BY <2>2, <3>1 DEF OwnNodes
  <2>3. CASE d # c
    <3>1. command'[d] = command[d] /\ node'[d] = node[d] /\ RanksOf(d)' = RanksOf(d)
      BY <1>1, <2>3
    <3>. QED
      BY <2>1, <3>1 DEF OwnNodes
  <2>. QED
    BY <2>2, <2>3
<1>3. mode' = "peers" /\ command'[0] # "start" => root' = "done"
  <2>1. 0 \in Commands
    BY ReportersAreFinite DEF Commands
  <2>. QED
    BY <2>1 DEF BegunInv
<1>. QED
  BY <1>2, <1>3 DEF BegunInv

(* Every step keeps this. *)
LEMMA BegunStep == StrayInv /\ BegunInv /\ [StartupNext]_startupVars => BegunInv'
<1>. SUFFICES ASSUME StrayInv, BegunInv, [StartupNext]_startupVars PROVE BegunInv'
  OBVIOUS
<1>. USE DEF StrayInv, ProcessTypes
<1>1. \A c \in Commands : RanksOf(c) \subseteq Ranks /\ RanksOf(c) \subseteq Nat
  <2>1. Ranks \subseteq Nat
    BY ReportersAreFinite DEF Ranks
  <2>. QED
    BY <2>1
<1>2. CASE UNCHANGED <<launchVars, exchangeVars>>
  <2>1. UNCHANGED <<mode, layers, fleet, root, command, node>>
    BY <1>2 DEF launchVars, exchangeVars
  <2>2. \A c \in Commands : OwnNodes(c)' <=> OwnNodes(c)
    BY <2>1 DEF OwnNodes, RanksOf
  <2>. QED
    BY <2>1, <2>2 DEF BegunInv
<1>3. CASE Exchange
  <2>1. UNCHANGED <<mode, layers, command, node>> /\ ExchangeNext
    BY <1>3 DEF Exchange, launchVars
  <2>2. fleet' = fleet /\ (root = "done" => root' = "done")
    BY <2>1 DEF ExchangeNext, RootListens, AcceptReport, RootComputes, RootListensAgain, Answers,
                AcceptTimesOut, Connect, Refused
  <2>3. \A c \in Commands : OwnNodes(c)' <=> OwnNodes(c)
    BY <2>1 DEF OwnNodes, RanksOf
  <2>. QED
    BY <2>1, <2>2, <2>3 DEF BegunInv
<1>4. ASSUME NEW c \in Commands,
             Begin(c) \/ SpawnFails(c) \/ Settle(c) \/ Terminate(c) \/ End(c)
      PROVE  BegunInv'
  <2>1. UNCHANGED <<mode, layers, fleet, root, node>>
    BY <1>4 DEF Begin, SpawnFails, Settle, Terminate, End, otherVars, exchangeVars
  <2>2. \E v \in {"spawn", "watch", "stop", "ended", "crashed"} : command' = [command EXCEPT ![c] = v]
    BY <1>4 DEF Begin, SpawnFails, Settle, Terminate, End
  <2>3. command'[c] # "start" /\ \A d \in Commands \ {c} : command'[d] = command[d]
    BY <2>2
  <2>4. mode = "peers" /\ c = 0 /\ command[0] = "start" => root = "done"
    BY <1>4 DEF Begin, SpawnFails, Settle, Terminate, End
  <2>. QED
    BY <2>1, <2>3, <2>4, OwnNodesStay
<1>5. ASSUME NEW c \in Commands, NEW r \in RanksOf(c), NEW v \in {"running", "exited"},
             node' = [node EXCEPT ![c][r] = v], UNCHANGED <<mode, layers, fleet, root, command>>,
             command[c] # "start"
      PROVE  BegunInv'
  <2>1. /\ \A d \in Commands \ {c} : node'[d] = node[d]
        /\ node'[c] = [node[c] EXCEPT ![r] = v]
    BY <1>5
  <2>2. \A q \in Ranks : node'[c][q] = node[c][q] \/ q = r
    BY <2>1
  <2>. QED
    BY <1>5, <2>1, <2>2, OwnNodesStay
<1>6. ASSUME NEW c \in Commands, Spawn(c) PROVE BegunInv'
  <2>. DEFINE S == RanksOf(c) \ Started(c)
              r == Min(S)
  <2>1. node' = [node EXCEPT ![c][r] = "running"] /\ command[c] = "spawn" /\ Started(c) # RanksOf(c)
    BY <1>6 DEF Spawn
  <2>2. S # {} /\ S \subseteq Nat
    BY <1>1, <2>1 DEF Started
  <2>3. r \in S
    <3>. HIDE DEF S
    <3>. QED
      BY <2>2, MinIsLeast
  <2>4. UNCHANGED <<mode, layers, fleet, root, command>>
    BY <1>6 DEF Spawn, otherVars, exchangeVars
  <2>. HIDE DEF r
  <2>. QED
    BY <1>5, <2>1, <2>3, <2>4
<1>7. ASSUME NEW c \in Commands, Kill(c) PROVE BegunInv'
  <2>. DEFINE S == Alive(c)
              r == Min(S)
  <2>1. node' = [node EXCEPT ![c][r] = "exited"] /\ command[c] = "stop" /\ S # {}
    BY <1>7 DEF Kill
  <2>2. S \subseteq RanksOf(c) /\ S \subseteq Nat
    BY <1>1 DEF Alive
  <2>3. r \in S
    <3>. HIDE DEF S
    <3>. QED
      BY <2>1, <2>2, MinIsLeast
  <2>4. UNCHANGED <<mode, layers, fleet, root, command>>
    BY <1>7 DEF Kill, otherVars, exchangeVars
  <2>. HIDE DEF r
  <2>. QED
    BY <1>5, <2>1, <2>2, <2>3, <2>4
<1>8. ASSUME NEW c \in Commands, NEW r \in RanksOf(c), Exit(c, r) PROVE BegunInv'
  <2>1. r \in Ranks /\ node[c][r] # "none"
    BY <1>8 DEF Exit
  <2>2. command[c] # "start"
    BY <2>1 DEF BegunInv, OwnNodes
  <2>3. UNCHANGED <<mode, layers, fleet, root, command>> /\ node' = [node EXCEPT ![c][r] = "exited"]
    BY <1>8 DEF Exit, otherVars, exchangeVars
  <2>. QED
    BY <1>5, <2>2, <2>3
<1>9. ASSUME NEW k \in Ranks, NativeStop(k) PROVE BegunInv'
  <2>1. UNCHANGED <<mode, layers, fleet, root, command, node>>
    BY <1>9 DEF NativeStop, otherVars, exchangeVars
  <2>2. \A c \in Commands : OwnNodes(c)' <=> OwnNodes(c)
    BY <2>1 DEF OwnNodes, RanksOf
  <2>. QED
    BY <2>1, <2>2 DEF BegunInv
<1>10. CASE Connecting
  BY <1>2, <1>10 DEF Connecting
<1>11. CASE UNCHANGED startupVars
  BY <1>2, <1>11 DEF startupVars, otherVars
<1>. QED
  BY <1>3, <1>4, <1>6, <1>7, <1>8, <1>9, <1>10, <1>11 DEF StartupNext, Launch

(* What get_hardware_info reports. *)
LEMMA MachinesAreKnown ==
  ASSUME NEW f \in Fleets
  PROVE  [i \in 1..Size |-> HardwareInfo(f[i])] \in Known(Size)
<1>1. ASSUME NEW i \in 1..Size
      PROVE  HardwareInfo(f[i]) \in [type : {"cuda", "mps", "cpu"}, memory : Nat]
  <2>1. f[i] \in Machines
    BY ExchangeAssumption
  <2>. DEFINE m == f[i]
  <2>2. m \in Machines
    BY <2>1
  <2>. HIDE DEF m
  <2>3. m.cuda \in Nat /\ m.ram \in Nat /\ m.free \in Nat /\ m.mps \in BOOLEAN /\ m.psutil \in BOOLEAN
    BY <2>2 DEF Machines
  <2>4. Unified(m) \in Nat /\ Available(m) \in Nat
    BY <2>3 DEF Unified, Available
  <2>5. HardwareInfo(m) \in [type : {"cuda", "mps", "cpu"}, memory : Nat]
    BY <2>3, <2>4 DEF HardwareInfo
  <2>. QED
    BY <2>5 DEF m
<1>. QED
  BY <1>1 DEF Known

(* The layers and the nodes are so few that rounding does not take a whole *)
(* layer from the last node.  StagesTile is false without it: of shares of *)
(* 33.6, 33.6, 32.6 and 0.2 percent the proportions are 34, 34, 33 and -1, *)
(* and a model of 126 layers is counted as 43, 43, 41 and -1.              *)
FewLayers == \A l \in LayerCounts : ((Size - 1) \div 2) * l < 100

(* All nodes of a pipeline that runs count the layers alike, by one split. *)
LEMMA StagesSplit ==
  ASSUME FewLayers, BegunInv, RootGoesLast, NEW owner \in Pipelines, AllRun(owner)
  PROVE  mode # "single" /\ \E counts : IsSplit(counts, layers, Size) /\ \A r \in Ranks : Counts(r) = counts
<1>1. Size \in Nat \ {0} /\ layers \in Nat /\ Size <= layers /\ ((Size - 1) \div 2) * layers < 100
  <2>1. Size \in Nat \ {0, 1} /\ layers \in Nat \ 0..(Size - 1)
    BY ExchangeAssumption, StartupAssumption DEF BegunInv
  <2>2. ((Size - 1) \div 2) * layers < 100
    BY DEF FewLayers, BegunInv
  <2>. QED
    BY <2>1, <2>2
<1>2. 0 \in Ranks /\ 1 \in Ranks /\ Commands = Ranks
  BY ExchangeAssumption DEF Ranks, Commands
<1>3. ASSUME NEW c \in Commands, NEW r \in Ranks, node[c][r] = "running"
      PROVE  r \in RanksOf(c) /\ command[c] # "start"
  BY <1>3 DEF BegunInv, OwnNodes
<1>4. CASE mode = "peers"
  <2>1. owner = [r \in Ranks |-> r]
    BY <1>4 DEF Pipelines
  <2>2. node[0][0] = "running"
    BY <1>2, <2>1 DEF AllRun
  <2>3. root = "done"
    BY <1>2, <1>3, <1>4, <2>2 DEF BegunInv
  <2>. DEFINE machines == [i \in 1..Size |-> HardwareInfo(fleet[i])]
              p == ComputeProportions(machines)
              counts == ProportionalSplit(layers, p)
  <2>4. machines \in Known(Size)
    BY MachinesAreKnown DEF BegunInv
  <2>5. \A r \in Ranks : known[r] = p
    BY <2>3 DEF RootGoesLast
  <2>. HIDE DEF machines
  <2>6. Fits(p, layers, Size)
    BY <1>1, <2>4, SharesFit
  <2>. HIDE DEF p
  <2>7. IsSplit(counts, layers, Size)
    BY <1>1, <2>6, ProportionalSplitDivides
  <2>8. \A r \in Ranks : Counts(r) = counts
    BY <1>4, <2>5 DEF Counts
  <2>. HIDE DEF counts
  <2>. QED
    BY <1>4, <2>7, <2>8
<1>5. CASE mode = "local"
  <2>. DEFINE counts == EvenSplit(layers, Size)
  <2>1. IsSplit(counts, layers, Size)
    BY <1>1, EvenSplitDivides
  <2>2. \A r \in Ranks : Counts(r) = counts
    BY <1>5 DEF Counts
  <2>. HIDE DEF counts
  <2>. QED
    BY <1>5, <2>1, <2>2
<1>6. CASE mode = "single"
  <2>1. Used = {0, 1}
    BY <1>6 DEF Used
  <2>2. PICK c \in {0, 1} : owner = [r \in Ranks |-> c]
    BY <1>6, <2>1 DEF Pipelines
  <2>3. c \in Commands /\ node[c][1] = "running"
    BY <1>2, <2>2 DEF AllRun
  <2>4. RanksOf(c) = {0}
    BY <1>6 DEF RanksOf
  <2>5. 1 \in {0}
    BY <1>2, <1>3, <2>3, <2>4
  <2>. QED
    BY <2>5
<1>7. CASE mode = "connect"
  <2>1. Used = {}
    BY <1>7 DEF Used
  <2>. QED
    BY <1>7, <2>1 DEF Pipelines
<1>. QED
  BY <1>4, <1>5, <1>6, <1>7 DEF BegunInv

(* What the stages of a split keep tiles the model. *)
LEMMA SplitTiles ==
  ASSUME NEW counts, layers \in Nat, IsSplit(counts, layers, Size),
         NEW family \in Families, NEW tied \in BOOLEAN, NEW stages,
         stages = [r \in Ranks |-> Held(family, tied, counts, r)]
  PROVE  Tile(stages, tied)
<1>. DEFINE Layers(r) == {p[2] : p \in {q \in stages[r] : q[1] = "layer"}}
            SL(r) == StageLayers(counts, r)
            n == Size
<1>1. n \in Nat \ {0} /\ Ranks = 0..(n - 1) /\ 0 \in Ranks /\ n - 1 \in Ranks
  BY ExchangeAssumption DEF Ranks
<1>2. ASSUME NEW r \in Ranks
      PROVE  /\ Layers(r) = SL(r) /\ stages[r] \subseteq Whole(layers)
             /\ <<"head", 0>> \in stages[r] /\ tied => <<"embed", 0>> \in stages[r]
             /\ \A k \in SL(r) : <<"layer", k>> \in stages[r]
             /\ r = 0 => <<"embed", 0>> \in stages[r]
             /\ r = n - 1 => <<"norm", 0>> \in stages[r] /\ <<"head", 0>> \in stages[r]
  <2>1. stages[r] = Held(family, tied, counts, r)
    OBVIOUS
  <2>. DEFINE held == stages[r]
  <2>. HIDE DEF held
  <2>2. r \in 0..(n - 1) /\ held = Held(family, tied, counts, r)
    BY <1>1, <2>1 DEF held
  <2>3. /\ {p[2] : p \in {q \in held : q[1] = "layer"}} = StageLayers(counts, r)
        /\ held \subseteq Whole(layers)
        /\ <<"head", 0>> \in held /\ tied => <<"embed", 0>> \in held
        /\ \A k \in StageLayers(counts, r) : <<"layer", k>> \in held
        /\ r = 0 => <<"embed", 0>> \in held
        /\ r = n - 1 => <<"norm", 0>> \in held /\ <<"head", 0>> \in held
    BY <1>1, <2>2, StageHolds
  <2>. QED
    BY <2>3 DEF held
<1>3. /\ \A r \in Ranks : SL(r) # {}
      /\ \A q, r \in Ranks : q < r => \A a \in SL(q), b \in SL(r) : a < b
      /\ \A x \in 1..layers : \E r \in Ranks : x \in SL(r)
  BY <1>1, RangesTile
<1>. HIDE DEF Layers, SL
<1>4. \A r \in Ranks : stages[r] \subseteq Loaded(stages[r], FileOf(tied))
  <2>1. DOMAIN FileOf(tied) = Stored(tied, layers)
    BY DEF FileOf
  <2>. DEFINE fileOf == FileOf(tied)
  <2>. HIDE DEF fileOf
  <2>2. \A held : held \subseteq Whole(layers) /\ (<<"head", 0>> \in held /\ tied => <<"embed", 0>> \in held)
                 => held \subseteq Loaded(held, fileOf)
    BY <2>1, StageIsLoaded DEF fileOf
  <2>. QED
    BY <1>2, <2>2, Zenon DEF fileOf
<1>5. UNION Range(stages) = Whole(layers)
  <2>1. Range(stages) = {stages[r] : r \in Ranks}
    BY DEF Range
  <2>. DEFINE emb == <<"embed", 0>>
              nrm == <<"norm", 0>>
              hd == <<"head", 0>>
  <2>2. Whole(layers) = {<<"layer", k>> : k \in 1..layers} \union {emb, nrm, hd}
    BY DEF Whole
  <2>3. \A k \in 1..layers : \E r \in Ranks : <<"layer", k>> \in stages[r]
    BY <1>2, <1>3
  <2>4. emb \in stages[0] /\ nrm \in stages[n - 1] /\ hd \in stages[n - 1]
    BY <1>1, <1>2
  <2>5. \A x \in Whole(layers) : \E r \in Ranks : x \in stages[r]
    BY <1>1, <2>2, <2>3, <2>4
  <2>6. \A r \in Ranks : stages[r] \subseteq Whole(layers)
    BY <1>2
  <2>. QED
    BY <2>1, <2>5, <2>6, Zenon
<1>6. \A r \in Ranks : Layers(r) # {}
  BY <1>2, <1>3
<1>7. \A q, r \in Ranks : q < r => \A a \in Layers(q), b \in Layers(r) : a < b
  BY <1>2, <1>3
<1>. QED
  BY <1>4, <1>5, <1>6, <1>7 DEF Tile, Layers

(* When all nodes of a pipeline of any size run, on any machines, and      *)
(* FewLayers holds, their stages tile the model.                           *)
THEOREM StagesTileTheModel == ASSUME FewLayers PROVE StartupSpec => []StagesTile
<1>1. BegunInv /\ RootGoesLast => StagesTile
  <2>. SUFFICES ASSUME BegunInv, RootGoesLast, NEW owner \in Pipelines, AllRun(owner),
                       NEW family \in Families, NEW tied \in BOOLEAN
                PROVE  Tile([r \in Ranks |-> Stage(owner[r], r, family, tied)], tied)
    BY DEF StagesTile
  <2>1. PICK counts : IsSplit(counts, layers, Size) /\ \A r \in Ranks : Counts(r) = counts
    BY StagesSplit
  <2>2. mode # "single"
    BY StagesSplit
  <2>. DEFINE stages == [r \in Ranks |-> Held(family, tied, counts, r)]
  <2>3. \A r \in Ranks : Stage(owner[r], r, family, tied) = Held(family, tied, counts, r)
    BY <2>1, <2>2 DEF Stage
  <2>4. [r \in Ranks |-> Stage(owner[r], r, family, tied)] = stages
    BY <2>3
  <2>5. layers \in Nat
    BY StartupAssumption DEF BegunInv
  <2>. HIDE DEF stages
  <2>6. Tile(stages, tied)
    BY <2>1, <2>5, SplitTiles DEF stages
  <2>. QED
    BY <2>4, <2>6
<1>. QED
  BY <1>1, BegunInit, BegunStep, StrayInit, StrayStep, ProportionsReachEveryNode, PTL DEF StartupSpec
=============================================================================
