-------------------------------- MODULE Startup --------------------------------
(***************************************************************************)
(* `ravnest native', `native-stop' and the node processes: cmd_native,     *)
(* _run_single_node and cmd_native_stop of cli.py, with the part of        *)
(* deploy/entrypoint.py that divides the model.  With --peers every        *)
(* machine runs one command with one node, after the exchange of hardware; *)
(* otherwise one machine runs all nodes of a command, and may be asked to  *)
(* run a second one.  A command stays and watches its nodes, or writes     *)
(* their process ids to a file and ends.                                   *)
(*                                                                         *)
(* A node may exit at any time: its model does not fit, its port is taken, *)
(* a peer does not answer.  Process ids are not reused here.               *)
(***************************************************************************)
EXTENDS HardwareExchange, Sessions

CONSTANTS LayerCounts, \* possible numbers of layers
          Files        \* number of checkpoint files

ASSUME StartupAssumption ==
  /\ LayerCounts \subseteq Nat \ 0..(Size - 1)
  /\ Files \in Nat \ {0}

Commands == Ranks

VARIABLES mode,        \* "peers", "local" or "single", or "connect"
          layers,      \* of the model
          command,     \* where a command is
          node,        \* node[c][r], the process of rank r that c has started
          asked,       \* processes SIGTERM has been sent to
          pidFile,     \* of every machine: the processes it names
          overwritten  \* the processes a file named before another command wrote it

launchVars == <<mode, layers, command, node, asked, pidFile, overwritten>>
otherVars == <<exchangeVars, sessionVars>>
startupVars == <<otherVars, launchVars>>

Machine(c) == IF mode = "peers" THEN c ELSE 0
RanksOf(c) == CASE mode = "peers" -> {c} [] mode = "local" -> Ranks [] OTHER -> {0}
Used == CASE mode = "peers" -> Commands [] mode = "connect" -> {} [] OTHER -> {0, 1}

StartupInit ==
  /\ ExchangeInit /\ SessionsInit
  /\ mode \in {"peers", "local", "single", "connect"}
  /\ layers \in LayerCounts
  /\ IF mode = "connect" THEN layers = Min(LayerCounts) ELSE backend = "dynamic"
  /\ mode # "peers" => fleet = CHOOSE f \in Fleets : TRUE
  /\ command = [c \in Commands |-> IF c \in Used THEN "start" ELSE "ended"]
  /\ node = [c \in Commands |-> [r \in Ranks |-> "none"]]
  /\ asked = {}
  /\ pidFile = [k \in Ranks |-> {}]
  /\ overwritten = {}

(* The exchange, before any process is started. *)
Exchange ==
  /\ mode = "peers"
  /\ ExchangeNext
  /\ UNCHANGED <<launchVars, sessionVars>>

(* The sessions of the nodes of one pipeline, all started. *)
Connecting ==
  /\ mode = "connect"
  /\ SessionsNext
  /\ UNCHANGED <<launchVars, exchangeVars>>

Begin(c) ==
  /\ command[c] = "start"
  /\ mode = "peers" => known[c] # Nothing /\ (c = 0 => root = "done")
  /\ command' = [command EXCEPT ![c] = "spawn"]
  /\ UNCHANGED <<otherVars, mode, layers, node, asked, pidFile, overwritten>>

Started(c) == {r \in RanksOf(c) : node[c][r] # "none"}
Alive(c) == {r \in RanksOf(c) : node[c][r] = "running"}

(* Popen, in the order of the ranks. *)
Spawn(c) ==
  /\ command[c] = "spawn" /\ Started(c) # RanksOf(c)
  /\ node' = [node EXCEPT ![c][Min(RanksOf(c) \ Started(c))] = "running"]
  /\ UNCHANGED <<otherVars, mode, layers, command, asked, pidFile, overwritten>>

(* Popen raises, and only KeyboardInterrupt is caught; a single node is    *)
(* started outside the try, and Ctrl-C may come before it.                 *)
SpawnFails(c) ==
  /\ command[c] = "spawn" /\ (Started(c) # RanksOf(c) \/ mode = "single")
  /\ command' = [command EXCEPT ![c] = "crashed"]
  /\ UNCHANGED <<otherVars, mode, layers, node, asked, pidFile, overwritten>>

(* Mutant: only the first process is written down. *)
PidsFirst(c) == {<<c, Min(Started(c))>>}

Pids(c) == {<<c, r>> : r \in Started(c)}

(* With --background the file is written, otherwise the watching begins. *)
Settle(c) ==
  /\ command[c] = "spawn" /\ Started(c) = RanksOf(c)
  /\ \/ /\ command' = [command EXCEPT ![c] = "ended"]
        /\ pidFile' = [pidFile EXCEPT ![Machine(c)] = Pids(c)]
        /\ overwritten' = overwritten \union pidFile[Machine(c)]
     \/ command' = [command EXCEPT ![c] = "watch"] /\ UNCHANGED <<pidFile, overwritten>>
  /\ UNCHANGED <<otherVars, mode, layers, node, asked>>

(* Ctrl-C, or poll() finds that a node has exited: SIGTERM to all others.  *)
(* _run_single_node ends without more when its node exits.                 *)
Terminate(c) ==
  /\ command[c] = "watch" \/ (command[c] = "spawn" /\ mode # "single")
  /\ command' = [command EXCEPT ![c] = "stop"]
  /\ asked' = asked \union {<<c, r>> : r \in Alive(c)}
  /\ UNCHANGED <<otherVars, mode, layers, node, pidFile, overwritten>>

(* A process that has not obeyed within 10 s is killed. *)
Kill(c) ==
  /\ command[c] = "stop" /\ Alive(c) # {}
  /\ node' = [node EXCEPT ![c][Min(Alive(c))] = "exited"]
  /\ UNCHANGED <<otherVars, mode, layers, command, asked, pidFile, overwritten>>

End(c) ==
  /\ command[c] = "stop" /\ Alive(c) = {}
  /\ command' = [command EXCEPT ![c] = "ended"]
  /\ UNCHANGED <<otherVars, mode, layers, node, asked, pidFile, overwritten>>

(* native-stop: SIGTERM to every process the file names, and no waiting. *)
NativeStop(k) ==
  /\ pidFile[k] # {}
  /\ asked' = asked \union {p \in pidFile[k] : node[p[1]][p[2]] = "running"}
  /\ pidFile' = [pidFile EXCEPT ![k] = {}]
  /\ UNCHANGED <<otherVars, mode, layers, command, node, overwritten>>

(* A node exits by itself, or because it has been asked to. *)
Exit(c, r) ==
  /\ node[c][r] = "running"
  /\ node' = [node EXCEPT ![c][r] = "exited"]
  /\ UNCHANGED <<otherVars, mode, layers, command, asked, pidFile, overwritten>>

Launch ==
  \/ \E c \in Commands : \/ Begin(c) \/ Spawn(c) \/ SpawnFails(c) \/ Settle(c)
                         \/ Terminate(c) \/ Kill(c) \/ End(c)
                         \/ \E r \in RanksOf(c) : Exit(c, r)
  \/ \E k \in Ranks : NativeStop(k)

StartupNext == Exchange \/ Connecting \/ Launch
StartupSpec == StartupInit /\ [][StartupNext]_startupVars

(* The root, the reporters and the threads of the sessions go on; what     *)
(* waits with a timeout gives up.  No node has to exit.                    *)
StartupFairSpec ==
  StartupSpec /\ WF_startupVars(Exchange) /\ WF_startupVars(Connecting /\ SessionStep)

-----------------------------------------------------------------------------
(* What a node holds: configure_model with the proportions that it was     *)
(* started with, or the even split.                                        *)
Counts(r) ==
  IF mode = "peers" THEN ProportionalSplit(layers, known[r])
  ELSE EvenSplit(layers, Size)

Stage(c, r, family, tied) ==
  IF mode = "single" THEN Whole(layers) ELSE Held(family, tied, Counts(r), r)

(* Layers are spread over the checkpoint files in order, with the          *)
(* embedding in the first file and the rest in the last.                   *)
FileOf(tied) == [p \in Stored(tied, layers) |->
             CASE p[1] = "embed" -> 1
               [] p[1] = "layer" -> 1 + ((p[2] - 1) * Files) \div layers
               [] OTHER -> Files]

-----------------------------------------------------------------------------
(* Properties. *)

StartupTypeOK ==
  /\ root \in {"profile", "first", "reading", "between", "second", "done", "failed"}
  /\ accepted \in 0..(Size - 1)
  /\ reading \in Reporters \union {Nobody}
  /\ backlog \in Seq([rank : Reporters, reports : BOOLEAN])
  /\ reporter \in [Reporters -> {"report", "return", "waiting", "done", "failed"}]
  /\ tries \in [Reporters -> 0..MaxTries]
  /\ command \in [Commands -> {"start", "spawn", "watch", "stop", "ended", "crashed"}]
  /\ node \in [Commands -> [Ranks -> {"none", "running", "exited"}]]
  /\ \A p \in asked : node[p[1]][p[2]] # "none"
  /\ pidFile \in [Ranks -> SUBSET (Commands \X Ranks)]

(* When all its nodes run, the stages of a pipeline tile the model, of     *)
(* every family and with or without a head of its own: every node has a    *)
(* layer, no two nodes have the same one, they follow one another in the   *)
(* order of the ranks, together they are the whole model, and every node   *)
(* finds all it keeps in the files it reads.  (With so few layers and      *)
(* nodes that rounding does not take a layer from the last node: see       *)
(* FewLayers in Startup_proofs.)                                           *)
Pipelines == IF mode = "peers" THEN {[r \in Ranks |-> r]} ELSE {[r \in Ranks |-> c] : c \in Used}
AllRun(owner) == \A r \in Ranks : node[owner[r]][r] = "running"
Tile(stages, tied) ==
  LET Layers(r) == {p[2] : p \in {q \in stages[r] : q[1] = "layer"}}
  IN /\ \A r \in Ranks : Layers(r) # {} /\ stages[r] \subseteq Loaded(stages[r], FileOf(tied))
     /\ \A q, r \in Ranks : q < r => \A a \in Layers(q), b \in Layers(r) : a < b
     /\ UNION Range(stages) = Whole(layers)
StagesTile ==
  \A owner \in Pipelines : AllRun(owner) =>
    \A family \in Families, tied \in BOOLEAN :
      Tile([r \in Ranks |-> Stage(owner[r], r, family, tied)], tied)

(* A running node is watched by its command, named by a file, asked to     *)
(* exit, or lost in one of two ways: its command failed to start another   *)
(* node, or a second command has overwritten the file.                     *)
NoStrays ==
  \A c \in Commands : \A r \in Alive(c) :
    \/ command[c] \in {"spawn", "watch", "stop", "crashed"}
    \/ <<c, r>> \in asked \union overwritten \union pidFile[Machine(c)]

(* The exchange comes to an end at every node, with proportions or with an *)
(* error, unless a node comes back early: then the root and this node may  *)
(* wait for each other for good.  The set-up of the sessions always comes  *)
(* to an end, and when nothing has gone wrong every session is whole.      *)
SetUpEnds ==
  /\ (mode = "peers") ~> (Early \/ Over)
  /\ (mode = "connect") ~> SessionsOver
=============================================================================
