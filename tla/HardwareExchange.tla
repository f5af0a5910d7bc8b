---------------------------- MODULE HardwareExchange ----------------------------
(***************************************************************************)
(* collect_hardware_as_root and report_hardware_to_root of hardware.py.    *)
(* The root accepts one connection of every other node, closes its socket, *)
(* computes the proportions, listens on the same port again and answers    *)
(* one connection of every node.  Nothing tells a connection of the first  *)
(* round from one of the second: a node that comes back while the root     *)
(* still waits for others is taken for one that reports, and the root then *)
(* waits for its report, without a timeout, as it waits for its answer.    *)
(*                                                                         *)
(* Bound: MaxTries stands for the 30 attempts to connect.                  *)
(***************************************************************************)
EXTENDS LayerSplit

CONSTANTS Size,    \* world_size
          Fleets,  \* possible sequences of machines, by rank
          MaxTries

ASSUME ExchangeAssumption ==
  /\ Size \in Nat \ {0, 1}
  /\ MaxTries \in Nat \ {0}
  /\ Fleets \subseteq [1..Size -> Machines]

Ranks == 0..(Size - 1)
Reporters == 1..(Size - 1)
Nothing == [parts |-> <<>>, of |-> 0]
Nobody == 0
None == [type |-> "cpu", memory |-> -1]

VARIABLES fleet,    \* the machines of the nodes
          root,     \* where collect_hardware_as_root is
          accepted, \* connections of this round
          hardware, \* hardware_list
          reading,  \* the connection of this rank, whose report is awaited
          backlog,  \* connections not accepted yet
          reporter, \* where report_hardware_to_root is, of every reporter
          tries,
          known     \* the proportions a node has

exchangeVars == <<fleet, root, accepted, hardware, reading, backlog, reporter, tries, known>>

ExchangeInit ==
  /\ fleet \in Fleets
  /\ root = "profile"
  /\ accepted = 0
  /\ hardware = [i \in 1..Size |-> IF i = 1 THEN HardwareInfo(fleet[1]) ELSE None]
  /\ reading = Nobody
  /\ backlog = <<>>
  /\ reporter = [r \in Reporters |-> "report"]
  /\ tries = [r \in Reporters |-> 0]
  /\ known = [r \in Ranks |-> Nothing]

Listening == root \in {"first", "reading", "second"}

RootListens ==
  /\ root = "profile"
  /\ root' = "first"
  /\ UNCHANGED <<fleet, accepted, hardware, reading, backlog, reporter, tries, known>>

(* connect, sendall and close of the first round; connect of the second. *)
Connect(r) ==
  /\ Listening /\ reporter[r] \in {"report", "return"}
  /\ backlog' = Append(backlog, [rank |-> r, reports |-> reporter[r] = "report"])
  /\ reporter' = [reporter EXCEPT ![r] = IF @ = "report" THEN "return" ELSE "waiting"]
  /\ tries' = [tries EXCEPT ![r] = 0]
  /\ UNCHANGED <<fleet, root, accepted, hardware, reading, known>>

(* Mutant: one attempt too many. *)
RefusedOnceMore(r) ==
  /\ ~Listening /\ reporter[r] \in {"report", "return"}
  /\ tries' = [tries EXCEPT ![r] = @ + 1]
  /\ reporter' = [reporter EXCEPT ![r] = IF tries[r] = MaxTries THEN "failed" ELSE @]
  /\ UNCHANGED <<fleet, root, accepted, hardware, reading, backlog, known>>

(* ConnectionRefusedError; after the last attempt the node gives up. *)
Refused(r) ==
  /\ ~Listening /\ reporter[r] \in {"report", "return"}
  /\ tries' = [tries EXCEPT ![r] = @ + 1]
  /\ reporter' = [reporter EXCEPT ![r] = IF tries[r] + 1 = MaxTries THEN "failed" ELSE @]
  /\ UNCHANGED <<fleet, root, accepted, hardware, reading, backlog, known>>

(* accept of the first round, and recv when the report is there. *)
AcceptReport ==
  /\ root = "first" /\ accepted < Size - 1 /\ backlog # <<>>
  /\ LET c == Head(backlog)
     IN IF c.reports
        THEN /\ hardware' = [hardware EXCEPT ![c.rank + 1] = HardwareInfo(fleet[c.rank + 1])]
             /\ accepted' = accepted + 1
             /\ UNCHANGED <<root, reading>>
        ELSE root' = "reading" /\ reading' = c.rank /\ UNCHANGED <<accepted, hardware>>
  /\ backlog' = Tail(backlog)
  /\ UNCHANGED <<fleet, reporter, tries, known>>

(* The connections a closed socket has not accepted are reset; a node that *)
(* waits for its answer on one of them fails.                              *)
Resets == {c.rank : c \in {d \in Range(backlog) : ~d.reports}}
CloseSocket ==
  /\ backlog' = <<>>
  /\ reporter' = [r \in Reporters |-> IF r \in Resets THEN "failed" ELSE reporter[r]]

(* The first socket is closed, the proportions are computed. *)
RootComputes ==
  /\ root = "first" /\ accepted = Size - 1
  /\ root' = "between"
  /\ CloseSocket
  /\ known' = [known EXCEPT ![0] = ComputeProportions(hardware)]
  /\ accepted' = 0
  /\ UNCHANGED <<fleet, hardware, reading, tries>>

RootListensAgain ==
  /\ root = "between"
  /\ root' = "second"
  /\ UNCHANGED <<fleet, accepted, hardware, reading, backlog, reporter, tries, known>>

(* Mutant: the second round counts one connection less. *)
AnswersOneLess ==
  /\ root = "second" /\ backlog # <<>>
  /\ LET c == Head(backlog)
     IN IF c.reports THEN UNCHANGED <<known, reporter>>
        ELSE /\ known' = [known EXCEPT ![c.rank] = known[0]]
             /\ reporter' = [reporter EXCEPT ![c.rank] = "done"]
  /\ backlog' = Tail(backlog)
  /\ accepted' = accepted + 1
  /\ root' = IF accepted + 2 >= Size - 1 THEN "done" ELSE "second"
  /\ UNCHANGED <<fleet, hardware, reading, tries>>

(* accept and sendall of the second round; the last one closes the socket, *)
(* with nobody left to come.                                               *)
Answers ==
  /\ root = "second" /\ backlog # <<>>
  /\ LET c == Head(backlog)
     IN IF c.reports THEN UNCHANGED <<known, reporter>>
        ELSE /\ known' = [known EXCEPT ![c.rank] = known[0]]
             /\ reporter' = [reporter EXCEPT ![c.rank] = "done"]
  /\ backlog' = Tail(backlog)
  /\ accepted' = accepted + 1
  /\ root' = IF accepted + 1 = Size - 1 THEN "done" ELSE "second"
  /\ UNCHANGED <<fleet, hardware, reading, tries>>

(* Mutant: the second socket has no timeout. *)
AcceptTimesOutFirst ==
  /\ root = "first" /\ accepted < Size - 1 /\ backlog = <<>>
  /\ root' = "failed"
  /\ UNCHANGED <<fleet, accepted, hardware, reading, backlog, reporter, tries, known>>

(* Nobody connects for 300 s: accept raises socket.timeout. *)
AcceptTimesOut ==
  /\ root \in {"first", "second"} /\ accepted < Size - 1 /\ backlog = <<>>
  /\ root' = "failed"
  /\ UNCHANGED <<fleet, accepted, hardware, reading, backlog, reporter, tries, known>>

ExchangeNext ==
  \/ RootListens \/ AcceptReport \/ RootComputes \/ RootListensAgain \/ Answers \/ AcceptTimesOut
  \/ \E r \in Reporters : Connect(r) \/ Refused(r)

-----------------------------------------------------------------------------
(* Properties. *)

(* A node has come back for its answer while the root waits for reports.   *)
Early == root \in {"first", "reading"} /\ \E r \in Reporters : reporter[r] = "waiting"

(* When the root goes on to build its stage, so does every other node, all *)
(* with the proportions of the hardware that all of them have reported.    *)
RootGoesLast ==
  root = "done" => \A r \in Ranks : known[r] = ComputeProportions([i \in 1..Size |-> HardwareInfo(fleet[i])])

(* The exchange is over: with proportions, or with an error. *)
Over == root \in {"done", "failed"} /\ \A r \in Reporters : reporter[r] \in {"done", "failed"}
=============================================================================
