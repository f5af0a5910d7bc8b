------------------------------ MODULE Membership ------------------------------
(***************************************************************************)
(* What the coordinator and the workers promise together, without calls,   *)
(* barriers or failures: a sequence of numbered views of the membership,   *)
(* and workers that move forward through them.                             *)
(***************************************************************************)
EXTENDS Integers

CONSTANTS Nodes

VARIABLES members,   \* the current view
          version,   \* its number
          adopted    \* the view a worker's pipeline is built for, -1 for none

vars == <<members, version, adopted>>

Init ==
  /\ members = {}
  /\ version = 0
  /\ adopted = [w \in Nodes |-> -1]

(* Every change of the membership is a new view, and views are numbered    *)
(* without gaps.                                                           *)
Change ==
  /\ members' \in (SUBSET Nodes) \ {members}
  /\ version' = version + 1
  /\ UNCHANGED adopted

(* A worker only ever moves to a later view that has been issued. *)
Adopt(w) ==
  /\ \E v \in 1 .. version : v > adopted[w] /\ adopted' = [adopted EXCEPT ![w] = v]
  /\ UNCHANGED <<members, version>>

(* A process that stops forgets its view; it may leave in the same step. *)
Stop(w) ==
  /\ adopted' = [adopted EXCEPT ![w] = -1]
  /\ \/ UNCHANGED <<members, version>>
     \/ w \in members /\ members' = members \ {w} /\ version' = version + 1

Next == Change \/ \E w \in Nodes : Adopt(w) \/ Stop(w)

Spec == Init /\ [][Next]_vars
=============================================================================
