----------------------------- MODULE BoundedQueue -----------------------------
(***************************************************************************)
(* What the request queue of the API server promises: a bounded number of  *)
(* requests inside, one of them served at a time, none admitted twice.     *)
(***************************************************************************)
EXTENDS Integers, FiniteSets

CONSTANTS Requests, MaxQueue

VARIABLES inside,   \* requests admitted and not finished
          serving   \* the one that has the engine, if any

vars == <<inside, serving>>

Init == inside = {} /\ serving = {}

Admit(r) ==
  /\ r \notin inside
  /\ Cardinality(inside) < MaxQueue
  /\ inside' = inside \union {r}
  /\ UNCHANGED serving

(* A request's turn comes when nobody else is served. *)
Serve(r) ==
  /\ r \in inside
  /\ serving = {}
  /\ serving' = {r}
  /\ UNCHANGED inside

Finish(r) ==
  /\ serving = {r}
  /\ serving' = {}
  /\ UNCHANGED inside

Leave(r) ==
  /\ r \in inside \ serving
  /\ inside' = inside \ {r}
  /\ UNCHANGED serving

Next == \E r \in Requests : Admit(r) \/ Serve(r) \/ Finish(r) \/ Leave(r)

Spec == Init /\ [][Next]_vars
=============================================================================
