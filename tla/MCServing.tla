------------------------------- MODULE MCServing -------------------------------
(***************************************************************************)
(* Instances of Serving for TLC: requests of two tokens, then of one.      *)
(***************************************************************************)
EXTENDS Serving, TLC

MCLimit == [q \in 1..R |-> IF q = 1 THEN 2 ELSE 1]
=============================================================================
