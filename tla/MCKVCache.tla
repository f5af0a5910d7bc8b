------------------------------- MODULE MCKVCache -------------------------------
(***************************************************************************)
(* An instance of KVCache for TLC: every batch of prompts and new tokens   *)
(* within MaxSeq, and a bound on reference counts that grow for ever.      *)
(***************************************************************************)
EXTENDS KVCache
=============================================================================
