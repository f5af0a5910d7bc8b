------------------------------- MODULE MCTraining -------------------------------
(***************************************************************************)
(* Root, stem and leaf, five batches in one epoch, an update after every   *)
(* gradient, with either trainer.                                          *)
(***************************************************************************)
EXTENDS Training
=============================================================================
