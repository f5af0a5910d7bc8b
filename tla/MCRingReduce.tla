------------------------------ MODULE MCRingReduce ------------------------------
(***************************************************************************)
(* Four providers, two of which can hold the model alone.  The balanced    *)
(* clusterings are two clusters of two, which exchange along two rings     *)
(* whose threads may have two receivers and two senders, three clusters of *)
(* which one has two members, and all in one, where nothing is averaged.   *)
(***************************************************************************)
EXTENDS RingReduce
MCRam == <<4, 2, 1, 3>>
MCModels == {<<1, 1, 2>>, <<1, 1, 1>>, <<3, 1, 1>>, <<1, 1, 5>>}
MCBandwidth == <<1, 1, 1, 1>>
=============================================================================
