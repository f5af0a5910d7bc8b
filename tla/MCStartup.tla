-------------------------------- MODULE MCStartup --------------------------------
(***************************************************************************)
(* Three nodes.  The machines make equal thirds, a first and a last        *)
(* proportion of 0, three different ones, one that psutil is missing on,   *)
(* and a fleet that has no memory available.                               *)
(***************************************************************************)
EXTENDS Startup
CPU(free) == [cuda |-> 0, mps |-> FALSE, psutil |-> TRUE, ram |-> 160, free |-> free]
Mac(psutil) == [CPU(40) EXCEPT !.mps = TRUE, !.psutil = psutil]
GPU(cuda) == [CPU(320) EXCEPT !.cuda = cuda]
MCFleets == {<<CPU(50), CPU(50), CPU(50)>>, <<GPU(800), GPU(800), CPU(40)>>,
             <<CPU(40), GPU(800), Mac(TRUE)>>, <<Mac(FALSE), GPU(240), CPU(70)>>,
             <<CPU(0), CPU(0), CPU(0)>>}
MCLayerCounts == {3, 5, 22}
=============================================================================
