------------------------------ MODULE MCApiQueue ------------------------------
(***************************************************************************)
(* Instances of the API server for TLC.                                    *)
(***************************************************************************)
EXTENDS SingleNode, TLC

(* "requests wait their turn instead of getting 503" (api_server.py:88):   *)
(* while somebody waits, the lock is released.                             *)
TurnsComeUp == (At({"wait"}) # {}) ~> ~lock

(* "Single-request-at-a-time" (api_server.py:5, deploy/README.md:390): at  *)
(* no time do two generations run, for a request that is served or for one *)
(* whose client has gone.                                                  *)
OneGeneration ==
  /\ \A r, s \in Generating : r = s
  /\ left => Generating = {}
=============================================================================
