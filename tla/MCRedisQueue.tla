---------------------------- MODULE MCRedisQueue ----------------------------
(***************************************************************************)
(* Instances of RedisQueue for TLC.                                        *)
(***************************************************************************)
EXTENDS RedisQueue, TLC

CONSTANTS p1, p2, w1, w2, w3

MCProcOf == (w1 :> p1) @@ (w2 :> p1) @@ (w3 :> p2)
TwoProcs == (w1 :> p1) @@ (w3 :> p2)
=============================================================================
