----------------------------- MODULE MCSqlQueue -----------------------------
(***************************************************************************)
(* Instances of SqlQueue for TLC.                                          *)
(***************************************************************************)
EXTENDS SqlQueue, TLC

CONSTANTS p1, p2, w1, w2, d1, d2, i1, n1

TwoProcs  == (w1 :> p1) @@ (w2 :> p2)
OneProc   == (w1 :> p1) @@ (w2 :> p1)
MCKindOf  == [r \in Requests |-> CASE r \in {d1, d2} -> "deliver"
                                   [] r = i1 -> "inbox"
                                   [] OTHER -> "noop"]
MCDelay   == [n \in 0..MaxAttempts |-> IF n = 0 THEN 1 ELSE 2]
=============================================================================
