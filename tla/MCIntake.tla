------------------------------- MODULE MCIntake -------------------------------
(***************************************************************************)
(* Instances of Intake for TLC.  p is a public post to the followers and   *)
(* to x, f a Follow of another local actor, i arrives at the inbox.  x and *)
(* y have inboxes of their own, z is local.                                *)
(***************************************************************************)
EXTENDS Intake, TLC

CONSTANTS r1, r2, r3, p, f, i, x, y, z, ix, iy, il

PostTwice   == (r1 :> p) @@ (r2 :> p) @@ (r3 :> i)
OneOfEach   == (r1 :> p) @@ (r2 :> f) @@ (r3 :> i)
MCTo        == [a \in Activities |-> CASE a = p -> {x, z} [] a = f -> {x, z} [] OTHER -> {}]
MCInboxOf   == (x :> ix) @@ (y :> iy) @@ (z :> il)
==============================================================================
