------------------------------ MODULE MCFollows ------------------------------
(***************************************************************************)
(* Instances of Follows for TLC: l, k are local actors, r, m remote ones.  *)
(*   f1, f2: r follows l;  g1, g2: l follows r;  g3: k follows r           *)
(*   h1: l follows k                                                       *)
(*   u1, v1, z1: Undo of f1, g1, h1 by their followers                     *)
(*   a1, a2, c1: the Accepts this instance makes for f1, f2, h1            *)
(*   b1, d1: Accept and Reject of g1 by r; b3: Accept of g3, as r, an      *)
(*           instance of this program, makes it: with the id of b1         *)
(*   x1, y1: Undo of f1 and Accept of g1, both by m, whom neither concerns *)
(***************************************************************************)
EXTENDS Follows, TLC

CONSTANTS l, k, r, m, w1, w2, f1, f2, g1, g2, g3, h1, u1, v1, z1, a1, a2, c1, b1, b3, d1, x1, y1

MCBy == [a \in Activities |->
  CASE a \in {f1, f2, u1, b1, b3, d1} -> r
    [] a \in {x1, y1} -> m
    [] a \in {g3, c1} -> k
    [] OTHER -> l]

MCOf == [a \in Activities |->
  CASE a \in {f1, f2} -> l
    [] a \in {g1, g2, g3} -> r
    [] a = h1 -> k
    [] a \in {u1, a1, x1} -> f1
    [] a \in {v1, b1, d1, y1} -> g1
    [] a = a2 -> f2
    [] a = b3 -> g3
    [] OTHER -> h1]

MCId       == [a \in Activities |-> IF a = b3 THEN b1 ELSE a]
MCVerdict  == [a \in Answers |-> IF a = d1 THEN "rejected" ELSE "accepted"]
MCAcceptOf == [f \in Inbound |-> CASE f = f1 -> a1 [] f = f2 -> a2 [] OTHER -> c1]

\* All activities together are too many states: these sets are explored one by one.
Sends(A, n) == [sends |-> A, faults |-> n]

MCBounds == {
  Sends({f1, f2, u1}, 0), Sends({f1, f2}, 1), Sends({f1, u1, x1}, 2),             \* r follows l
  Sends({g1, g2, v1, b1}, 1), Sends({g1, v1, b1, d1}, 1), Sends({g1, d1, y1}, 1), \* l follows r
  Sends({g1, g3, b1, b3}, 0),                                                     \* and k too
  Sends({h1, z1, c1}, 0), Sends({h1, c1}, 1)}                                     \* l follows k

F1Alone  == {Sends({f1}, 1)}
F1Undone == {Sends({f1, u1}, 1)}
G1Alone  == {Sends({g1}, 0)}
==============================================================================
