----------------------------- MODULE MCFederated -----------------------------
(***************************************************************************)
(* Instances of Federated for TLC: r is the author of o and e, and m a     *)
(* stranger.                                                               *)
(*   c1, c2: Create of o by r, embedded and by id;  p1, p2: Updates by r   *)
(*   d1: Delete by r;  cm, pm, dm: Create, Update, Delete of o by m        *)
(*   l1, l2: r likes o, twice;  v1, v2: their Undos;  vm: Undo of l1 by m  *)
(*   b1: r boosts o;  k1: r blocks m;  q1, q2, q3: addressed to others     *)
(*   only: a like of o, a Create and a Delete of o                         *)
(*   cs, ps: Create and Update of o by m that m, or nobody, is author of   *)
(*   ce, pe: Create and Update of e by r, the Update without an author     *)
(*   cn: Create by m that names e                                          *)
(***************************************************************************)
EXTENDS Federated, TLC

CONSTANTS r, m, o, e, ce, pe, cn, cs, ps, w1, w2, c1, c2, p1, p2, d1, cm, pm, dm, l1, l2, v1, v2, vm, b1, vb, k1, q1, q2, q3

MCKind == [a \in Activities |->
  CASE a \in {c1, c2, cm, cs, q2, ce, cn} -> "Create"
    [] a \in {p1, p2, pm, ps, pe} -> "Update"
    [] a \in {d1, dm, q3} -> "Delete"
    [] a \in {l1, l2, q1} -> "Like"
    [] a = b1 -> "Announce"
    [] a = k1 -> "Block"
    [] OTHER  -> "Undo"]

MCBy == [a \in Activities |-> IF a \in {cm, cs, pm, ps, dm, vm, cn} THEN m ELSE r]

MCOf == [a \in Activities |->
  CASE a \in {v1, vm} -> l1 [] a = v2 -> l2 [] a = vb -> b1 [] a = k1 -> m
    [] a \in {ce, pe, cn} -> e [] OTHER -> o]

MCCredit == [a \in OnObjects |->
  CASE a = cs -> m [] a \in {p2, pe, ps} -> Nobody [] OTHER -> r]

MCAudience == [a \in Activities |->
  CASE a \in {q1, q2, q3} -> {"remote"}
    [] a = c1             -> {"public", "remote"}
    [] a = c2             -> {"local"}
    [] OTHER              -> {}]

MCAuthor == [x \in Objects |-> r]

Sends(A, n) == [sends |-> A, faults |-> n]

MCBounds == {
  Sends({c1, p1, p2, d1}, 0), Sends({c1, p1, d1}, 1), Sends({c2, p1, d1}, 1), Sends({c1, p1, p2}, 1),
  Sends({c1, p1, cm}, 0), Sends({ce, pe, cn}, 0), Sends({c1, pm, d1}, 1), Sends({c1, p1, dm}, 1), Sends({c1, q2, q3}, 1),
  Sends({c1, p1, cs}, 0), Sends({cs, dm, c1}, 0), Sends({c1, cs, d1}, 1), Sends({c1, ps, d1}, 0),
  Sends({l1, v1, l2, v2}, 1), Sends({l1, vm, q1}, 1), Sends({b1, vb, k1}, 1), Sends({c1, l1, d1}, 0)}
==============================================================================
