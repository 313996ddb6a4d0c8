-------------------------- MODULE MCDeliveryBackoff --------------------------
(***************************************************************************)
(* An instance of DeliveryBackoff for TLC.  With 12 tries and doubling     *)
(* stopped after 4, every configuration reaches its cap or the last        *)
(* doubling, and goes on for several tries after it.                       *)
(***************************************************************************)
EXTENDS DeliveryBackoff

MCInitials == {-1, 0, 1, 2, 3, 5}
MCMaxima   == {-1, 0, 1, 3, 4, 7, 10, 20, 100}
=============================================================================
