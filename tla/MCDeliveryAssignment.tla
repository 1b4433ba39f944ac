----------------------- MODULE MCDeliveryAssignment -----------------------
(* An instance of DeliveryAssignment for TLC: two couriers with an          *)
(* application each.                                                         *)
EXTENDS DeliveryAssignment, TLC

CONSTANTS a1, a2, c1, c2

Interchangeable == Permutations(Calls)
OneEach == a1 :> c1 @@ a2 :> c2
=============================================================================
