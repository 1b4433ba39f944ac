---------------------------- MODULE MCOrderReturns ----------------------------
(* An instance of OrderReturns for TLC.  Returns and requests are                *)
(* interchangeable, and no property checked with the symmetry is temporal.       *)
EXTENDS OrderReturns, TLC

Symmetry == Permutations(Returns) \cup Permutations(Calls)
=============================================================================
