------------------------ MODULE MCScheduledJobLease ------------------------
(* Instances of ScheduledJobLease for TLC: three processes, each of which   *)
(* executes one queue job of the name at a time.                           *)
EXTENDS ScheduledJobLease, TLC

CONSTANTS p1, p2, p3, x1, x2, x3

OneEach == x1 :> p1 @@ x2 :> p2 @@ x3 :> p3

=============================================================================
