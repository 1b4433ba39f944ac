----------------------- MODULE MCNotificationOutbox -----------------------
(* An instance of NotificationOutbox for TLC: one process that runs the job *)
(* twice at once, on schedule and on a wake-up, beside another process.     *)
EXTENDS NotificationOutbox, TLC

CONSTANTS w1, w2, x1, x2, x3

TwoInOneProcess == x1 :> w1 @@ x2 :> w1 @@ x3 :> w2

=============================================================================
