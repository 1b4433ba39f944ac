--------------------------- MODULE EscrowAccount ---------------------------
(***************************************************************************)
(* What the marketplace promises about the money of an order, whatever its *)
(* handlers do: the charge is collected once, the seller is paid at most   *)
(* once and out of a collected charge, a buyer is never credited more than *)
(* the charge, and a seller never gives back more than was paid out.       *)
(***************************************************************************)
EXTENDS Integers, Functions

CONSTANTS Orders, RefundKeys, ReversalKeys, Charge, Payout

VARIABLES
    collected,   \* the orders whose charge was collected
    paidOut,     \* what the seller of each order was paid
    credited,    \* what the buyer was credited with each refund key
    takenBack    \* what was taken back from the seller with each reversal key

account == <<collected, paidOut, credited, takenBack>>

Init ==
    /\ collected = {}
    /\ paidOut = [o \in Orders |-> 0]
    /\ credited = [o \in Orders |-> [k \in RefundKeys |-> 0]]
    /\ takenBack = [o \in Orders |-> [k \in ReversalKeys |-> 0]]

Collect(o) ==
    /\ o \notin collected
    /\ collected' = collected \cup {o}
    /\ UNCHANGED <<paidOut, credited, takenBack>>

PayOut(o) ==
    /\ o \in collected /\ paidOut[o] = 0
    /\ paidOut' = [paidOut EXCEPT ![o] = Payout]
    /\ UNCHANGED <<collected, credited, takenBack>>

Credit(o, k, amount) ==
    /\ o \in collected /\ credited[o][k] = 0
    /\ SumFunction(credited[o]) + amount <= Charge
    /\ credited' = [credited EXCEPT ![o][k] = amount]
    /\ UNCHANGED <<collected, paidOut, takenBack>>

\* A refund that fails at the provider leaves the money where it was.
Bounce(o, k) ==
    /\ credited[o][k] # 0
    /\ credited' = [credited EXCEPT ![o][k] = 0]
    /\ UNCHANGED <<collected, paidOut, takenBack>>

TakeBack(o, k, amount) ==
    /\ takenBack[o][k] = 0
    /\ SumFunction(takenBack[o]) + amount <= paidOut[o]
    /\ takenBack' = [takenBack EXCEPT ![o][k] = amount]
    /\ UNCHANGED <<collected, paidOut, credited>>

Next ==
    \E o \in Orders :
        \/ Collect(o) \/ PayOut(o)
        \/ \E k \in RefundKeys : Bounce(o, k) \/ \E a \in 1 .. Charge : Credit(o, k, a)
        \/ \E k \in ReversalKeys, a \in 1 .. Payout : TakeBack(o, k, a)

Spec == Init /\ [][Next]_account

=============================================================================
