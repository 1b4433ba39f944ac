---------------------------- MODULE Negotiation ----------------------------
(***************************************************************************)
(* What the negotiation of a price promises to its two participants: one   *)
(* offer at a time is on the table, it is answered by the one it was made  *)
(* to, withdrawn by the one who made it, and never answered twice.  Every  *)
(* operation is one step ("serialized", migration 00049).                  *)
(***************************************************************************)
CONSTANTS Offers, Participants

VARIABLE offer   \* [status, by] of each offer, status "none" before it is made

Answers == {"accepted", "declined", "countered", "expired"}
OnTheTable == {o \in Offers : offer[o].status = "pending"}

Init == \A o \in Offers : offer[o].status = "none"

\* p makes offer o in place of the one on the table, which ends as its recipient's
\* counter-offer says or because its time was over.
Propose(o, p) ==
    /\ offer[o].status = "none"
    /\ \E ends \in {"countered", "expired"} :
        /\ ends = "countered" =>
             OnTheTable # {} /\ \A q \in OnTheTable : offer[q].by # p
        /\ offer' = [q \in Offers |->
                       CASE q = o -> [status |-> "pending", by |-> p]
                         [] q \in OnTheTable -> [offer[q] EXCEPT !.status = ends]
                         [] OTHER -> offer[q]]

\* The offer on the table is answered by the other participant, or withdrawn.
Resolve(o, p) ==
    /\ o \in OnTheTable
    /\ \E ends \in IF offer[o].by = p THEN {"withdrawn"} ELSE Answers \ {"countered"} :
          offer' = [offer EXCEPT ![o].status = ends]

Next == \E o \in Offers, p \in Participants : Propose(o, p) \/ Resolve(o, p)

Spec == Init /\ [][Next]_offer
=============================================================================
