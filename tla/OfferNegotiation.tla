-------------------------- MODULE OfferNegotiation --------------------------
(***************************************************************************)
(* The negotiation of a price in one conversation: create_, respond_ and   *)
(* withdraw_marketplace_offer (migration 00049) as transactions that take  *)
(* row locks one after another and write when they commit.                 *)
(*                                                                         *)
(* Creating an offer locks the conversation first and offers after it, an  *)
(* answer locks its offer first and the conversation after it: the two     *)
(* can wait for each other, and the deadlock detector of the database ends *)
(* one of them.  A transaction goes by the time at which it began.         *)
(***************************************************************************)
EXTENDS Integers, FiniteSets

CONSTANTS
    Offers,     \* offers there can be
    Requests,   \* requests of the participants that can run at once
    None

ASSUME NegotiationAssumption == None \notin Offers \cup Requests

VARIABLES
    offer,      \* marketplace_offers: status and creator
    message,    \* messages.offer_status of the message an offer came with
    events,     \* marketplace_offer_events: the to_status of each event
    overdue,    \* offers whose expires_at has passed
    tx,         \* the transaction of each request
    thread,     \* who holds the row of the conversation
    held        \* who holds the row of each offer

rows == <<offer, message, events>>
locks == <<thread, held>>
vars == <<rows, overdue, tx, locks>>

Participants == {"buyer", "seller"}
Statuses == {"pending", "accepted", "declined", "countered", "withdrawn", "expired"}
Kinds == {"offer", "counter", "respond", "withdraw"}

\* began: the pending offers that were overdue at NOW(), the start of the transaction.
\* stale: the ones it expires.
Idle == [at |-> "idle", kind |-> "offer", actor |-> "buyer", target |-> None,
         began |-> {}, stale |-> {}]

Init ==
    /\ offer = [o \in Offers |-> [status |-> "none", by |-> "buyer"]]
    /\ message = [o \in Offers |-> "none"]
    /\ events = [o \in Offers |-> {}]
    /\ overdue = {}
    /\ tx = [x \in Requests |-> Idle]
    /\ thread = None
    /\ held = [o \in Offers |-> None]

Exists(o) == offer[o].status # "none"
Pending == {o \in Offers : offer[o].status = "pending"}

-----------------------------------------------------------------------------
(* Transactions.                                                           *)

Goto(x, at) == tx' = [tx EXCEPT ![x].at = at]

\* COMMIT and ROLLBACK.
End(x) ==
    /\ tx' = [tx EXCEPT ![x] = Idle]
    /\ thread' = IF thread = x THEN None ELSE thread
    /\ held' = [o \in Offers |-> IF held[o] = x THEN None ELSE held[o]]

Creating(kind) == kind \in {"offer", "counter"}

\* Bound: a request that creates an offer begins while there is one left for it.
OfferLeft ==
    Cardinality({o \in Offers : ~Exists(o)})
      > Cardinality({y \in Requests : tx[y].at # "idle" /\ Creating(tx[y].kind)})

\* A participant names an offer of the conversation, or makes one.
Begin(x, kind, p) ==
    /\ tx[x].at = "idle" /\ (Creating(kind) => OfferLeft)
    /\ \E o \in IF kind = "offer" THEN {None} ELSE {o \in Offers : Exists(o)} :
          tx' = [tx EXCEPT ![x] =
                   [at |-> IF Creating(kind) THEN "thread" ELSE "offer",
                    kind |-> kind, actor |-> p, target |-> o,
                    began |-> overdue \cap Pending, stale |-> {}]]
    /\ UNCHANGED <<rows, overdue, locks>>

-----------------------------------------------------------------------------
(* create_marketplace_offer.                                               *)

\* Mutant: the conversation is read and not locked.
ReadThread(x) ==
    /\ tx[x].at = "thread"
    /\ Goto(x, "expiry")
    /\ UNCHANGED <<rows, overdue, locks>>

\* Mutant: a counter locks its parent before the conversation.
LockParentFirst(x) ==
    LET o == tx[x].target
    IN  /\ tx[x].at = "thread"
        /\ IF tx[x].kind = "counter" /\ held[o] # x
           THEN /\ held[o] = None
                /\ held' = [held EXCEPT ![o] = x]
                /\ UNCHANGED <<tx, thread>>
           ELSE /\ thread = None /\ thread' = x
                /\ Goto(x, "expiry")
                /\ UNCHANGED held
        /\ UNCHANGED <<rows, overdue>>

LockThread(x) ==
    /\ tx[x].at = "thread" /\ thread = None
    /\ thread' = x
    /\ Goto(x, "expiry")
    /\ UNCHANGED <<rows, overdue, held>>

\* The pending offer that was overdue is expired; its row may be locked by an answer.
ExpireStale(x) ==
    LET stale == Pending \cap tx[x].began
    IN  /\ tx[x].at = "expiry"
        /\ \A o \in stale : held[o] = None
        /\ held' = [o \in Offers |-> IF o \in stale THEN x ELSE held[o]]
        /\ tx' = [tx EXCEPT ![x].at = "parent", ![x].stale = stale]
        /\ UNCHANGED <<rows, overdue, thread>>

\* The parent is locked and has to be pending, and offered to the actor.
LockParent(x) ==
    LET o == tx[x].target
    IN  /\ tx[x].at = "parent" /\ tx[x].kind = "counter"
        /\ held[o] \in {None, x}
        /\ IF o \in Pending \ tx[x].began /\ offer[o].by # tx[x].actor
           THEN held' = [held EXCEPT ![o] = x] /\ Goto(x, "write") /\ UNCHANGED thread
           ELSE End(x)
        /\ UNCHANGED <<rows, overdue>>

\* Without a parent there must be no pending offer.
CheckNonePending(x) ==
    /\ tx[x].at = "parent" /\ tx[x].kind = "offer"
    /\ IF Pending \ tx[x].stale = {}
       THEN Goto(x, "write") /\ UNCHANGED locks
       ELSE End(x)
    /\ UNCHANGED <<rows, overdue>>

\* The rows of the offers a creation ends: expired ones and the parent.
Ends(x, o) ==
    IF o \in tx[x].stale THEN "expired"
    ELSE IF o = tx[x].target THEN "countered" ELSE offer[o].status

\* Mutant: messages of the parent keep their status.
MessageStays(x, o) == IF o \in tx[x].stale THEN "expired" ELSE message[o]

\* The messages of every expired offer say so.
MessageEnds(x, o) == IF Ends(x, o) = "expired" THEN "expired"
                     ELSE IF o = tx[x].target THEN "countered" ELSE message[o]

\* An offer is inserted with its message and its event; the countered parent gets an
\* event, the expired ones do not.
Create(x) ==
    /\ tx[x].at = "write"
    /\ \E new \in {o \in Offers : ~Exists(o)} :
        /\ offer' = [o \in Offers |-> IF o = new
                       THEN [status |-> "pending", by |-> tx[x].actor]
                       ELSE [offer[o] EXCEPT !.status = Ends(x, o)]]
        /\ message' = [o \in Offers |-> IF o = new THEN "pending" ELSE MessageEnds(x, o)]
        /\ events' = [o \in Offers |->
                        CASE o = new -> {"pending"}
                          [] o = tx[x].target -> events[o] \cup {"countered"}
                          [] OTHER -> events[o]]
    /\ End(x)
    /\ UNCHANGED overdue

-----------------------------------------------------------------------------
(* respond_marketplace_offer and withdraw_marketplace_offer.               *)

\* Becomes of the offer and of its message, with an event.
ResolveTo(o, status) ==
    /\ offer' = [offer EXCEPT ![o].status = status]
    /\ message' = [message EXCEPT ![o] = status]
    /\ events' = [events EXCEPT ![o] = @ \cup {status}]

\* Only the recipient may respond, only the creator may withdraw.
Entitled(x) ==
    tx[x].actor = offer[tx[x].target].by <=> tx[x].kind = "withdraw"

\* Mutant: the offer is read and not locked.
ReadOffer(x) ==
    LET o == tx[x].target
    IN  /\ tx[x].at = "offer"
        /\ IF o \in Pending /\ Entitled(x)
           THEN IF o \in tx[x].began /\ tx[x].kind # "withdraw"
                THEN ResolveTo(o, "expired") /\ End(x)
                ELSE Goto(x, "resolve") /\ UNCHANGED <<rows, locks>>
           ELSE End(x) /\ UNCHANGED rows
        /\ UNCHANGED overdue

\* The offer is locked and checked; one that is overdue is expired instead of
\* answered, and withdrawn all the same.
LockOffer(x) ==
    LET o == tx[x].target
    IN  /\ tx[x].at = "offer" /\ held[o] = None
        /\ IF o \in Pending /\ Entitled(x)
           THEN IF o \in tx[x].began /\ tx[x].kind # "withdraw"
                THEN ResolveTo(o, "expired") /\ End(x)
                ELSE /\ held' = [held EXCEPT ![o] = x]
                     /\ Goto(x, "resolve")
                     /\ UNCHANGED <<rows, thread>>
           ELSE End(x) /\ UNCHANGED rows
        /\ UNCHANGED overdue

\* The message that tells the answer refers to the conversation, and the
\* conversation is updated: both need its row.
Resolve(x) ==
    /\ tx[x].at = "resolve" /\ thread = None
    /\ \E status \in IF tx[x].kind = "withdraw" THEN {"withdrawn"}
                     ELSE {"accepted", "declined"} :
          ResolveTo(tx[x].target, status)
    /\ End(x)
    /\ UNCHANGED overdue

-----------------------------------------------------------------------------
(* The database and the clock.                                             *)

\* The request whose lock x waits for.
WaitsFor(x) ==
    CASE tx[x].at \in {"thread", "resolve"} -> {thread}
      [] tx[x].at = "expiry" -> {held[o] : o \in Pending \cap tx[x].began}
      [] tx[x].at = "parent" /\ tx[x].kind = "counter" -> {held[tx[x].target]}
      [] tx[x].at = "offer" -> {held[tx[x].target]}
      [] OTHER -> {}

Deadlocked(x) == \E y \in Requests \ {x} : y \in WaitsFor(x) /\ x \in WaitsFor(y)

\* The detector rolls one of them back.
DetectDeadlock(x) ==
    /\ Deadlocked(x)
    /\ End(x)
    /\ UNCHANGED <<rows, overdue>>

\* The lifetime of an offer ends.
Lapse(o) ==
    /\ o \in Pending \ overdue
    /\ overdue' = overdue \cup {o}
    /\ UNCHANGED <<rows, tx, locks>>

Step(x) ==
    \/ LockThread(x) \/ ExpireStale(x) \/ LockParent(x) \/ CheckNonePending(x)
    \/ Create(x) \/ LockOffer(x) \/ Resolve(x)

Next ==
    \/ \E x \in Requests :
        \/ \E kind \in Kinds, p \in Participants : Begin(x, kind, p)
        \/ Step(x) \/ DetectDeadlock(x)
    \/ \E o \in Offers : Lapse(o)

Spec == Init /\ [][Next]_vars

-----------------------------------------------------------------------------
(* Properties.                                                             *)

TypeOK ==
    /\ offer \in [Offers -> [status: Statuses \cup {"none"}, by: Participants]]
    /\ message \in [Offers -> Statuses \cup {"none"}]
    /\ events \in [Offers -> SUBSET Statuses]
    /\ overdue \in SUBSET Offers
    /\ tx \in [Requests -> [at: {"idle", "thread", "expiry", "parent", "write",
                                 "offer", "resolve"},
                            kind: Kinds, actor: Participants,
                            target: Offers \cup {None},
                            began: SUBSET Offers, stale: SUBSET Offers]]
    /\ \A x \in Requests : tx[x].stale \subseteq Pending
    /\ thread \in Requests \cup {None}
    /\ held \in [Offers -> Requests \cup {None}]

\* The conversation never has two pending offers: the unique index, which the model
\* leaves out, has nothing to refuse.
OnePendingOffer == Cardinality(Pending) <= 1

\* The thread tells every participant the state of each offer, and what was answered
\* has the event of its answer.
ThreadTellsTheOffer ==
    \A o \in Offers :
        /\ message[o] = offer[o].status
        /\ offer[o].status \notin {"none", "expired"} =>
             events[o] = {"pending", offer[o].status}

\* "All state changes are serialized": every commit is one operation of Negotiation,
\* whatever transactions it overlapped with.
Serialized == INSTANCE Negotiation
SerializedNegotiation == Serialized!Spec

\* The locks are ordered but for one pair: whatever transactions wait for one another,
\* one of them is the creation that holds the conversation, and one an answer that
\* waits for it with its offer locked.  Creations, counters among them, do not deadlock.
OnlyAnswersDeadlock ==
    \A S \in (SUBSET Requests) \ {{}} :
        (\A x \in S : WaitsFor(x) \cap (S \ {x}) # {}) =>
            /\ thread \in S
            /\ \E x \in S : tx[x].at = "resolve"

=============================================================================
