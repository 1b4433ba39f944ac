---------------------------- MODULE OrderReturns ----------------------------
(***************************************************************************)
(* The return of an order that was delivered or paid for: the buyer asks,  *)
(* the seller answers, the item goes back, and the seller's confirmation   *)
(* refunds it through refundOrder (modules/orders/orders.service,          *)
(* migration 00137).                                                       *)
(*                                                                         *)
(* Every handler reads the return and its order and then updates the       *)
(* return by its identifier, whatever the row holds by then.  The order is *)
(* kept to what returns and refunds ask of it; MarketplaceOrders has the   *)
(* rest of it.                                                             *)
(***************************************************************************)
EXTENDS Integers, FiniteSets, FiniteSetsExt

CONSTANTS
    Returns,      \* returns of the order there can be
    Operators,    \* idempotency keys of the refunds operators make
    Calls,        \* API requests that may run at once
    ItemAmount,   \* itemAmountMinor of the order
    Fees,         \* what the buyer was charged on top of it
    CallsFail,    \* whether awaited calls throw and processes die in this instance
    None

ASSUME ReturnsAssumption ==
    /\ Operators \cap Returns = {}
    /\ ItemAmount \in Nat \ {0} /\ Fees \in Nat /\ CallsFail \in BOOLEAN
    /\ None \notin Returns \cup Operators

VARIABLES
    ret,      \* the order_returns table
    order,    \* status, refundedBaseTotalMinor and refundProviderId of the order
    ledger,   \* the order_refunds table: status and amount credited
    refunds,  \* at the provider: status of the refund made with each key
    events,   \* refunds whose refund.updated was sent and is not yet handled
    call      \* the requests and events in hand and what each has read

vars == <<ret, order, ledger, refunds, events, call>>
money == <<order, ledger, refunds, events>>

Keys == Returns \cup Operators
TotalCharged == ItemAmount + Fees

Open == {"requested", "approved", "shipped", "received"}
Undecided == {"requested", "cancelled", "expired"}
ReturnStatus == Open \cup Undecided \cup {"rejected", "refunded"}

\* The order is held (escrow_funded, completed, disputed), underway (shipped,
\* pin_pending) or closed (refund_pending, refunded).
Returnable == {"held", "underway"}
Refundable == {"held"}

NoReturn == [status |-> "none", statutory |-> FALSE, base |-> 0, decided |-> FALSE,
             received |-> FALSE]
NoRefund == [status |-> "none", credited |-> 0]

\* read: refundedBaseTotalMinor of the order when it was read.
Idle == [at |-> "idle", key |-> None, row |-> NoReturn, read |-> 0, amount |-> 0,
         credit |-> 0, outcome |-> "none"]

Init ==
    /\ ret = [r \in Returns |-> NoReturn]
    /\ order = [status |-> "held", refundedBase |-> 0, refundKey |-> None]
    /\ ledger = [k \in Keys |-> NoRefund]
    /\ refunds = [k \in Keys |-> "none"]
    /\ events = {}
    /\ call = [x \in Calls |-> Idle]

At(x, step) == call[x].at = step
Goto(x, step) == call' = [call EXCEPT ![x].at = step]
Finish(x) == call' = [call EXCEPT ![x] = Idle]

-----------------------------------------------------------------------------
(* The return.                                                             *)

\* order_returns_one_open_per_order_idx.
IndexAllows(r, status) ==
    status \in Open => \A q \in Returns \ {r} : ret[q].status \notin Open

\* requestReturn: what is left of the item is asked back.
RequestReturn(x, r) ==
    /\ At(x, "idle") /\ ret[r] = NoReturn
    /\ order.status \in Returnable
    /\ ItemAmount - order.refundedBase > 0
    /\ \E statutory \in BOOLEAN :
          call' = [call EXCEPT ![x] =
                     [Idle EXCEPT !.at = "insert", !.key = r,
                         !.row = [NoReturn EXCEPT !.status = "requested",
                                     !.statutory = statutory,
                                     !.base = ItemAmount - order.refundedBase]]]
    /\ UNCHANGED <<ret, money>>

\* Bound: a return that was inserted meanwhile is another one.
InsertReturn(x) ==
    LET r == call[x].key
    IN  /\ At(x, "insert")
        /\ IF ret[r] = NoReturn /\ IndexAllows(r, "requested")
           THEN ret' = [ret EXCEPT ![r] = call[x].row]
           ELSE UNCHANGED ret
        /\ Finish(x)
        /\ UNCHANGED money

\* requireReturnParticipant, and the row the handler is going to write.
Write(x, r, row, then) ==
    /\ At(x, "idle")
    /\ call' = [call EXCEPT ![x] = [Idle EXCEPT !.at = then, !.key = r, !.row = row,
                                                !.read = order.refundedBase]]
    /\ UNCHANGED <<ret, money>>

DecideReturn(x, r, approve) ==
    /\ ret[r].status = "requested"
    /\ ret[r].statutory => approve
    /\ Write(x, r, [ret[r] EXCEPT !.decided = TRUE,
                        !.status = IF approve THEN "approved" ELSE "rejected"], "update")

MarkReturnShipped(x, r) ==
    /\ ret[r].status = "approved"
    /\ Write(x, r, [ret[r] EXCEPT !.status = "shipped"], "update")

\* Mutant: the refund is made before the receipt is written.
RefundsAtOnce(x, r) ==
    /\ ret[r].status \in {"approved", "shipped"}
    /\ Write(x, r, [ret[r] EXCEPT !.status = "received"], "refund")

ConfirmReturnReceived(x, r) ==
    /\ ret[r].status \in {"approved", "shipped"}
    /\ Write(x, r, [ret[r] EXCEPT !.status = "received", !.received = TRUE], "update")

\* updateReturn: the columns given are written, the others stay.
UpdateReturn(x) ==
    LET r == call[x].key
        row == call[x].row
    IN  /\ At(x, "update")
        /\ IF IndexAllows(r, row.status)
           THEN /\ ret' = [ret EXCEPT ![r].status = row.status,
                                      ![r].decided = @ \/ row.decided,
                                      ![r].received = @ \/ row.received]
                /\ call' = [call EXCEPT ![x] = IF row.status = "received"
                      THEN [@ EXCEPT !.at = "refund", !.row = NoReturn] ELSE Idle]
           ELSE Finish(x) /\ UNCHANGED ret
        /\ UNCHANGED money

\* Mutant: the job takes the approved returns too.
ExpireUnsent ==
    \E r \in Returns :
        /\ ret[r].status \in {"requested", "approved"}
        /\ ret' = [ret EXCEPT ![r].status = "expired"]
        /\ UNCHANGED <<money, call>>

\* expire_stale_order_returns: window_expires_at may pass at any time, and only the
\* job looks at it.  One return is open, so one at most is stale.
ExpireStaleReturns ==
    \E r \in Returns :
        /\ ret[r].status = "requested"
        /\ ret' = [ret EXCEPT ![r].status = "expired"]
        /\ UNCHANGED <<money, call>>

-----------------------------------------------------------------------------
(* refundOrder, for the confirmation of a return and for an operator.      *)

\* Bound: operators make one request with each key.
OperatorRefunds(x, k, base) ==
    /\ At(x, "idle")
    /\ ledger[k] = NoRefund /\ \A y \in Calls : call[y].key # k
    /\ call' = [call EXCEPT ![x] = [Idle EXCEPT !.at = "refund", !.key = k,
                                                !.amount = base]]
    /\ UNCHANGED <<ret, money>>

Least(a, b) == IF a < b THEN a ELSE b

\* What a return asks back is cut down to what the order had left when it was read.
Asked(x) ==
    IF call[x].key \in Operators THEN call[x].amount
    ELSE Least(ret[call[x].key].base, ItemAmount - call[x].read)

\* requireOrder and the checks; a refusal leaves the return as it is.
ReadOrder(x) ==
    /\ At(x, "refund")
    /\ IF order.status \in Refundable /\ Asked(x) \in 1 .. ItemAmount - order.refundedBase
       THEN call' = [call EXCEPT ![x].at = "quote", ![x].amount = Asked(x),
                                 ![x].read = order.refundedBase]
       ELSE Finish(x)
    /\ UNCHANGED <<ret, money>>

IsFull(x) == call[x].read + call[x].amount = ItemAmount

Credited ==
    MapThenSumSet(LAMBDA k : ledger[k].credited,
                  {k \in Keys : ledger[k].status \in {"pending", "succeeded"}})

\* Nothing is left to refund when what was credited covers the charge.
Quote(x) ==
    /\ At(x, "quote")
    /\ LET credit == IF IsFull(x) THEN TotalCharged - Credited ELSE call[x].amount
       IN call' = [call EXCEPT ![x] = IF credit \in 1 .. TotalCharged
                                      THEN [@ EXCEPT !.at = "claim", !.credit = credit]
                                      ELSE Idle]
    /\ UNCHANGED <<ret, money>>

\* The step after refundOrder: only a confirmation has one.
Refunded(x, outcome) ==
    call' = [call EXCEPT ![x] = IF call[x].key \in Operators THEN Idle
                                ELSE [Idle EXCEPT !.at = "settle", !.key = call[x].key,
                                                  !.outcome = outcome]]

\* Mutant: a key that was claimed is refunded again.
ClaimAgain(x) ==
    /\ At(x, "claim")
    /\ ledger' = [ledger EXCEPT ![call[x].key] =
                    [status |-> "pending", credited |-> call[x].credit]]
    /\ Goto(x, "provider")
    /\ UNCHANGED <<ret, order, refunds, events>>

\* A key that was claimed before answers with what the ledger says of it.
Claim(x) ==
    LET k == call[x].key
    IN  /\ At(x, "claim")
        /\ IF ledger[k] # NoRefund
           THEN Refunded(x, ledger[k].status) /\ UNCHANGED ledger
           ELSE /\ ledger' = [ledger EXCEPT ![k] = [status |-> "pending",
                                                    credited |-> call[x].credit]]
                /\ Goto(x, "provider")
        /\ UNCHANGED <<ret, order, refunds, events>>

RefundedAtProvider ==
    MapThenSumSet(LAMBDA k : ledger[k].credited,
                  {k \in Keys : refunds[k] \in {"pending", "succeeded"}})

\* The provider refuses to refund more than the charge.
CreateRefund(x) ==
    /\ At(x, "provider")
    /\ IF RefundedAtProvider + call[x].credit <= TotalCharged
       THEN \E s \in {"pending", "succeeded"} :
              /\ refunds' = [refunds EXCEPT ![call[x].key] = s]
              /\ call' = [call EXCEPT ![x].at = "ledger", ![x].outcome = s]
       ELSE Finish(x) /\ UNCHANGED refunds
    /\ UNCHANGED <<ret, order, ledger, events>>

UpdateRefund(x) ==
    /\ At(x, "ledger")
    /\ ledger' = [ledger EXCEPT ![call[x].key].status = call[x].outcome]
    /\ Goto(x, "record")
    /\ UNCHANGED <<ret, order, refunds, events>>

\* The running total is the one read at the start plus this refund; a full refund
\* that succeeded at once is finalized.
RecordRefund(x) ==
    /\ At(x, "record")
    /\ order' = [status |-> IF IsFull(x) THEN "closed" ELSE order.status,
                 refundedBase |-> call[x].read + call[x].amount,
                 refundKey |-> call[x].key]
    /\ IF IsFull(x) /\ call[x].outcome = "succeeded" THEN Goto(x, "finalize")
       ELSE Refunded(x, call[x].outcome)
    /\ UNCHANGED <<ret, ledger, refunds, events>>

\* finalizeRefund.
FinalizeRefund(x) ==
    /\ At(x, "finalize")
    /\ order' = [order EXCEPT !.status = "closed"]
    /\ Refunded(x, call[x].outcome)
    /\ UNCHANGED <<ret, ledger, refunds, events>>

\* Mutant: a refund that is pending counts for one that was made.
SettleOnAnyRefund(x) ==
    /\ At(x, "settle")
    /\ ret' = [ret EXCEPT ![call[x].key].status = "refunded"]
    /\ Finish(x)
    /\ UNCHANGED money

\* The last update of a confirmation; the index may refuse it as any other.
Settle(x) ==
    LET status == IF call[x].outcome = "succeeded" THEN "refunded" ELSE "received"
    IN  /\ At(x, "settle")
        /\ ret' = IF IndexAllows(call[x].key, status)
                  THEN [ret EXCEPT ![call[x].key].status = status] ELSE ret
        /\ Finish(x)
        /\ UNCHANGED money

-----------------------------------------------------------------------------
(* refund.updated, as handleStripeWebhook handles it.                      *)

\* An event that is not of the last refund recorded is refused; one that is claimed
\* is not handled a second time meanwhile.
TakeRefundEvent(x, k) ==
    /\ At(x, "idle") /\ k \in events
    /\ order.refundKey = k
    /\ \A y \in Calls : ~(At(y, "event") /\ call[y].key = k)
    /\ call' = [call EXCEPT ![x] = [Idle EXCEPT !.at = "event", !.key = k]]
    /\ UNCHANGED <<ret, money>>

\* Success closes the order (finalizeRefund), also after a partial refund; a failure
\* leaves it disputed.  The ledger, the running total and the return stay as they
\* are.  The event comes again when its completion was not recorded.
WriteRefundEvent(x) ==
    /\ At(x, "event")
    /\ order' = [order EXCEPT !.status = IF refunds[call[x].key] = "succeeded"
                                         THEN "closed" ELSE "held"]
    /\ events' \in {events \ {call[x].key}} \cup (IF CallsFail THEN {events} ELSE {})
    /\ Finish(x)
    /\ UNCHANGED <<ret, ledger, refunds>>

-----------------------------------------------------------------------------
(* The provider and the rest of the order.                                 *)

\* The provider decides a pending refund, whatever the requests are doing.
RefundSettles(k) ==
    /\ refunds[k] = "pending"
    /\ \E s \in {"succeeded", "failed"} : refunds' = [refunds EXCEPT ![k] = s]
    /\ events' = events \cup {k}
    /\ UNCHANGED <<ret, order, ledger, call>>

\* The seller ships, the buyer confirms or disputes.
OrderMovesOn ==
    /\ order.status \in Returnable
    /\ order' = [order EXCEPT !.status = IF @ = "held" THEN "underway" ELSE "held"]
    /\ UNCHANGED <<ret, ledger, refunds, events, call>>

\* Any awaited call may throw, and the process may die there.
Fail(x) ==
    /\ CallsFail /\ ~At(x, "idle")
    /\ Finish(x)
    /\ UNCHANGED <<ret, money>>

Step(x) ==
    \/ InsertReturn(x) \/ UpdateReturn(x)
    \/ ReadOrder(x) \/ Quote(x) \/ Claim(x) \/ CreateRefund(x) \/ UpdateRefund(x)
    \/ RecordRefund(x) \/ FinalizeRefund(x) \/ Settle(x)
    \/ WriteRefundEvent(x)

Next ==
    \/ \E x \in Calls :
        \/ \E r \in Returns :
            \/ RequestReturn(x, r) \/ MarkReturnShipped(x, r)
            \/ ConfirmReturnReceived(x, r)
            \/ \E approve \in BOOLEAN : DecideReturn(x, r, approve)
        \/ \E k \in Operators, base \in 1 .. ItemAmount : OperatorRefunds(x, k, base)
        \/ \E k \in Keys : TakeRefundEvent(x, k)
        \/ Step(x) \/ Fail(x)
    \/ ExpireStaleReturns
    \/ \E k \in Keys : RefundSettles(k)
    \/ OrderMovesOn

Spec == Init /\ [][Next]_vars

-----------------------------------------------------------------------------
(* Properties.                                                             *)

\* The CHECK of the table never makes an update fail: the decision of a return has a
\* time exactly when its status says it was decided.
DecisionCheck(r) ==
    ret[r].status # "none" => (ret[r].decided <=> ret[r].status \notin Undecided)

TypeOK ==
    /\ \A r \in Returns :
        /\ ret[r] \in [status: ReturnStatus \cup {"none"}, statutory: BOOLEAN,
                       base: 0 .. ItemAmount, decided: BOOLEAN, received: BOOLEAN]
        /\ DecisionCheck(r)
    /\ Cardinality({r \in Returns : ret[r].status \in Open}) <= 1
    /\ order \in [status: {"held", "underway", "closed"}, refundedBase: 0 .. ItemAmount,
                  refundKey: Keys \cup {None}]
    /\ ledger \in [Keys -> [status: {"none", "pending", "succeeded"},
                            credited: 0 .. TotalCharged]]
    /\ refunds \in [Keys -> {"none", "pending", "succeeded", "failed"}]
    /\ events \subseteq Keys

\* The money of a return moves only after its item was received, and a return that is
\* called refunded has a refund that succeeded at the provider.
RefundFollowsReceipt ==
    \A r \in Returns :
        /\ ledger[r] # NoRefund => ret[r].received
        /\ ret[r].status = "refunded" => refunds[r] = "succeeded"

\* A return is refunded once, by confirmations that overlap and by those that come
\* one after another (a late update can reopen a return that was received): what its
\* key was claimed for stays, and the provider is asked only while it has made no
\* refund with the key.
OneRefundPerReturn ==
    [][\A k \in Keys :
        /\ ledger[k] # NoRefund => ledger'[k].credited = ledger[k].credited
        /\ refunds[k] # "none" =>
             \A x \in Calls : At(x, "provider") /\ call[x].key = k => call'[x].at # "ledger"]_vars

=============================================================================
