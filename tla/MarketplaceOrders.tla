-------------------------- MODULE MarketplaceOrders --------------------------
(***************************************************************************)
(* Marketplace orders on one physical listing: checkout, escrow, handover, *)
(* seller payout, refunds and chargebacks (modules/orders/orders.service). *)
(*                                                                         *)
(* Every handler of the service reads the order, awaits the payment        *)
(* provider or the database, and then writes the order with an update that *)
(* carries no guard on the status it read.  Each await is a step of its    *)
(* own here: a request holds the step it is at and the row it read, and    *)
(* other requests run between its steps.  The steps of all handlers are    *)
(* the actions of this module; the payment provider is external.           *)
(***************************************************************************)
EXTENDS Integers, FiniteSets, Functions

CONSTANTS
    Orders,         \* checkout attempts on the listing, one idempotency key each
    Requests,       \* API requests and webhook workers that may run at once
    Reconciler,     \* the reconcile-order-checkouts job (one at a time, leased)
    RefundKeys,     \* idempotency keys refund requests are made with
    HandDelivered,  \* the orders whose delivery method is hand_delivery
    Handlers,       \* the entry points callers use in this instance
    Disputes,       \* what the card network tells of charges in this instance
    ItemAmount,     \* itemAmountMinor of every order
    Fees,           \* protection and shipping fees on top of it
    SellerAmount,   \* sellerTransferAmountMinor
    MaxFailures,    \* bound on awaited calls that throw and on crashes
    None

AllHandlers == {"checkout", "pay", "async", "cancel", "webhook", "reconcile",
                "ship", "confirm", "handover", "dispute", "refund",
                "chargeback"}

\* What the card network tells of a charge: an early fraud warning, an inquiry
\* and its end, a dispute, its review, the withdrawal of the funds, its outcome.
DisputeTypes == {"warning", "inquiry", "inquiry_closed", "open", "under_review",
                 "funds_withdrawn", "won", "lost"}

ASSUME OrdersAssumption ==
    /\ HandDelivered \subseteq Orders
    /\ Reconciler \notin Requests
    /\ IsFiniteSet(RefundKeys)
    /\ Handlers \subseteq AllHandlers /\ Disputes \subseteq DisputeTypes
    /\ ItemAmount \in Nat \ {0} /\ Fees \in Nat /\ SellerAmount \in Nat \ {0}
    /\ MaxFailures \in Nat
    /\ None \notin Orders \cup RefundKeys

VARIABLES
    listing,    \* listings.status of the one listing
    order,      \* the orders table
    ledger,     \* the order_refunds table
    rq,         \* the requests in flight and what each has read
    session,    \* at the provider: the checkout session of each order
    transfers,  \* at the provider: the seller transfers made
    reversals,  \* at the provider: amount reversed with each idempotency key
    refunds,    \* at the provider: status of the refund made with each key
    dispute,    \* at the card network: the dispute on each order's charge
    events,     \* webhook events not yet handled
    failures

dbVars       == <<listing, order, ledger>>
providerVars == <<session, transfers, reversals, refunds, dispute>>
vars == <<listing, order, ledger, rq, session, transfers, reversals, refunds,
          dispute, events, failures>>

Unpaid       == {"initiated", "payment_pending"}
Active       == Unpaid \cup {"escrow_funded", "shipped", "pin_pending",
                             "disputed", "refund_pending"}
Closed       == {"cancelled", "refunded"}
OrderStatus  == Active \cup Closed \cup {"completed", "none"}
TransferStatus == {"pending", "completed", "partially_reversed", "reversed"}
ListingStatus  == {"published", "reserved", "sold"}

TotalCharged == ItemAmount + Fees

\* The CHECK on orders.chargeback_status.
ChargebackStatuses == {"warning", "open", "under_review", "won", "lost", "withdrawn"}

OrderRow == [status: OrderStatus, session: BOOLEAN, paymentIntent: BOOLEAN,
             transfer: TransferStatus, refundedBase: Nat,
             refundKey: RefundKeys \cup {None},
             dispute: {"none"} \cup ChargebackStatuses,
             disputeId: {"none", "warning", "dispute"}]

NoOrder == [status |-> "none", session |-> FALSE, paymentIntent |-> FALSE,
            transfer |-> "pending", refundedBase |-> 0, refundKey |-> None,
            dispute |-> "none", disputeId |-> "none"]

\* A row of order_refunds: what was asked for and what the buyer is credited.
LedgerRow == [base: Nat \ {0}, credited: Nat \ {0}, full: BOOLEAN,
              status: {"pending", "succeeded"}]

ASSUME RowAssumption == None \notin LedgerRow

Event == [type: {"paid", "unpaid", "expired", "refund_succeeded", "refund_failed"}
                    \cup DisputeTypes,
          o: Orders, key: RefundKeys \cup {None}]

\* reverseTransfer keys: one per refund, and chargeback:<dispute>.
ReversalKeys == RefundKeys \cup {"chargeback"}

Idle == [at |-> "idle", o |-> None, evt |-> None, row |-> NoOrder, key |-> None,
         amount |-> 0, credit |-> 0, outcome |-> None,
         to |-> None, from |-> None, next |-> "idle"]

Workers == Requests \cup {Reconciler}

Init ==
    /\ listing = "published"
    /\ order = [o \in Orders |-> NoOrder]
    /\ ledger = [o \in Orders |-> [k \in RefundKeys |-> None]]
    /\ rq = [p \in Workers |-> Idle]
    /\ session = [o \in Orders |-> "none"]
    /\ transfers = {}
    /\ reversals = [o \in Orders |-> [k \in ReversalKeys |-> 0]]
    /\ refunds = [o \in Orders |-> [k \in RefundKeys |-> "none"]]
    /\ dispute = [o \in Orders |-> "none"]
    /\ events = {}
    /\ failures = 0

-----------------------------------------------------------------------------
(* What every handler is made of.                                          *)

At(p, step) == rq[p].at = step

Row(p) == order[rq[p].o]

Free(p, handler) == handler \in Handlers /\ p \in Requests /\ At(p, "idle")

Begin(p, at, o) == rq' = [rq EXCEPT ![p] = [Idle EXCEPT !.at = at, !.o = o]]

Goto(p, at) == rq' = [rq EXCEPT ![p].at = at]

Finish(p) == rq' = [rq EXCEPT ![p] = Idle]

\* The last step of a handler: a webhook handler still completes its event.
Done(p) ==
    IF rq[p].evt = None THEN Idle
    ELSE [Idle EXCEPT !.at = "complete", !.o = rq[p].o, !.evt = rq[p].evt]

\* An exception leaves the handler.  The event a webhook handler was working on
\* is delivered again, or is lost: its claim in compliance_provider_events makes
\* an early retry answer IN_PROGRESS, which the inbox takes for success.
Throw(p) ==
    /\ Finish(p)
    /\ IF rq[p].evt = None
       THEN UNCHANGED events
       ELSE events' \in {events, events \cup {rq[p].evt}}

\* orders_one_active_physical_per_listing_idx: a row may take an active status
\* only while no other order of the listing has one.
IndexAllows(o, status) ==
    status \in Active => \A other \in Orders \ {o} : order[other].status \notin Active

\* synchronize_listing_order_lifecycle, the trigger on an update of the status.
ListingAfter(o, status) ==
    IF order[o].status = status \/ listing # "reserved" THEN listing
    ELSE IF status = "completed" THEN "sold"
    ELSE IF status \in Closed THEN "published"
    ELSE listing

\* orderRepo.update: the columns given are written whatever the row holds now.
\* The statement fails as a whole when the index refuses the new status.
UpdateOrder(p, row, next) ==
    /\ UNCHANGED <<ledger, providerVars, failures>>
    /\ \/ /\ IndexAllows(rq[p].o, row.status)
          /\ order' = [order EXCEPT ![rq[p].o] = row]
          /\ listing' = ListingAfter(rq[p].o, row.status)
          /\ rq' = [rq EXCEPT ![p] = next]
          /\ UNCHANGED events
       \/ /\ ~IndexAllows(rq[p].o, row.status)
          /\ Throw(p)
          /\ UNCHANGED <<order, listing>>

\* setListingStatus(listing, to, onlyFrom), and the step after it.
ThenList(p, to, from, next) ==
    [Idle EXCEPT !.at = "list", !.o = rq[p].o, !.evt = rq[p].evt,
                 !.to = to, !.from = from, !.next = next]

Resume(p) ==
    rq' = [rq EXCEPT ![p] = IF rq[p].next = "idle" THEN Done(p)
                            ELSE [Idle EXCEPT !.at = rq[p].next, !.o = rq[p].o]]

\* setListingStatus: find the listing, and write only if it has to change.
FindListing(p) ==
    /\ At(p, "list")
    /\ IF listing = rq[p].to \/ (rq[p].from # None /\ listing # rq[p].from)
       THEN Resume(p)
       ELSE Goto(p, "list-write")
    /\ UNCHANGED <<dbVars, providerVars, events, failures>>

WriteListing(p) ==
    /\ At(p, "list-write")
    /\ listing' = rq[p].to
    /\ Resume(p)
    /\ UNCHANGED <<order, ledger, providerVars, events, failures>>

CompleteEvent(p) ==
    /\ At(p, "complete")
    /\ Finish(p)
    /\ UNCHANGED <<dbVars, providerVars, events, failures>>

\* Any awaited call of any handler may throw, and the process may die there.
Fail(p) ==
    /\ failures < MaxFailures
    /\ ~At(p, "idle")
    /\ failures' = failures + 1
    /\ Throw(p)
    /\ UNCHANGED <<dbVars, providerVars>>

-----------------------------------------------------------------------------
(* Checkout.                                                               *)

\* requirePurchasableListing: a published listing, or a retry of an order that
\* is still open.
BeginCheckout(p, o) ==
    /\ Free(p, "checkout")
    /\ listing = "published" \/ order[o].status \notin Closed \cup {"none"}
    /\ Begin(p, "find", o)
    /\ UNCHANGED <<dbVars, providerVars, events, failures>>

\* createCheckoutOrder looks the idempotency key up before it inserts.
FindCheckout(p) ==
    /\ At(p, "find")
    /\ CASE Row(p).status = "none"   -> Goto(p, "insert")
         [] Row(p).status \in Closed -> Finish(p)
         [] OTHER                    -> Goto(p, "checkout")
    /\ UNCHANGED <<dbVars, providerVars, events, failures>>

\* The insert fails on the key of a raced order, which is then used as it is,
\* on the one-active-order index, or on a listing that is no longer published.
InsertOrder(p) ==
    /\ At(p, "insert")
    /\ \/ /\ Row(p).status = "none"
          /\ listing = "published" /\ IndexAllows(rq[p].o, "initiated")
          /\ order' = [order EXCEPT ![rq[p].o].status = "initiated"]
          /\ listing' = "reserved"
          /\ rq' = [rq EXCEPT ![p] = ThenList(p, "reserved", None, "checkout")]
       \/ /\ Row(p).status # "none"
          /\ rq' = [rq EXCEPT ![p] = ThenList(p, "reserved", None, "checkout")]
          /\ UNCHANGED <<order, listing>>
       \/ /\ Row(p).status = "none"
          /\ listing # "published" \/ ~IndexAllows(rq[p].o, "initiated")
          /\ Finish(p)
          /\ UNCHANGED <<order, listing>>
    /\ UNCHANGED <<ledger, providerVars, events, failures>>

\* ensureProviderCheckout: one session per idempotency key, then its reference.
OpenCheckout(p) ==
    /\ At(p, "checkout")
    /\ session' = [session EXCEPT ![rq[p].o] = IF @ = "none" THEN "open" ELSE @]
    /\ Goto(p, "save-session")
    /\ UNCHANGED <<dbVars, transfers, reversals, refunds, dispute, events, failures>>

SaveSession(p) ==
    /\ At(p, "save-session")
    /\ UpdateOrder(p, [Row(p) EXCEPT !.session = TRUE], Idle)

\* Mutant: the order is cancelled without expiring its session first.
CancelLocally(p, o) ==
    /\ Free(p, "cancel")
    /\ order[o].status \in Unpaid
    /\ Begin(p, "cancel", o)
    /\ UNCHANGED <<dbVars, providerVars, events, failures>>

\* cancelUnpaidOrder.
CancelUnpaid(p, o) ==
    /\ Free(p, "cancel")
    /\ order[o].status \in Unpaid
    /\ Begin(p, IF order[o].session THEN "expire" ELSE "cancel", o)
    /\ UNCHANGED <<dbVars, providerVars, events, failures>>

\* The provider expires an open session only; a retry replays its answer.
ExpireSession(p) ==
    /\ At(p, "expire")
    /\ \/ /\ session[rq[p].o] = "open"
          /\ session' = [session EXCEPT ![rq[p].o] = "expired"]
          /\ events' = events \cup {[type |-> "expired", o |-> rq[p].o, key |-> None]}
          /\ Goto(p, "cancel")
       \/ /\ session[rq[p].o] = "expired"
          /\ Goto(p, "cancel")
          /\ UNCHANGED <<session, events>>
       \/ /\ session[rq[p].o] # "open"
          /\ Throw(p)
          /\ UNCHANGED session
    /\ UNCHANGED <<dbVars, transfers, reversals, refunds, dispute, failures>>

WriteCancelled(p) ==
    /\ At(p, "cancel")
    /\ UpdateOrder(p, [Row(p) EXCEPT !.status = "cancelled"],
                   ThenList(p, "published", "reserved", "idle"))

-----------------------------------------------------------------------------
(* The payment provider and the card network (external).                   *)

Emit(type, o, k) == events' = events \cup {[type |-> type, o |-> o, key |-> k]}

\* The buyer has the address of a session once its reference is saved.
SessionEnds(o, from, to, type) ==
    /\ session[o] = from /\ order[o].session
    /\ session' = [session EXCEPT ![o] = to]
    /\ Emit(type, o, None)
    /\ UNCHANGED <<dbVars, rq, transfers, reversals, refunds, dispute, failures>>

CustomerPays(o) == "pay" \in Handlers /\ SessionEnds(o, "open", "paid", "paid")

SessionExpires(o) == "pay" \in Handlers /\ SessionEnds(o, "open", "expired", "expired")

\* A payment method that settles later completes the session unpaid.
PaysLater(o) == "async" \in Handlers /\ SessionEnds(o, "open", "complete", "unpaid")

AsyncSettles(o) ==
    /\ "async" \in Handlers
    /\ \/ SessionEnds(o, "complete", "paid", "paid")
       \/ SessionEnds(o, "complete", "failed", "expired")

RefundSettles(o, k) ==
    /\ refunds[o][k] = "pending"
    /\ \E s \in {"succeeded", "failed"} :
         /\ refunds' = [refunds EXCEPT ![o][k] = s]
         /\ Emit(IF s = "succeeded" THEN "refund_succeeded" ELSE "refund_failed", o, k)
    /\ UNCHANGED <<dbVars, rq, session, transfers, reversals, dispute, failures>>

\* An early fraud warning has an identifier of its own.  An inquiry ends or becomes
\* a dispute; a dispute withdraws the funds at some point and is decided either way.
DisputeMoves ==
    ({"none", "warning"} \X {"inquiry", "open"}) \cup {<<"none", "warning">>}
        \cup ({"inquiry"} \X {"inquiry_closed", "open"})
        \cup ({"open"} \X {"funds_withdrawn", "under_review"})
        \cup {<<"funds_withdrawn", "under_review">>}
        \cup ({"open", "funds_withdrawn", "under_review"} \X {"won", "lost"})

NetworkDisputes(o) ==
    /\ "chargeback" \in Handlers
    /\ session[o] = "paid"
    /\ \E move \in DisputeMoves :
         /\ dispute[o] = move[1] /\ move[2] \in Disputes
         /\ dispute' = [dispute EXCEPT ![o] = move[2]]
         /\ Emit(move[2], o, None)
    /\ UNCHANGED <<dbVars, rq, session, transfers, reversals, refunds, failures>>

-----------------------------------------------------------------------------
(* handleStripeWebhook and handleProviderDisputeEvent.                     *)

\* Mutant: whatever ends a session is taken for its payment.
EventStepOfAnyEnd == [paid |-> "fund", expired |-> "fund", unpaid |-> "fund",
                      refund_succeeded |-> "refunded", refund_failed |-> "refund-failed"]

EventStep == [paid |-> "fund", expired |-> "cancel", unpaid |-> "pend",
              refund_succeeded |-> "refunded", refund_failed |-> "refund-failed"]

DisputeId(type) == IF type = "warning" THEN "warning" ELSE "dispute"

\* Mutant: only the withdrawal of the funds counts, not a dispute that is lost.
FundsLostOnWithdrawal(type) == type = "funds_withdrawn"

FundsLost(type) == type \in {"funds_withdrawn", "lost"}

\* Mutant: what the provider says of the dispute is stored as it is.
ProviderStatus(type) == type

\* PROVIDER_DISPUTE_STATUS: an inquiry is recorded as a warning, and one that ends
\* as withdrawn; the withdrawal of the funds comes with a dispute that is open.
ChargebackStatus(type) ==
    CASE type = "inquiry"         -> "warning"
      [] type = "inquiry_closed"  -> "withdrawn"
      [] type = "funds_withdrawn" -> "open"
      [] OTHER                    -> type

\* What makes the handler refuse an event: a refund that is not the last one
\* recorded, a charge no order has, another dispute already recorded.
Refused(e) ==
    LET row == order[e.o] IN
    IF e.type \in {"refund_succeeded", "refund_failed"} THEN row.refundKey # e.key
    ELSE /\ e.type \notin DOMAIN EventStep
         /\ \/ ~row.paymentIntent
            \/ row.disputeId \notin {"none", DisputeId(e.type)}

\* The seller leg is recovered when the row read says it was transferred.
FirstStep(e) ==
    IF e.type \in DOMAIN EventStep THEN EventStep[e.type]
    ELSE IF FundsLost(e.type) /\ order[e.o].transfer = "completed" THEN "recover"
    ELSE "chargeback"

TakeEvent(p, e) ==
    /\ Free(p, "webhook") /\ e \in events
    /\ events' = events \ {e}
    /\ rq' = IF Refused(e) THEN rq
             ELSE [rq EXCEPT ![p] = [Idle EXCEPT !.at = FirstStep(e), !.o = e.o, !.evt = e]]
    /\ UNCHANGED <<dbVars, providerVars, failures>>

\* recordSuccessfulPayment, for the webhook and for the reconciliation job.
Fund(p) ==
    /\ At(p, "fund")
    /\ UpdateOrder(p, [Row(p) EXCEPT !.status = "escrow_funded", !.paymentIntent = TRUE],
                   ThenList(p, "reserved", None, "idle"))

WritePaymentPending(p) ==
    /\ At(p, "pend")
    /\ UpdateOrder(p, [Row(p) EXCEPT !.status = "payment_pending"], Done(p))

WriteRefundFailed(p) ==
    /\ At(p, "refund-failed")
    /\ UpdateOrder(p, [Row(p) EXCEPT !.status = "disputed"], Done(p))

\* finalizeRefund, for the webhook and for a refund that succeeds at once.
WriteRefunded(p) ==
    /\ At(p, "refunded")
    /\ UpdateOrder(p, [Row(p) EXCEPT !.status = "refunded"],
                   ThenList(p, "published", "reserved", "idle"))

\* A reversal is made once per key and never beyond what was transferred.
Reversed(o) == SumFunction(reversals[o])

MayReverse(o, key, amount) ==
    \/ reversals[o][key] # 0
    \/ Reversed(o) + amount <= SellerAmount /\ \E t \in transfers : t.o = o

Reverse(o, key, amount) ==
    reversals' = [reversals EXCEPT ![o][key] = IF @ = 0 THEN amount ELSE @]

RecoverSellerLeg(p) ==
    /\ At(p, "recover")
    /\ IF MayReverse(rq[p].o, "chargeback", SellerAmount)
       THEN /\ Reverse(rq[p].o, "chargeback", SellerAmount)
            /\ Goto(p, "recovered")
            /\ UNCHANGED events
       ELSE Throw(p) /\ UNCHANGED reversals
    /\ UNCHANGED <<dbVars, session, transfers, refunds, dispute, failures>>

\* A dispute or an inquiry that is closed and was not lost leaves the status as it is.
WriteChargeback(p) ==
    /\ rq[p].at \in {"chargeback", "recovered"}
    /\ LET type == rq[p].evt.type IN
       UpdateOrder(p, [Row(p) EXCEPT
           !.status    = IF ChargebackStatus(type) \in {"won", "withdrawn"}
                         THEN @ ELSE "disputed",
           !.dispute   = ChargebackStatus(type),
           !.disputeId = DisputeId(type),
           !.transfer  = IF At(p, "recovered") THEN "reversed" ELSE @], Done(p))

-----------------------------------------------------------------------------
(* reconcileStaleCheckouts.                                                *)

\* Mutant: only orders with a session reference are listed.
ReconcileReferenced(o) ==
    /\ "reconcile" \in Handlers
    /\ At(Reconciler, "idle")
    /\ order[o].status \in Unpaid /\ order[o].session
    /\ Begin(Reconciler, "retrieve", o)
    /\ UNCHANGED <<dbVars, providerVars, events, failures>>

\* One unpaid order of the batch.  A session reference is asked for at the
\* provider; an order that never got one is cancelled 26 hours later, when the
\* requests that could still save one have ended.
ReconcileOrder(o) ==
    /\ "reconcile" \in Handlers
    /\ At(Reconciler, "idle")
    /\ order[o].status \in Unpaid
    /\ order[o].session \/ \A p \in Requests : rq[p].o # o
    /\ Begin(Reconciler, IF order[o].session THEN "retrieve" ELSE "recheck", o)
    /\ UNCHANGED <<dbVars, providerVars, events, failures>>

\* Mutant: an expired session is not told apart from an open one.
RetrievePaidCheckout(p) ==
    /\ At(p, "retrieve")
    /\ IF session[rq[p].o] = "paid" THEN Goto(p, "fund") ELSE Finish(p)
    /\ UNCHANGED <<dbVars, providerVars, events, failures>>

RetrieveCheckout(p) ==
    /\ At(p, "retrieve")
    /\ CASE session[rq[p].o] = "paid"                 -> Goto(p, "fund")
         [] session[rq[p].o] = "expired"              -> Goto(p, "recheck")
         [] session[rq[p].o] \in {"complete", "failed"} -> Goto(p, "pend")
         [] OTHER                                     -> Finish(p)
    /\ UNCHANGED <<dbVars, providerVars, events, failures>>

\* cancelReconciledOrder reads the row again before the blind update.
RecheckUnpaid(p) ==
    /\ At(p, "recheck")
    /\ IF Row(p).status \in Unpaid THEN Goto(p, "cancel") ELSE Finish(p)
    /\ UNCHANGED <<dbVars, providerVars, events, failures>>

-----------------------------------------------------------------------------
(* Fulfilment, payout and buyer disputes.                                  *)

MarkShipped(p, o) ==
    /\ Free(p, "ship")
    /\ o \notin HandDelivered /\ order[o].status = "escrow_funded"
    /\ Begin(p, "ship", o)
    /\ UNCHANGED <<dbVars, providerVars, events, failures>>

WriteShipped(p) ==
    /\ At(p, "ship")
    /\ UpdateOrder(p, [Row(p) EXCEPT !.status = "shipped"], Idle)

IssueHandoverCode(p, o) ==
    /\ Free(p, "handover")
    /\ o \in HandDelivered /\ order[o].status \in {"escrow_funded", "pin_pending"}
    /\ Begin(p, "issue", o)
    /\ UNCHANGED <<dbVars, providerVars, events, failures>>

WritePinPending(p) ==
    /\ At(p, "issue")
    /\ UpdateOrder(p, [Row(p) EXCEPT !.status = "pin_pending"], Idle)

\* Mutant: the order is completed before the seller is paid.
CompleteUnpaid(p, o) ==
    /\ Free(p, "confirm")
    /\ order[o].status \in {"escrow_funded", "shipped", "pin_pending"}
    /\ rq' = [rq EXCEPT ![p] = [Idle EXCEPT !.at = "completed", !.o = o, !.row = order[o]]]
    /\ UNCHANGED <<dbVars, providerVars, events, failures>>

\* confirmHandoverPIN with the right code, and confirmDeliveryReceived.
Confirm(p, o) ==
    /\ Free(p, "confirm")
    /\ order[o].status \in IF o \in HandDelivered THEN {"pin_pending"}
                           ELSE {"escrow_funded", "shipped"}
    /\ rq' = [rq EXCEPT ![p] = [Idle EXCEPT !.at = "release", !.o = o, !.row = order[o]]]
    /\ UNCHANGED <<dbVars, providerVars, events, failures>>

\* Mutant: a key per request.
KeyPerRequest(p) == p

\* releaseSellerFunds decides on the row read; its key is one per order.
TransferKey(p) == rq[p].o

ReleaseSellerFunds(p) ==
    /\ At(p, "release")
    /\ IF rq[p].row.transfer = "completed"
       THEN Goto(p, "completed") /\ UNCHANGED transfers
       ELSE IF ~rq[p].row.paymentIntent
       THEN Finish(p) /\ UNCHANGED transfers
       ELSE /\ transfers' = transfers \cup {[o |-> rq[p].o, key |-> TransferKey(p)]}
            /\ Goto(p, "completed")
    /\ UNCHANGED <<dbVars, session, reversals, refunds, dispute, events, failures>>

WriteCompleted(p) ==
    /\ At(p, "completed")
    /\ UpdateOrder(p, [Row(p) EXCEPT !.status = "completed", !.transfer = "completed"],
                   ThenList(p, "sold", None, "idle"))

\* openDispute asks nothing of the status.
OpenDispute(p, o) ==
    /\ Free(p, "dispute")
    /\ order[o].status # "none"
    /\ Begin(p, "dispute", o)
    /\ UNCHANGED <<dbVars, providerVars, events, failures>>

WriteDisputed(p) ==
    /\ At(p, "dispute")
    /\ UpdateOrder(p, [Row(p) EXCEPT !.status = "disputed"], Idle)

-----------------------------------------------------------------------------
(* refundOrder.                                                            *)

Refundable == {"escrow_funded", "completed", "disputed"}

RefundOrder(p, o, k, base) ==
    /\ Free(p, "refund")
    /\ order[o].status \in Refundable
    /\ base \in 1 .. ItemAmount - order[o].refundedBase
    /\ rq' = [rq EXCEPT ![p] = [Idle EXCEPT !.at = "quote", !.o = o, !.row = order[o],
                                            !.key = k, !.amount = base]]
    /\ UNCHANGED <<dbVars, providerVars, events, failures>>

\* Mutant: earlier partial refunds are forgotten.
IsWholeItem(p) == rq[p].amount = ItemAmount

IsFull(p) == rq[p].row.refundedBase + rq[p].amount = ItemAmount

\* What the ledger says the buyer was credited, in rows not failed or cancelled.
Credited(o) ==
    SumFunction([k \in RefundKeys |->
        IF ledger[o][k] = None THEN 0 ELSE ledger[o][k].credited])

\* Mutant: the closing refund nets nothing off.
QuoteWholeCharge(p) ==
    /\ At(p, "quote")
    /\ rq' = [rq EXCEPT ![p].at = "claim",
                        ![p].credit = IF IsFull(p) THEN TotalCharged ELSE rq[p].amount]
    /\ UNCHANGED <<dbVars, providerVars, events, failures>>

\* The refund that closes the order out returns the fees as well; nothing is left
\* to refund when what was credited covers the charge.
QuoteRefund(p) ==
    /\ At(p, "quote")
    /\ LET credit == IF IsFull(p) THEN TotalCharged - Credited(rq[p].o) ELSE rq[p].amount
       IN rq' = [rq EXCEPT ![p] = IF credit \in 1 .. TotalCharged
                                  THEN [@ EXCEPT !.at = "claim", !.credit = credit]
                                  ELSE Idle]
    /\ UNCHANGED <<dbVars, providerVars, events, failures>>

\* Mutant: the refund is made first and claimed after it.
RefundBeforeClaim(p) ==
    /\ At(p, "claim")
    /\ Goto(p, "reverse")
    /\ UNCHANGED <<dbVars, providerVars, events, failures>>

\* claimRefund: a key that was claimed before answers with what it created.
ClaimRefund(p) ==
    /\ At(p, "claim")
    /\ LET o == rq[p].o
           k == rq[p].key
       IN IF ledger[o][k] # None
          THEN Finish(p) /\ UNCHANGED ledger
          ELSE /\ ledger' = [ledger EXCEPT ![o][k] =
                    [base |-> rq[p].amount, credited |-> rq[p].credit,
                     full |-> IsFull(p), status |-> "pending"]]
               /\ IF rq[p].row.paymentIntent THEN Goto(p, "reverse") ELSE Finish(p)
    /\ UNCHANGED <<listing, order, providerVars, events, failures>>

\* The part of the transfer that stands for an item value, rounded half up.
Proportional(base) == (2 * SellerAmount * base + ItemAmount) \div (2 * ItemAmount)

ReversalDue(p) ==
    LET row == rq[p].row IN
    IF row.transfer \in {"completed", "partially_reversed"}
    THEN (IF IsFull(p) THEN SellerAmount ELSE Proportional(row.refundedBase + rq[p].amount))
         - Proportional(row.refundedBase)
    ELSE 0

ReverseTransfer(p) ==
    /\ At(p, "reverse")
    /\ IF ReversalDue(p) <= 0
       THEN Goto(p, "refund") /\ UNCHANGED <<reversals, events>>
       ELSE IF MayReverse(rq[p].o, rq[p].key, ReversalDue(p))
       THEN /\ Reverse(rq[p].o, rq[p].key, ReversalDue(p))
            /\ Goto(p, "refund")
            /\ UNCHANGED events
       ELSE Throw(p) /\ UNCHANGED reversals
    /\ UNCHANGED <<dbVars, session, transfers, refunds, dispute, failures>>

\* The provider refuses to refund more than the charge.
RefundedAtProvider(o) ==
    SumFunction([k \in RefundKeys |->
        IF refunds[o][k] \in {"pending", "succeeded"} THEN ledger[o][k].credited ELSE 0])

CreateRefund(p) ==
    /\ At(p, "refund")
    /\ IF RefundedAtProvider(rq[p].o) + rq[p].credit <= TotalCharged
       THEN \E s \in {"pending", "succeeded"} :
              /\ refunds' = [refunds EXCEPT ![rq[p].o][rq[p].key] = s]
              /\ rq' = [rq EXCEPT ![p].at = "ledger", ![p].outcome = s]
       ELSE Finish(p) /\ UNCHANGED refunds
    /\ UNCHANGED <<dbVars, session, transfers, reversals, dispute, events, failures>>

UpdateRefund(p) ==
    /\ At(p, "ledger")
    /\ ledger' = [ledger EXCEPT ![rq[p].o][rq[p].key].status = rq[p].outcome]
    /\ Goto(p, "record")
    /\ UNCHANGED <<listing, order, providerVars, events, failures>>

\* The running total is the one read at the start plus this refund.
RecordRefund(p) ==
    /\ At(p, "record")
    /\ UpdateOrder(p, [Row(p) EXCEPT
           !.status       = IF IsFull(p) THEN "refund_pending" ELSE @,
           !.refundKey    = rq[p].key,
           !.refundedBase = rq[p].row.refundedBase + rq[p].amount,
           !.transfer     = IF ReversalDue(p) <= 0 THEN @
                            ELSE IF IsFull(p) \/ Proportional(rq[p].row.refundedBase
                                                              + rq[p].amount) >= SellerAmount
                            THEN "reversed" ELSE "partially_reversed"],
           IF IsFull(p) /\ rq[p].outcome = "succeeded"
           THEN [Idle EXCEPT !.at = "refunded", !.o = rq[p].o] ELSE Idle)

-----------------------------------------------------------------------------
\* The next step of a handler that is under way.
Step(p) ==
    \/ FindListing(p) \/ WriteListing(p) \/ CompleteEvent(p)
    \/ FindCheckout(p) \/ InsertOrder(p) \/ OpenCheckout(p) \/ SaveSession(p)
    \/ ExpireSession(p) \/ WriteCancelled(p)
    \/ Fund(p) \/ WritePaymentPending(p) \/ WriteRefundFailed(p) \/ WriteRefunded(p)
    \/ RecoverSellerLeg(p) \/ WriteChargeback(p)
    \/ RetrieveCheckout(p) \/ RecheckUnpaid(p)
    \/ WriteShipped(p) \/ WritePinPending(p) \/ WriteDisputed(p)
    \/ ReleaseSellerFunds(p) \/ WriteCompleted(p)
    \/ QuoteRefund(p) \/ ClaimRefund(p) \/ ReverseTransfer(p) \/ CreateRefund(p)
    \/ UpdateRefund(p) \/ RecordRefund(p)

Provider(o) ==
    \/ CustomerPays(o) \/ SessionExpires(o) \/ PaysLater(o) \/ AsyncSettles(o)
    \/ NetworkDisputes(o) \/ \E k \in RefundKeys : RefundSettles(o, k)

\* A request comes in.
Request(p, o) ==
    \/ BeginCheckout(p, o) \/ CancelUnpaid(p, o)
    \/ MarkShipped(p, o) \/ IssueHandoverCode(p, o) \/ Confirm(p, o)
    \/ OpenDispute(p, o)
    \/ \E k \in RefundKeys, base \in 1 .. ItemAmount : RefundOrder(p, o, k, base)

Next ==
    \/ \E p \in Workers : Step(p) \/ Fail(p)
    \/ \E p \in Requests, e \in events : TakeEvent(p, e)
    \/ \E o \in Orders : Provider(o) \/ ReconcileOrder(o)
    \/ \E p \in Requests, o \in Orders : Request(p, o)

Spec == Init /\ [][Next]_vars

\* The job visits every order of its batch, and a handler that runs is not
\* suspended for ever.  Nothing is assumed of customers, callers or webhooks.
Fairness ==
    /\ \A p \in Workers : WF_vars(Step(p))
    /\ \A o \in Orders : SF_vars(ReconcileOrder(o))

FairSpec == Spec /\ Fairness

-----------------------------------------------------------------------------
(* Properties.                                                             *)

Steps == {"idle", "complete", "list", "list-write", "find", "insert", "checkout",
          "save-session", "expire", "cancel", "fund", "pend", "recover", "recovered",
          "chargeback", "retrieve", "recheck", "ship", "issue", "release", "completed",
          "dispute", "quote", "claim", "reverse", "refund", "ledger", "record",
          "refunded", "refund-failed"}

RequestState == [at: Steps, o: Orders \cup {None}, evt: Event \cup {None}, row: OrderRow,
                 key: RefundKeys \cup {None}, amount: Nat, credit: Nat,
                 outcome: {"pending", "succeeded", None}, to: ListingStatus \cup {None},
                 from: ListingStatus \cup {None}, next: {"idle", "checkout"}]

\* The state has the shape of the tables and of the provider's objects: no
\* update takes a column or an amount out of its range.
TypeOK ==
    /\ listing \in ListingStatus
    /\ order \in [Orders -> OrderRow]
    /\ ledger \in [Orders -> [RefundKeys -> LedgerRow \cup {None}]]
    /\ rq \in [Workers -> RequestState]
    /\ session \in [Orders -> {"none", "open", "complete", "paid", "failed", "expired"}]
    /\ transfers \subseteq [o: Orders, key: Orders \cup Workers]
    /\ reversals \in [Orders -> [ReversalKeys -> Nat]]
    /\ refunds \in [Orders -> [RefundKeys -> {"none", "pending", "succeeded", "failed"}]]
    /\ dispute \in [Orders -> {"none"} \cup DisputeTypes]
    /\ events \subseteq Event
    /\ failures \in 0 .. MaxFailures

\* releaseSellerFunds never pays a seller for an order whose buyer has not paid,
\* whatever handlers run between the read of the order and the transfer.
SellerPaidOnlyFromCollectedMoney ==
    \A t \in transfers : session[t.o] = "paid"

\* A buyer is only refunded a payment that was collected, and every refund the
\* provider made has its row in the ledger.
RefundsAreClaimedAndCollected ==
    \A o \in Orders, k \in RefundKeys :
        refunds[o][k] # "none" => ledger[o][k] # None /\ session[o] = "paid"

\* An order says its seller was paid, and a listing says it was sold, only
\* after the provider made the transfer, also when a step after it failed.
PaidOutIsBackedByTransfer ==
    /\ \A o \in Orders :
        order[o].status = "completed" \/ order[o].transfer # "pending"
            => \E t \in transfers : t.o = o
    /\ listing = "sold" => transfers # {}

\* The handlers and the provider keep the promises of an escrow account: every
\* step moves the money as one of its operations does, or does not move it.
Escrow == INSTANCE EscrowAccount WITH
    Charge    <- TotalCharged,
    Payout    <- SellerAmount,
    collected <- {o \in Orders : session[o] = "paid"},
    paidOut   <- [o \in Orders |->
                    SellerAmount * Cardinality({t \in transfers : t.o = o})],
    credited  <- [o \in Orders |-> [k \in RefundKeys |->
                    IF refunds[o][k] \in {"pending", "succeeded"}
                    THEN ledger[o][k].credited ELSE 0]],
    takenBack <- reversals

MoneyMovesLikeAnEscrowAccount == Escrow!Spec

-----------------------------------------------------------------------------
(* Properties of instances where handlers do not overlap (one request).    *)

\* A settlement starts from an order in escrow: the state that a checkout, its
\* payment and the webhook of the payment leave when they run one after another.
EscrowInit ==
    /\ listing = "reserved"
    /\ order = [o \in Orders |-> [NoOrder EXCEPT !.status = "escrow_funded",
                                                 !.session = TRUE, !.paymentIntent = TRUE]]
    /\ session = [o \in Orders |-> "paid"]
    /\ ledger = [o \in Orders |-> [k \in RefundKeys |-> None]]
    /\ rq = [p \in Workers |-> Idle]
    /\ transfers = {}
    /\ reversals = [o \in Orders |-> [k \in ReversalKeys |-> 0]]
    /\ refunds = [o \in Orders |-> [k \in RefundKeys |-> "none"]]
    /\ dispute = [o \in Orders |-> "none"]
    /\ events = {}
    /\ failures = 0

EscrowSpec == EscrowInit /\ [][Next]_vars

Quiet == \A p \in Workers : At(p, "idle")

\* The part of the item value that the rows of the ledger refund.
RefundedBase(o) ==
    SumFunction([k \in RefundKeys |->
        IF ledger[o][k] = None THEN 0 ELSE ledger[o][k].base])

\* Netting off the ledger keeps what is claimed within the charge in any sequence of
\* partial refunds and a closing one, failed ones included, and the running total agrees
\* with the ledger.  Where no refund of the order failed, the refund that reaches the
\* item amount has given the whole charge back at the provider, fees included.
RunningTotalMatchesLedger ==
    \A o \in Orders :
        /\ Credited(o) <= TotalCharged
        /\ Quiet => order[o].refundedBase = RefundedBase(o)
        /\ Quiet /\ order[o].refundedBase = ItemAmount
              /\ (\A k \in RefundKeys : refunds[o][k] # "failed")
              => RefundedAtProvider(o) = TotalCharged

\* A chargeback that was lost has recovered the whole seller leg, where no refund
\* came before it: the seller of such an order keeps nothing of the transfer.
LostChargebackRecoversSellerLeg ==
    Quiet => \A o \in Orders :
        /\ order[o].dispute = "lost" /\ \E t \in transfers : t.o = o
        /\ \A k \in RefundKeys : ledger[o][k] = None
        => Reversed(o) = SellerAmount

\* A buyer never pays for an order that was cancelled, whether the buyer, a webhook or
\* the job cancelled it and whatever the other two did to it in between.  A failure may
\* leave an order without its session, which a buyer resumes while the job cancels it.
CancelledOrderIsNeverPaid ==
    failures = 0 => \A o \in Orders :
        order[o].status = "cancelled" => session[o] \in {"expired", "failed"}

\* A paid or expired checkout leaves its order unpaid for a while only, also
\* when every webhook about it is lost: the reconciliation job settles it.
CheckoutIsSettled ==
    \A o \in Orders :
        (order[o].status \in Unpaid /\ session[o] \in {"paid", "expired"})
            ~> order[o].status \notin Unpaid

\* An order whose session was never saved does not hold the listing for ever.
AbandonedOrderIsReleased ==
    \A o \in Orders :
        (order[o].status \in Unpaid /\ ~order[o].session)
            ~> (order[o].status \notin Unpaid \/ order[o].session)

-----------------------------------------------------------------------------
(* What comments and documents of the repository say, and the code does not. *)

\* refundOrder: "A refund that closes out the order returns everything the buyer paid
\* and has not already been given back".  A refund that failed gave nothing back, but
\* its row in the ledger stays pending and is netted off like the others.
ClosingRefundReturnsTheRest ==
    [][\A o \in Orders, k \in RefundKeys :
        /\ refunds[o][k] = "none" /\ refunds'[o][k] # "none"
        /\ ledger[o][k].full
        => RefundedAtProvider(o)' = TotalCharged]_vars

\* 00135: after a chargeback "no refund may be issued for it".
NoRefundAfterLostChargeback ==
    [][\A o \in Orders :
        order[o].dispute = "lost" => ledger'[o] = ledger[o]]_vars

=============================================================================
