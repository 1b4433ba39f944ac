---------------------- MODULE MarketplaceOrders_proofs ----------------------
(***************************************************************************)
(* MarketplaceOrders keeps its types, for any number of orders, requests   *)
(* and refund keys.  TypeOK alone is not inductive: a step can be taken    *)
(* only because of what the request read and decided at earlier ones.      *)
(* TypeInv adds that, one clause per group of steps.                       *)
(***************************************************************************)
EXTENDS MarketplaceOrders, FiniteSetTheorems, TLAPS

\* The steps of refundOrder, those after its claim, and those of a dispute event.
RefundSteps  == {"quote", "claim", "reverse", "refund", "ledger", "record"}
ClaimedSteps == {"reverse", "refund", "ledger"}
DisputeSteps == {"recover", "recovered", "chargeback"}

\* What a request at a step has read and decided before that step.
WellFormed(r) ==
    /\ r.at # "idle" => r.o \in Orders
    /\ r.at \in {"list", "list-write"} => r.to \in ListingStatus
    /\ r.at \in RefundSteps => r.key \in RefundKeys /\ r.amount > 0
    /\ r.at \in RefundSteps \ {"quote"} => r.credit > 0
    /\ r.at \in {"ledger", "record"} => r.outcome \in {"pending", "succeeded"}
    /\ r.at \in DisputeSteps => r.evt \in Event /\ r.evt.type \in DisputeTypes

\* A request past claimRefund has its row in the ledger.
Claimed ==
    \A p \in Workers :
        rq[p].at \in ClaimedSteps => ledger[rq[p].o][rq[p].key] # None

TypeInv == TypeOK /\ (\A p \in Workers : WellFormed(rq[p])) /\ Claimed

\* An idle worker is a request of the right type that relies on nothing.
LEMMA IdleType == NoOrder \in OrderRow /\ Idle \in RequestState /\ WellFormed(Idle)
<1>1. NoOrder \in OrderRow
  BY DEF NoOrder, OrderRow, OrderStatus, TransferStatus
<1>2. Idle \in RequestState
  BY <1>1 DEF Idle, RequestState, Steps
<1>3. WellFormed(Idle)
  BY DEF Idle, WellFormed, RefundSteps, DisputeSteps
<1> QED
  BY <1>1, <1>2, <1>3

\* One request moves, and no row of the ledger goes away: every request is still
\* well-formed and claimed.
LEMMA RequestMoves ==
    ASSUME TypeInv, NEW p \in Workers, NEW r \in RequestState, WellFormed(r),
           rq' = [rq EXCEPT ![p] = r],
           \A o \in Orders, k \in RefundKeys : ledger[o][k] # None => ledger'[o][k] # None,
           r.at \in ClaimedSteps => ledger'[r.o][r.key] # None
    PROVE  /\ rq' \in [Workers -> RequestState]
           /\ \A q \in Workers : WellFormed(rq'[q])
           /\ Claimed'
<1>1. rq \in [Workers -> RequestState]
  BY DEF TypeInv, TypeOK
<1>2. \A q \in Workers : rq'[q] = IF q = p THEN r ELSE rq[q]
  BY <1>1
<1>3. \A q \in Workers : WellFormed(rq'[q])
  BY <1>2 DEF TypeInv
<1>4. ASSUME NEW q \in Workers, rq'[q].at \in ClaimedSteps
      PROVE  ledger'[rq'[q].o][rq'[q].key] # None
  <2>1. CASE q = p
    BY <1>2, <1>4, <2>1
  <2>2. CASE q # p
    <3>1. rq'[q] = rq[q] /\ rq[q] \in RequestState /\ WellFormed(rq[q])
      BY <1>1, <1>2, <2>2 DEF TypeInv
    <3>2. rq[q].o \in Orders /\ rq[q].key \in RefundKeys
      BY <1>4, <3>1 DEF WellFormed, ClaimedSteps, RefundSteps, RequestState
    <3> QED
      BY <1>4, <3>1, <3>2 DEF TypeInv, Claimed
  <2> QED
    BY <2>1, <2>2
<1> QED
  BY <1>1, <1>3, <1>4 DEF Claimed

\* Facts about the request of a worker that is not idle.
LEMMA RequestFacts ==
    ASSUME TypeInv, NEW p \in Workers, ~At(p, "idle")
    PROVE  /\ rq[p] \in RequestState /\ WellFormed(rq[p])
           /\ rq[p].o \in Orders
           /\ Row(p) \in OrderRow
BY DEF TypeInv, TypeOK, WellFormed, At, Row, RequestState

\* Where a handler goes after its last update.
LEMMA DoneType ==
    ASSUME TypeInv, NEW p \in Workers, ~At(p, "idle")
    PROVE  Done(p) \in RequestState /\ WellFormed(Done(p)) /\ Done(p).at \in {"idle", "complete"}
<1>1. CASE rq[p].evt = None
  BY <1>1, IdleType DEF Done, Idle
<1>2. CASE rq[p].evt # None
  <2>1. rq[p].o \in Orders /\ rq[p].evt \in Event
    BY <1>2, RequestFacts DEF RequestState
  <2>2. Done(p) = [Idle EXCEPT !.at = "complete", !.o = rq[p].o, !.evt = rq[p].evt]
    BY <1>2 DEF Done
  <2> QED
    BY <2>1, <2>2, IdleType
       DEF Idle, RequestState, WellFormed, Steps, RefundSteps, DisputeSteps
<1> QED
  BY <1>1, <1>2

\* Where a handler goes that has the listing to write next.
LEMMA ThenListType ==
    ASSUME TypeInv, NEW p \in Workers, ~At(p, "idle"),
           NEW to \in ListingStatus, NEW from \in ListingStatus \cup {None},
           NEW next \in {"idle", "checkout"}
    PROVE  LET r == ThenList(p, to, from, next)
           IN  r \in RequestState /\ WellFormed(r) /\ r.at = "list"
<1> DEFINE r == ThenList(p, to, from, next)
<1>1. rq[p].o \in Orders /\ rq[p].evt \in Event \cup {None}
  BY RequestFacts DEF RequestState
<1>2. r.at = "list" /\ r.o = rq[p].o /\ r.to = to
  BY DEF ThenList, Idle
<1>3. "list" \in Steps
  BY DEF Steps
<1>4. r \in RequestState
  BY <1>1, <1>3, IdleType DEF ThenList, Idle, RequestState
<1>5. WellFormed(r)
  BY <1>1, <1>2 DEF WellFormed, RefundSteps, DisputeSteps
<1> QED
  BY <1>2, <1>4, <1>5

\* An exception idles the worker; its event may come back.
LEMMA ThrowType ==
    ASSUME TypeInv, NEW p \in Workers, Throw(p)
    PROVE  rq' = [rq EXCEPT ![p] = Idle] /\ events' \subseteq Event
<1>1. rq[p] \in RequestState /\ events \subseteq Event
  BY DEF TypeInv, TypeOK
<1> QED
  BY <1>1 DEF Throw, Finish, RequestState

\* A step that moves one request and changes no other variable but the events.
LEMMA OnlyRequestMoves ==
    ASSUME TypeInv, NEW p \in Workers, NEW r \in RequestState, WellFormed(r),
           rq' = [rq EXCEPT ![p] = r],
           r.at \in ClaimedSteps => ledger[r.o][r.key] # None,
           UNCHANGED <<dbVars, providerVars>>, failures' \in 0 .. MaxFailures,
           events' \subseteq Event
    PROVE  TypeInv'
<1>1. ledger' = ledger
  BY DEF dbVars
<1>2. /\ rq' \in [Workers -> RequestState]
      /\ \A q \in Workers : WellFormed(rq'[q])
      /\ Claimed'
  BY <1>1, RequestMoves
<1> QED
  BY <1>2 DEF TypeInv, TypeOK, dbVars, providerVars

\* orderRepo.update with a row of the right type.
LEMMA UpdateOrderType ==
    ASSUME TypeInv, NEW p \in Workers, ~At(p, "idle"), NEW row \in OrderRow,
           NEW next \in RequestState, WellFormed(next), next.at \notin ClaimedSteps,
           UpdateOrder(p, row, next)
    PROVE  TypeInv'
<1>1. rq[p].o \in Orders
  BY RequestFacts
<1>2. CASE IndexAllows(rq[p].o, row.status)
  <2>1. /\ order' = [order EXCEPT ![rq[p].o] = row]
        /\ listing' = ListingAfter(rq[p].o, row.status)
        /\ rq' = [rq EXCEPT ![p] = next]
        /\ UNCHANGED <<ledger, providerVars, failures, events>>
    BY <1>2 DEF UpdateOrder
  <2>2. /\ rq' \in [Workers -> RequestState]
        /\ \A q \in Workers : WellFormed(rq'[q])
        /\ Claimed'
    BY <2>1, RequestMoves
  <2>3. listing' \in ListingStatus /\ order' \in [Orders -> OrderRow]
    BY <1>1, <2>1 DEF TypeInv, TypeOK, ListingAfter, ListingStatus
  <2> QED
    BY <2>1, <2>2, <2>3 DEF TypeInv, TypeOK, providerVars
<1>3. CASE ~IndexAllows(rq[p].o, row.status)
  <2>1. Throw(p) /\ UNCHANGED <<dbVars, providerVars, failures>>
    BY <1>3 DEF UpdateOrder, dbVars
  <2>2. failures' \in 0 .. MaxFailures
    BY <2>1 DEF TypeInv, TypeOK
  <2>3. Idle.at \notin ClaimedSteps
    BY DEF Idle, ClaimedSteps
  <2> QED
    BY <2>1, <2>2, <2>3, ThrowType, IdleType, OnlyRequestMoves
<1> QED
  BY <1>2, <1>3

-----------------------------------------------------------------------------
\* Starting a handler, and moving a request to a step that needs nothing more.
PlainSteps == Steps \ (RefundSteps \cup DisputeSteps \cup {"list", "list-write"})

\* A handler that starts holds its order and nothing else.
LEMMA BeginType ==
    ASSUME TypeInv, NEW p \in Workers, NEW o \in Orders, NEW step \in PlainSteps,
           Begin(p, step, o), UNCHANGED <<dbVars, providerVars, events, failures>>
    PROVE  TypeInv'
<1> DEFINE r == [Idle EXCEPT !.at = step, !.o = o]
<1>1. r \in RequestState
  BY IdleType DEF Idle, RequestState, PlainSteps
<1>2. r.at = step /\ r.o = o
  BY DEF Idle
<1>3. WellFormed(r) /\ r.at \notin ClaimedSteps
  BY <1>2 DEF WellFormed, PlainSteps, ClaimedSteps, RefundSteps, DisputeSteps
<1>4. events' \subseteq Event /\ failures' \in 0 .. MaxFailures
  BY DEF TypeInv, TypeOK
<1> QED
  BY <1>1, <1>3, <1>4, OnlyRequestMoves DEF Begin

\* A request that goes to a plain step is well-formed there.
LEMMA GotoType ==
    ASSUME TypeInv, NEW p \in Workers, ~At(p, "idle"), NEW step \in PlainSteps
    PROVE  LET r == [rq[p] EXCEPT !.at = step]
           IN  r \in RequestState /\ WellFormed(r) /\ r.at \notin ClaimedSteps
<1> DEFINE r == [rq[p] EXCEPT !.at = step]
<1>1. rq[p] \in RequestState /\ rq[p].o \in Orders
  BY RequestFacts
<1>2. r \in RequestState /\ r.at = step /\ r.o = rq[p].o
  BY <1>1 DEF RequestState, PlainSteps
<1> QED
  BY <1>1, <1>2 DEF WellFormed, PlainSteps, ClaimedSteps, RefundSteps, DisputeSteps

\* The steps that need nothing but the order.
LEMMA PlainStepsAre ==
    {"idle", "complete", "find", "insert", "checkout", "save-session", "expire", "cancel",
     "fund", "pend", "retrieve", "recheck", "ship", "issue", "release", "completed",
     "dispute", "refunded", "refund-failed"} \subseteq PlainSteps
BY DEF PlainSteps, Steps, RefundSteps, DisputeSteps

\* A step of a handler that reads, and then goes on or gives up.
LEMMA ReadType ==
    ASSUME TypeInv, NEW p \in Workers, ~At(p, "idle"),
           Finish(p) \/ \E step \in PlainSteps : Goto(p, step),
           UNCHANGED <<dbVars, providerVars, failures>>, events' \subseteq Event
    PROVE  TypeInv'
<1>1. failures' \in 0 .. MaxFailures
  BY DEF TypeInv, TypeOK
<1>2. CASE Finish(p)
  BY <1>1, <1>2, IdleType, OnlyRequestMoves DEF Finish, Idle, ClaimedSteps
<1>3. ASSUME NEW step \in PlainSteps, Goto(p, step) PROVE TypeInv'
  <2>1. rq' = [rq EXCEPT ![p] = [rq[p] EXCEPT !.at = step]]
    BY <1>3 DEF Goto
  <2> QED
    BY <1>1, <2>1, GotoType, OnlyRequestMoves
<1> QED
  BY <1>2, <1>3

\* The requests that come in.
LEMMA RequestType ==
    ASSUME TypeInv, NEW p \in Requests, NEW o \in Orders, Request(p, o)
    PROVE  TypeInv'
<1> USE DEF Free
<1>0. p \in Workers
  BY DEF Workers
<1>1. CASE BeginCheckout(p, o)
  BY <1>0, <1>1, BeginType, PlainStepsAre DEF BeginCheckout
<1>2. CASE CancelUnpaid(p, o)
  BY <1>0, <1>2, BeginType, PlainStepsAre DEF CancelUnpaid
<1>3. CASE MarkShipped(p, o)
  BY <1>0, <1>3, BeginType, PlainStepsAre DEF MarkShipped
<1>4. CASE IssueHandoverCode(p, o)
  BY <1>0, <1>4, BeginType, PlainStepsAre DEF IssueHandoverCode
<1>5. CASE OpenDispute(p, o)
  BY <1>0, <1>5, BeginType, PlainStepsAre DEF OpenDispute
<1>6. order[o] \in OrderRow /\ events \subseteq Event /\ failures \in 0 .. MaxFailures
  BY DEF TypeInv, TypeOK
<1>7. CASE Confirm(p, o)
  <2> DEFINE r == [Idle EXCEPT !.at = "release", !.o = o, !.row = order[o]]
  <2>1. "release" \in Steps
    BY DEF Steps
  <2>2. r \in RequestState
    BY <1>6, <2>1, IdleType DEF Idle, RequestState
  <2>3. r.at = "release" /\ r.o = o
    BY DEF Idle
  <2>4. WellFormed(r) /\ r.at \notin ClaimedSteps
    BY <2>3 DEF WellFormed, RefundSteps, DisputeSteps, ClaimedSteps
  <2> QED
    BY <1>0, <1>6, <1>7, <2>2, <2>4, OnlyRequestMoves DEF Confirm
<1>8. ASSUME NEW k \in RefundKeys, NEW base \in 1 .. ItemAmount, RefundOrder(p, o, k, base)
      PROVE  TypeInv'
  <2> DEFINE r == [Idle EXCEPT !.at = "quote", !.o = o, !.row = order[o],
                               !.key = k, !.amount = base]
  <2>1. "quote" \in Steps /\ base \in Nat /\ base > 0
    BY OrdersAssumption DEF Steps
  <2>2. r \in RequestState
    BY <1>6, <2>1, IdleType DEF Idle, RequestState
  <2>3. r.at = "quote" /\ r.o = o /\ r.key = k /\ r.amount = base
    BY DEF Idle
  <2>4. WellFormed(r) /\ r.at \notin ClaimedSteps
    BY <2>1, <2>3 DEF WellFormed, RefundSteps, DisputeSteps, ClaimedSteps
  <2> QED
    BY <1>0, <1>6, <1>8, <2>2, <2>4, OnlyRequestMoves DEF RefundOrder
<1> QED
  BY <1>1, <1>2, <1>3, <1>4, <1>5, <1>7, <1>8 DEF Request

\* The provider and the card network change no table and no request.
LEMMA ProviderType ==
    ASSUME TypeInv, NEW o \in Orders, Provider(o) PROVE TypeInv'
<1> DEFINE SessionStates == {"none", "open", "complete", "paid", "failed", "expired"}
<1> USE DEF TypeInv, TypeOK, dbVars
<1>1. ASSUME NEW from, NEW to \in SessionStates, NEW type \in {"paid", "unpaid", "expired"},
             SessionEnds(o, from, to, type)
      PROVE  TypeInv'
  <2>1. [type |-> type, o |-> o, key |-> None] \in Event
    BY DEF Event
  <2> QED
    BY <1>1, <2>1 DEF SessionEnds, Emit, Claimed
<1>2. CASE CustomerPays(o)
  BY <1>1, <1>2 DEF CustomerPays
<1>3. CASE SessionExpires(o)
  BY <1>1, <1>3 DEF SessionExpires
<1>4. CASE PaysLater(o)
  BY <1>1, <1>4 DEF PaysLater
<1>5. CASE AsyncSettles(o)
  BY <1>1, <1>5 DEF AsyncSettles
<1>6. CASE NetworkDisputes(o)
  <2>1. PICK move \in DisputeMoves :
          /\ dispute' = [dispute EXCEPT ![o] = move[2]]
          /\ Emit(move[2], o, None)
    BY <1>6 DEF NetworkDisputes
  <2>2. move[2] \in DisputeTypes
    BY DEF DisputeMoves, DisputeTypes
  <2>3. [type |-> move[2], o |-> o, key |-> None] \in Event
    BY <2>2 DEF Event
  <2> QED
    BY <1>6, <2>1, <2>2, <2>3 DEF NetworkDisputes, Emit, Claimed
<1>7. ASSUME NEW k \in RefundKeys, RefundSettles(o, k) PROVE TypeInv'
  <2>1. PICK s \in {"succeeded", "failed"} :
          /\ refunds' = [refunds EXCEPT ![o][k] = s]
          /\ Emit(IF s = "succeeded" THEN "refund_succeeded" ELSE "refund_failed", o, k)
    BY <1>7 DEF RefundSettles
  <2>2. \A t \in {"refund_succeeded", "refund_failed"} :
           [type |-> t, o |-> o, key |-> k] \in Event
    BY DEF Event
  <2>3. events' \subseteq Event
    BY <2>1, <2>2 DEF Emit
  <2>4. refunds' \in [Orders -> [RefundKeys -> {"none", "pending", "succeeded", "failed"}]]
    BY <2>1
  <2> QED
    BY <1>7, <2>3, <2>4 DEF RefundSettles, Claimed
<1> QED
  BY <1>2, <1>3, <1>4, <1>5, <1>6, <1>7 DEF Provider

\* A worker takes an event: a dispute step keeps its dispute event.
LEMMA TakeEventType ==
    ASSUME TypeInv, NEW p \in Requests, NEW e \in events, TakeEvent(p, e)
    PROVE  TypeInv'
<1>1. p \in Workers /\ e \in Event /\ events' \subseteq Event /\ failures' \in 0 .. MaxFailures
  BY DEF TypeInv, TypeOK, Workers, TakeEvent
<1>2. CASE Refused(e)
  <2>1. rq' = rq /\ UNCHANGED <<dbVars, providerVars>>
    BY <1>2 DEF TakeEvent
  <2> QED
    BY <1>1, <2>1 DEF TypeInv, TypeOK, Claimed, dbVars, providerVars
<1>3. CASE ~Refused(e)
  <2> DEFINE r == [Idle EXCEPT !.at = FirstStep(e), !.o = e.o, !.evt = e]
  <2>1. e.o \in Orders
    BY <1>1 DEF Event
  <2>2. /\ FirstStep(e) \in PlainSteps \cup {"recover", "chargeback"}
        /\ FirstStep(e) \in {"recover", "chargeback"} => e.type \in DisputeTypes
    BY <1>1, PlainStepsAre DEF FirstStep, EventStep, Event, DisputeTypes
  <2>3. FirstStep(e) \in Steps
    BY <2>2 DEF Steps, PlainSteps
  <2>4. r \in RequestState
    BY <1>1, <2>1, <2>3, IdleType DEF Idle, RequestState
  <2>5. r.at = FirstStep(e) /\ r.o = e.o /\ r.evt = e
    BY DEF Idle
  <2>6. WellFormed(r) /\ r.at \notin ClaimedSteps
    BY <1>1, <2>1, <2>2, <2>5
       DEF WellFormed, PlainSteps, RefundSteps, DisputeSteps, ClaimedSteps
  <2>7. rq' = [rq EXCEPT ![p] = r] /\ UNCHANGED <<dbVars, providerVars>>
    BY <1>3 DEF TakeEvent
  <2> QED
    BY <1>1, <2>4, <2>6, <2>7, OnlyRequestMoves
<1> QED
  BY <1>2, <1>3

\* The reconciliation job starts on an order.
LEMMA ReconcileType ==
    ASSUME TypeInv, NEW o \in Orders, ReconcileOrder(o) PROVE TypeInv'
<1>1. Reconciler \in Workers
  BY DEF Workers
<1> QED
  BY <1>1, BeginType, PlainStepsAre DEF ReconcileOrder

\* Any awaited call throws, or the process dies.
LEMMA FailType ==
    ASSUME TypeInv, NEW p \in Workers, Fail(p) PROVE TypeInv'
<1>1. failures' \in 0 .. MaxFailures
  BY OrdersAssumption DEF Fail, TypeInv, TypeOK
<1>2. Idle.at \notin ClaimedSteps
  BY DEF Idle, ClaimedSteps
<1> QED
  BY <1>1, <1>2, ThrowType, IdleType, OnlyRequestMoves DEF Fail

\* The updates of an order, and what they write.
LEMMA RowType ==
    ASSUME NEW row \in OrderRow
    PROVE  /\ [row EXCEPT !.session = TRUE] \in OrderRow
           /\ \A status \in OrderStatus :
                /\ [row EXCEPT !.status = status] \in OrderRow
                /\ [row EXCEPT !.status = status, !.paymentIntent = TRUE] \in OrderRow
                /\ [row EXCEPT !.status = status, !.transfer = "completed"] \in OrderRow
BY DEF OrderRow, TransferStatus

\* Every handler whose update writes a status, a payment or a transfer.
LEMMA WriteType ==
    ASSUME TypeInv, NEW p \in Workers,
           \/ SaveSession(p) \/ WriteCancelled(p) \/ Fund(p) \/ WritePaymentPending(p)
           \/ WriteRefundFailed(p) \/ WriteRefunded(p) \/ WriteShipped(p)
           \/ WritePinPending(p) \/ WriteDisputed(p) \/ WriteCompleted(p)
    PROVE  TypeInv'
<1>1. ~At(p, "idle")
  BY DEF At, SaveSession, WriteCancelled, Fund, WritePaymentPending, WriteRefundFailed,
         WriteRefunded, WriteShipped, WritePinPending, WriteDisputed, WriteCompleted
<1>2. Row(p) \in OrderRow
  BY <1>1, RequestFacts
<1>3. {"cancelled", "escrow_funded", "payment_pending", "disputed", "refunded", "shipped",
       "pin_pending", "completed"} \subseteq OrderStatus
  BY DEF OrderStatus, Active, Unpaid, Closed
<1>4. ASSUME NEW row \in OrderRow, UpdateOrder(p, row, Idle) PROVE TypeInv'
  BY <1>1, <1>4, UpdateOrderType, IdleType DEF Idle, ClaimedSteps
<1>5. ASSUME NEW row \in OrderRow, UpdateOrder(p, row, Done(p)) PROVE TypeInv'
  BY <1>1, <1>5, UpdateOrderType, DoneType DEF ClaimedSteps
<1>6. ASSUME NEW row \in OrderRow, NEW to \in ListingStatus,
             NEW from \in ListingStatus \cup {None},
             UpdateOrder(p, row, ThenList(p, to, from, "idle"))
      PROVE  TypeInv'
  BY <1>1, <1>6, UpdateOrderType, ThenListType DEF ClaimedSteps
<1>7. {"published", "reserved", "sold"} \subseteq ListingStatus
  BY DEF ListingStatus
<1>8. CASE SaveSession(p)
  BY <1>2, <1>4, <1>8, RowType DEF SaveSession
<1>9. CASE WriteCancelled(p)
  BY <1>2, <1>3, <1>6, <1>7, <1>9, RowType DEF WriteCancelled
<1>10. CASE Fund(p)
  BY <1>2, <1>3, <1>6, <1>7, <1>10, RowType DEF Fund
<1>11. CASE WritePaymentPending(p)
  BY <1>2, <1>3, <1>5, <1>11, RowType DEF WritePaymentPending
<1>12. CASE WriteRefundFailed(p)
  BY <1>2, <1>3, <1>5, <1>12, RowType DEF WriteRefundFailed
<1>13. CASE WriteRefunded(p)
  BY <1>2, <1>3, <1>6, <1>7, <1>13, RowType DEF WriteRefunded
<1>14. CASE WriteShipped(p)
  BY <1>2, <1>3, <1>4, <1>14, RowType DEF WriteShipped
<1>15. CASE WritePinPending(p)
  BY <1>2, <1>3, <1>4, <1>15, RowType DEF WritePinPending
<1>16. CASE WriteDisputed(p)
  BY <1>2, <1>3, <1>4, <1>16, RowType DEF WriteDisputed
<1>17. CASE WriteCompleted(p)
  BY <1>2, <1>3, <1>6, <1>7, <1>17, RowType DEF WriteCompleted
<1> QED
  BY <1>8, <1>9, <1>10, <1>11, <1>12, <1>13, <1>14, <1>15, <1>16, <1>17

\* Steps that read, or that write at the provider or the listing only.
LEMMA ListingStepType ==
    ASSUME TypeInv, NEW p \in Workers, FindListing(p) \/ WriteListing(p) PROVE TypeInv'
<1>1. ~At(p, "idle") /\ events' \subseteq Event /\ failures' \in 0 .. MaxFailures
  BY DEF FindListing, WriteListing, At, TypeInv, TypeOK
<1>2. rq[p] \in RequestState /\ rq[p].o \in Orders /\ rq[p].at \in {"list", "list-write"}
      /\ rq[p].to \in ListingStatus
  BY <1>1, RequestFacts DEF FindListing, WriteListing, At, WellFormed
<1>3. ASSUME Resume(p)
      PROVE  \E r \in RequestState :
               WellFormed(r) /\ r.at \notin ClaimedSteps /\ rq' = [rq EXCEPT ![p] = r]
  <2>1. CASE rq[p].next = "idle"
    BY <1>1, <1>3, <2>1, DoneType DEF Resume, ClaimedSteps
  <2>2. CASE rq[p].next # "idle"
    <3> DEFINE r == [Idle EXCEPT !.at = rq[p].next, !.o = rq[p].o]
    <3>1. rq[p].next = "checkout"
      BY <1>2, <2>2 DEF RequestState
    <3>2. r \in RequestState /\ r.at = "checkout" /\ r.o = rq[p].o
      BY <1>2, <3>1, IdleType DEF Idle, RequestState, Steps
    <3>3. WellFormed(r) /\ r.at \notin ClaimedSteps
      BY <1>2, <3>2 DEF WellFormed, RefundSteps, DisputeSteps, ClaimedSteps
    <3> QED
      BY <1>3, <2>2, <3>2, <3>3 DEF Resume
  <2> QED
    BY <2>1, <2>2
<1>4. ASSUME Goto(p, "list-write")
      PROVE  \E r \in RequestState :
               WellFormed(r) /\ r.at \notin ClaimedSteps /\ rq' = [rq EXCEPT ![p] = r]
  <2> DEFINE r == [rq[p] EXCEPT !.at = "list-write"]
  <2>1. r \in RequestState /\ r.at = "list-write" /\ r.o = rq[p].o /\ r.to = rq[p].to
    BY <1>2 DEF RequestState, Steps
  <2>2. WellFormed(r) /\ r.at \notin ClaimedSteps
    BY <1>2, <2>1 DEF WellFormed, RefundSteps, DisputeSteps, ClaimedSteps
  <2> QED
    BY <1>4, <2>1, <2>2 DEF Goto
<1>5. CASE FindListing(p)
  <2>1. PICK r \in RequestState :
          WellFormed(r) /\ r.at \notin ClaimedSteps /\ rq' = [rq EXCEPT ![p] = r]
    BY <1>3, <1>4, <1>5 DEF FindListing
  <2> QED
    BY <1>1, <1>5, <2>1, OnlyRequestMoves DEF FindListing
<1>6. CASE WriteListing(p)
  <2>1. PICK r \in RequestState :
          WellFormed(r) /\ r.at \notin ClaimedSteps /\ rq' = [rq EXCEPT ![p] = r]
    BY <1>3, <1>6 DEF WriteListing
  <2>2. UNCHANGED <<order, ledger, providerVars, events, failures>> /\ listing' \in ListingStatus
    BY <1>2, <1>6 DEF WriteListing
  <2>3. /\ rq' \in [Workers -> RequestState]
        /\ \A q \in Workers : WellFormed(rq'[q])
        /\ Claimed'
    BY <2>1, <2>2, RequestMoves
  <2> QED
    BY <2>2, <2>3 DEF TypeInv, TypeOK, providerVars
<1> QED
  BY <1>5, <1>6

\* Handlers at a step that only reads.
LEMMA ReadStepType ==
    ASSUME TypeInv, NEW p \in Workers,
           CompleteEvent(p) \/ FindCheckout(p) \/ RetrieveCheckout(p) \/ RecheckUnpaid(p)
    PROVE  TypeInv'
<1>1. ~At(p, "idle") /\ events' \subseteq Event
  BY DEF CompleteEvent, FindCheckout, RetrieveCheckout, RecheckUnpaid, At, TypeInv, TypeOK
<1>2. UNCHANGED <<dbVars, providerVars, failures>>
  BY DEF CompleteEvent, FindCheckout, RetrieveCheckout, RecheckUnpaid
<1>3. Finish(p) \/ \E step \in PlainSteps : Goto(p, step)
  BY PlainStepsAre DEF CompleteEvent, FindCheckout, RetrieveCheckout, RecheckUnpaid
<1> QED
  BY <1>1, <1>2, <1>3, ReadType

\* A new order, or a raced one, leaves tables of the right type.
LEMMA InsertType ==
    ASSUME TypeInv, NEW p \in Workers, InsertOrder(p) PROVE TypeInv'
<1>1. ~At(p, "idle")
  BY DEF InsertOrder, At
<1>2. rq[p].o \in Orders /\ Row(p) \in OrderRow
  BY <1>1, RequestFacts
<1>3. UNCHANGED <<ledger, providerVars, events, failures>>
  BY DEF InsertOrder
<1>4. listing' \in ListingStatus /\ order' \in [Orders -> OrderRow]
  <2>1. "initiated" \in OrderStatus /\ "reserved" \in ListingStatus
    BY DEF OrderStatus, Active, Unpaid, ListingStatus
  <2>2. [Row(p) EXCEPT !.status = "initiated"] \in OrderRow
    BY <1>2, <2>1, RowType
  <2>3. [order EXCEPT ![rq[p].o].status = "initiated"] \in [Orders -> OrderRow]
    BY <1>2, <2>2 DEF TypeInv, TypeOK, Row
  <2> QED
    BY <2>1, <2>3 DEF InsertOrder, TypeInv, TypeOK
<1>5. PICK r \in RequestState :
        WellFormed(r) /\ r.at \notin ClaimedSteps /\ rq' = [rq EXCEPT ![p] = r]
  <2>1. "reserved" \in ListingStatus
    BY DEF ListingStatus
  <2>2. Idle.at \notin ClaimedSteps
    BY DEF Idle, ClaimedSteps
  <2> QED
    BY <1>1, <2>1, <2>2, ThenListType, IdleType DEF InsertOrder, Finish, ClaimedSteps
<1>6. /\ rq' \in [Workers -> RequestState]
      /\ \A q \in Workers : WellFormed(rq'[q])
      /\ Claimed'
  BY <1>3, <1>5, RequestMoves
<1> QED
  BY <1>3, <1>4, <1>6 DEF TypeInv, TypeOK, providerVars

\* Where a request goes when it ends or needs nothing more; the ledger stays.
RequestsTyped ==
    rq \in [Workers -> RequestState] /\ (\A q \in Workers : WellFormed(rq[q])) /\ Claimed

\* A request that ends or goes to a plain step while the ledger stays.
LEMMA PlainMove ==
    ASSUME TypeInv, NEW p \in Workers, ~At(p, "idle"), ledger' = ledger,
           Finish(p) \/ \E step \in PlainSteps : Goto(p, step)
    PROVE  RequestsTyped'
<1>1. CASE Finish(p)
  BY <1>1, IdleType, RequestMoves DEF Finish, Idle, ClaimedSteps, RequestsTyped
<1>2. ASSUME NEW step \in PlainSteps, Goto(p, step) PROVE RequestsTyped'
  BY <1>2, GotoType, RequestMoves DEF Goto, RequestsTyped
<1> QED
  BY <1>1, <1>2

\* Moving a request to another step keeps the rest of what it holds.
LEMMA StepMove ==
    ASSUME TypeInv, NEW p \in Workers, ~At(p, "idle"), NEW step \in Steps, Goto(p, step),
           \A o \in Orders, k \in RefundKeys : ledger[o][k] # None => ledger'[o][k] # None,
           WellFormed([rq[p] EXCEPT !.at = step]),
           step \in ClaimedSteps => ledger'[rq[p].o][rq[p].key] # None
    PROVE  RequestsTyped'
<1> DEFINE r == [rq[p] EXCEPT !.at = step]
<1>1. r \in RequestState /\ r.at = step /\ r.o = rq[p].o /\ r.key = rq[p].key
  BY RequestFacts DEF RequestState
<1> QED
  BY <1>1, RequestMoves DEF Goto, RequestsTyped

\* Steps that act at the provider and then go on.
LEMMA ProviderStepType ==
    ASSUME TypeInv, NEW p \in Workers,
           OpenCheckout(p) \/ ExpireSession(p) \/ ReleaseSellerFunds(p) \/ RecoverSellerLeg(p)
    PROVE  TypeInv'
<1>1. ~At(p, "idle")
  BY DEF OpenCheckout, ExpireSession, ReleaseSellerFunds, RecoverSellerLeg, At
<1>2. rq[p].o \in Orders
  BY <1>1, RequestFacts
<1> USE DEF dbVars
<1>3. CASE OpenCheckout(p)
  <2>1. RequestsTyped'
    BY <1>1, <1>3, PlainMove, PlainStepsAre DEF OpenCheckout
  <2>2. session' \in [Orders -> {"none", "open", "complete", "paid", "failed", "expired"}]
    BY <1>3 DEF OpenCheckout, TypeInv, TypeOK
  <2> QED
    BY <1>3, <2>1, <2>2 DEF OpenCheckout, RequestsTyped, TypeInv, TypeOK
<1>4. CASE ExpireSession(p)
  <2>1. Finish(p) \/ Goto(p, "cancel")
    BY <1>4 DEF ExpireSession, Throw
  <2>2. RequestsTyped'
    BY <1>1, <1>4, <2>1, PlainMove, PlainStepsAre DEF ExpireSession
  <2>3. events' \subseteq Event
    <3>1. [type |-> "expired", o |-> rq[p].o, key |-> None] \in Event
      BY <1>2 DEF Event
    <3>2. CASE Throw(p)
      BY <3>2, ThrowType
    <3>3. CASE ~Throw(p)
      BY <1>4, <3>1, <3>3 DEF ExpireSession, TypeInv, TypeOK
    <3> QED
      BY <3>2, <3>3
  <2>4. session' \in [Orders -> {"none", "open", "complete", "paid", "failed", "expired"}]
    BY <1>4 DEF ExpireSession, TypeInv, TypeOK
  <2> QED
    BY <1>4, <2>2, <2>3, <2>4 DEF ExpireSession, RequestsTyped, TypeInv, TypeOK
<1>5. CASE ReleaseSellerFunds(p)
  <2>1. RequestsTyped'
    BY <1>1, <1>5, PlainMove, PlainStepsAre DEF ReleaseSellerFunds
  <2>2. transfers' \subseteq [o: Orders, key: Orders \cup Workers]
    BY <1>2, <1>5 DEF ReleaseSellerFunds, TransferKey, TypeInv, TypeOK
  <2> QED
    BY <1>5, <2>1, <2>2 DEF ReleaseSellerFunds, RequestsTyped, TypeInv, TypeOK
<1>6. CASE RecoverSellerLeg(p)
  <2>1. CASE MayReverse(rq[p].o, "chargeback", SellerAmount)
    <3>1. Goto(p, "recovered") /\ Reverse(rq[p].o, "chargeback", SellerAmount)
          /\ UNCHANGED <<dbVars, session, transfers, refunds, dispute, failures, events>>
      BY <1>6, <2>1 DEF RecoverSellerLeg
    <3>2. WellFormed([rq[p] EXCEPT !.at = "recovered"])
      <4>1. rq[p] \in RequestState /\ WellFormed(rq[p]) /\ rq[p].at = "recover"
        BY <1>1, <1>6, RequestFacts DEF RecoverSellerLeg, At
      <4> QED
        BY <4>1 DEF WellFormed, RequestState, RefundSteps, DisputeSteps
    <3>3. "recovered" \in Steps /\ "recovered" \notin ClaimedSteps
      BY DEF Steps, ClaimedSteps
    <3>4. RequestsTyped'
      BY <1>1, <3>1, <3>2, <3>3, StepMove
    <3>5. reversals' \in [Orders -> [ReversalKeys -> Nat]]
      BY <3>1, OrdersAssumption DEF Reverse, TypeInv, TypeOK, ReversalKeys
    <3> QED
      BY <3>1, <3>4, <3>5 DEF RequestsTyped, TypeInv, TypeOK
  <2>2. CASE ~MayReverse(rq[p].o, "chargeback", SellerAmount)
    <3>1. Throw(p) /\ UNCHANGED <<dbVars, providerVars, failures>>
      BY <1>6, <2>2 DEF RecoverSellerLeg, providerVars
    <3>2. Finish(p) /\ events' \subseteq Event
      BY <3>1, ThrowType DEF Throw
    <3> QED
      BY <1>1, <3>1, <3>2, ReadType
  <2> QED
    BY <2>1, <2>2
<1> QED
  BY <1>3, <1>4, <1>5, <1>6

\* The update of a dispute event writes a status and a dispute state of the table.
LEMMA ChargebackType ==
    ASSUME TypeInv, NEW p \in Workers, WriteChargeback(p) PROVE TypeInv'
<1>1. ~At(p, "idle")
  BY DEF WriteChargeback, At
<1>2. Row(p) \in OrderRow /\ rq[p].evt.type \in DisputeTypes
  BY <1>1, RequestFacts DEF WriteChargeback, WellFormed, DisputeSteps
<1> DEFINE type == rq[p].evt.type
           row == [Row(p) EXCEPT
                     !.status    = IF ChargebackStatus(type) \in {"won", "withdrawn"}
                                   THEN @ ELSE "disputed",
                     !.dispute   = ChargebackStatus(type),
                     !.disputeId = DisputeId(type),
                     !.transfer  = IF At(p, "recovered") THEN "reversed" ELSE @]
<1>3. row \in OrderRow
  <2>1. "disputed" \in OrderStatus /\ "reversed" \in TransferStatus
    BY DEF OrderStatus, Active, TransferStatus
  <2>2. DisputeId(type) \in {"none", "warning", "dispute"}
    BY DEF DisputeId
  <2>3. ChargebackStatus(type) \in {"none"} \cup ChargebackStatuses
    BY <1>2 DEF ChargebackStatus, DisputeTypes, ChargebackStatuses
  <2> QED
    BY <1>2, <2>1, <2>2, <2>3 DEF OrderRow
<1>4. UpdateOrder(p, row, Done(p))
  BY DEF WriteChargeback
<1> QED
  BY <1>1, <1>3, <1>4, UpdateOrderType, DoneType DEF ClaimedSteps

-----------------------------------------------------------------------------
(* The steps of refundOrder.                                               *)

\* The share of the transfer that stands for an item value is an amount.
LEMMA ProportionalType == ASSUME NEW base \in Nat PROVE Proportional(base) \in Int
<1>1. 2 * SellerAmount * base + ItemAmount \in Int /\ 2 * ItemAmount \in Nat \ {0}
  BY OrdersAssumption
<1>2. \A n \in Int, d \in Nat \ {0} : n \div d \in Int
  OBVIOUS
<1> QED
  BY <1>1, <1>2 DEF Proportional

\* The amount to reverse is an integer.
LEMMA ReversalDueType ==
    ASSUME TypeInv, NEW p \in Workers, rq[p].at \in RefundSteps
    PROVE  ReversalDue(p) \in Int
<1>1. rq[p] \in RequestState
  BY DEF TypeInv, TypeOK
<1>2. rq[p].row.refundedBase \in Nat /\ rq[p].amount \in Nat
  BY <1>1 DEF RequestState, OrderRow
<1>3. rq[p].row.refundedBase + rq[p].amount \in Nat
  BY <1>2
<1> QED
  BY <1>2, <1>3, ProportionalType, OrdersAssumption DEF ReversalDue

\* A quote that is not within the charge ends the request.
LEMMA QuoteType ==
    ASSUME TypeInv, NEW p \in Workers, QuoteRefund(p) PROVE TypeInv'
<1>1. rq[p].at = "quote"
  BY DEF QuoteRefund, At
<1>2. rq[p] \in RequestState /\ WellFormed(rq[p]) /\ rq[p].o \in Orders
  BY <1>1, RequestFacts DEF At
<1> DEFINE credit == IF IsFull(p) THEN TotalCharged - Credited(rq[p].o) ELSE rq[p].amount
           r == [rq[p] EXCEPT !.at = "claim", !.credit = credit]
<1>3. CASE credit \in 1 .. TotalCharged
  <2>1. credit \in Nat /\ credit > 0
    <3> HIDE DEF credit
    <3>1. TotalCharged \in Nat
      BY OrdersAssumption DEF TotalCharged
    <3> QED
      BY <1>3, <3>1
  <2>2. rq' = [rq EXCEPT ![p] = r]
    BY <1>3 DEF QuoteRefund
  <2> HIDE DEF credit
  <2>3. r \in RequestState /\ r.at = "claim" /\ r.credit = credit /\ r.o = rq[p].o
        /\ r.key = rq[p].key /\ r.amount = rq[p].amount
    BY <1>2, <2>1 DEF RequestState, Steps
  <2>4. WellFormed(r) /\ r.at \notin ClaimedSteps
    BY <1>1, <1>2, <2>1, <2>3 DEF WellFormed, RefundSteps, DisputeSteps, ClaimedSteps
  <2>5. UNCHANGED <<dbVars, providerVars>> /\ events' \subseteq Event /\ failures' \in 0 .. MaxFailures
    BY DEF QuoteRefund, TypeInv, TypeOK
  <2> QED
    BY <2>2, <2>3, <2>4, <2>5, OnlyRequestMoves
<1>4. CASE credit \notin 1 .. TotalCharged
  <2>1. Finish(p)
    BY <1>4 DEF QuoteRefund, Finish
  <2>2. UNCHANGED <<dbVars, providerVars, failures>> /\ events' \subseteq Event /\ ~At(p, "idle")
    BY DEF QuoteRefund, TypeInv, TypeOK, At
  <2> QED
    BY <2>1, <2>2, ReadType
<1> QED
  BY <1>3, <1>4

\* The row claimed in the ledger has a positive amount.
LEMMA ClaimType ==
    ASSUME TypeInv, NEW p \in Workers, ClaimRefund(p) PROVE TypeInv'
<1>1. rq[p].at = "claim"
  BY DEF ClaimRefund, At
<1>2. rq[p] \in RequestState /\ WellFormed(rq[p]) /\ rq[p].o \in Orders /\ ~At(p, "idle")
  BY <1>1, RequestFacts DEF At
<1> DEFINE o == rq[p].o
           k == rq[p].key
           entry == [base |-> rq[p].amount, credited |-> rq[p].credit,
                     full |-> IsFull(p), status |-> "pending"]
<1>3. k \in RefundKeys /\ rq[p].amount \in Nat \ {0} /\ rq[p].credit \in Nat \ {0}
  BY <1>1, <1>2 DEF WellFormed, RefundSteps, RequestState
<1>4. entry \in LedgerRow /\ entry # None
  <2>1. IsFull(p) \in BOOLEAN
    BY DEF IsFull
  <2>2. entry \in LedgerRow
    BY <1>3, <2>1 DEF LedgerRow
  <2> QED
    BY <2>2, RowAssumption
<1>5. CASE ledger[o][k] # None
  <2>1. Finish(p) /\ UNCHANGED <<dbVars, providerVars, failures>> /\ events' \subseteq Event
    BY <1>5 DEF ClaimRefund, dbVars, TypeInv, TypeOK
  <2> QED
    BY <1>2, <2>1, ReadType
<1>6. CASE ledger[o][k] = None
  <2>1. /\ ledger' = [ledger EXCEPT ![o][k] = entry]
        /\ IF rq[p].row.paymentIntent THEN Goto(p, "reverse") ELSE Finish(p)
        /\ UNCHANGED <<listing, order, providerVars, events, failures>>
    BY <1>6 DEF ClaimRefund
  <2> HIDE DEF entry
  <2>2. ledger' \in [Orders -> [RefundKeys -> LedgerRow \cup {None}]]
    BY <1>2, <1>3, <1>4, <2>1 DEF TypeInv, TypeOK
  <2>3. \A oo \in Orders, kk \in RefundKeys : ledger[oo][kk] # None => ledger'[oo][kk] # None
    BY <1>2, <1>3, <1>4, <2>1 DEF TypeInv, TypeOK
  <2>4. ledger'[o][k] # None
    BY <1>2, <1>3, <1>4, <2>1 DEF TypeInv, TypeOK
  <2>5. CASE Goto(p, "reverse")
    <3>1. WellFormed([rq[p] EXCEPT !.at = "reverse"]) /\ "reverse" \in Steps
      BY <1>1, <1>2 DEF WellFormed, RequestState, RefundSteps, DisputeSteps, Steps
    <3>2. RequestsTyped'
      BY <1>2, <2>3, <2>4, <2>5, <3>1, StepMove
    <3> QED
      BY <2>1, <2>2, <3>2 DEF RequestsTyped, TypeInv, TypeOK, providerVars
  <2>6. CASE Finish(p)
    <3>1. RequestsTyped'
      BY <2>3, <2>6, IdleType, RequestMoves DEF Finish, Idle, ClaimedSteps, RequestsTyped
    <3> QED
      BY <2>1, <2>2, <3>1 DEF RequestsTyped, TypeInv, TypeOK, providerVars
  <2> QED
    BY <2>1, <2>5, <2>6
<1> QED
  BY <1>5, <1>6

\* A reversal is made of a positive amount only.
LEMMA ReverseType ==
    ASSUME TypeInv, NEW p \in Workers, ReverseTransfer(p) PROVE TypeInv'
<1>1. rq[p].at = "reverse" /\ rq[p].at \in RefundSteps /\ rq[p].at \in ClaimedSteps
  BY DEF ReverseTransfer, At, RefundSteps, ClaimedSteps
<1>2. rq[p] \in RequestState /\ WellFormed(rq[p]) /\ rq[p].o \in Orders /\ ~At(p, "idle")
  BY <1>1, RequestFacts DEF At
<1>3. rq[p].key \in RefundKeys /\ ledger[rq[p].o][rq[p].key] # None
  BY <1>1, <1>2 DEF WellFormed, TypeInv, Claimed
<1>4. ASSUME Goto(p, "refund"), UNCHANGED ledger PROVE RequestsTyped'
  <2>1. WellFormed([rq[p] EXCEPT !.at = "refund"]) /\ "refund" \in Steps
    BY <1>1, <1>2 DEF WellFormed, RequestState, RefundSteps, DisputeSteps, Steps
  <2> QED
    BY <1>2, <1>3, <1>4, <2>1, StepMove
<1>5. CASE ReversalDue(p) <= 0
  <2>1. Goto(p, "refund") /\ UNCHANGED <<dbVars, reversals, events, session, transfers,
                                          refunds, dispute, failures>>
    BY <1>5 DEF ReverseTransfer
  <2> QED
    BY <1>4, <2>1 DEF RequestsTyped, TypeInv, TypeOK, dbVars
<1>6. CASE ~(ReversalDue(p) <= 0) /\ MayReverse(rq[p].o, rq[p].key, ReversalDue(p))
  <2>1. Goto(p, "refund") /\ Reverse(rq[p].o, rq[p].key, ReversalDue(p))
        /\ UNCHANGED <<dbVars, events, session, transfers, refunds, dispute, failures>>
    BY <1>6 DEF ReverseTransfer
  <2>2. ReversalDue(p) \in Nat
    BY <1>1, <1>6, ReversalDueType
  <2>3. reversals' \in [Orders -> [ReversalKeys -> Nat]]
    BY <1>2, <1>3, <2>1, <2>2 DEF Reverse, TypeInv, TypeOK, ReversalKeys
  <2> QED
    BY <1>4, <2>1, <2>3 DEF RequestsTyped, TypeInv, TypeOK, dbVars
<1>7. CASE ~(ReversalDue(p) <= 0) /\ ~MayReverse(rq[p].o, rq[p].key, ReversalDue(p))
  <2>1. Throw(p) /\ UNCHANGED <<dbVars, providerVars, failures>>
    BY <1>7 DEF ReverseTransfer, providerVars
  <2>2. Finish(p) /\ events' \subseteq Event
    BY <2>1, ThrowType DEF Throw
  <2> QED
    BY <1>2, <2>1, <2>2, ReadType
<1> QED
  BY <1>5, <1>6, <1>7

\* The refund made is the one the request waits to record.
LEMMA CreateType ==
    ASSUME TypeInv, NEW p \in Workers, CreateRefund(p) PROVE TypeInv'
<1>1. rq[p].at = "refund" /\ rq[p].at \in ClaimedSteps
  BY DEF CreateRefund, At, ClaimedSteps
<1>2. rq[p] \in RequestState /\ WellFormed(rq[p]) /\ rq[p].o \in Orders /\ ~At(p, "idle")
  BY <1>1, RequestFacts DEF At
<1>3. rq[p].key \in RefundKeys /\ ledger[rq[p].o][rq[p].key] # None
  BY <1>1, <1>2 DEF WellFormed, RefundSteps, TypeInv, Claimed
<1>4. UNCHANGED <<dbVars, session, transfers, reversals, dispute, events, failures>>
  BY DEF CreateRefund
<1>5. CASE Finish(p) /\ UNCHANGED refunds
  <2>1. UNCHANGED <<dbVars, providerVars, failures>> /\ events' \subseteq Event
    BY <1>4, <1>5 DEF providerVars, TypeInv, TypeOK
  <2> QED
    BY <1>2, <1>5, <2>1, ReadType
<1>6. ASSUME NEW s \in {"pending", "succeeded"},
             refunds' = [refunds EXCEPT ![rq[p].o][rq[p].key] = s],
             rq' = [rq EXCEPT ![p].at = "ledger", ![p].outcome = s]
      PROVE  TypeInv'
  <2> DEFINE r == [rq[p] EXCEPT !.at = "ledger", !.outcome = s]
  <2>1. rq' = [rq EXCEPT ![p] = r]
    BY <1>6 DEF TypeInv, TypeOK
  <2>2. r \in RequestState /\ r.at = "ledger" /\ r.outcome = s /\ r.o = rq[p].o
        /\ r.key = rq[p].key /\ r.amount = rq[p].amount /\ r.credit = rq[p].credit
    BY <1>2 DEF RequestState, Steps
  <2>3. WellFormed(r)
    BY <1>1, <1>2, <2>2 DEF WellFormed, RefundSteps, DisputeSteps
  <2>4. RequestsTyped'
    BY <1>3, <1>4, <2>1, <2>2, <2>3, RequestMoves DEF RequestsTyped, dbVars
  <2>5. refunds' \in [Orders -> [RefundKeys -> {"none", "pending", "succeeded", "failed"}]]
    BY <1>6 DEF TypeInv, TypeOK
  <2> QED
    BY <1>4, <2>4, <2>5 DEF RequestsTyped, TypeInv, TypeOK, dbVars
<1> QED
  BY <1>5, <1>6 DEF CreateRefund

\* The row of the ledger that is updated is there and stays there.
LEMMA UpdateRefundType ==
    ASSUME TypeInv, NEW p \in Workers, UpdateRefund(p) PROVE TypeInv'
<1>1. rq[p].at = "ledger" /\ rq[p].at \in ClaimedSteps
  BY DEF UpdateRefund, At, ClaimedSteps
<1>2. rq[p] \in RequestState /\ WellFormed(rq[p]) /\ rq[p].o \in Orders /\ ~At(p, "idle")
  BY <1>1, RequestFacts DEF At
<1> DEFINE o == rq[p].o
           k == rq[p].key
           entry == [ledger[o][k] EXCEPT !.status = rq[p].outcome]
<1>3. k \in RefundKeys /\ ledger[o][k] # None /\ rq[p].outcome \in {"pending", "succeeded"}
  BY <1>1, <1>2 DEF WellFormed, RefundSteps, TypeInv, Claimed
<1>4. ledger[o][k] \in LedgerRow
  BY <1>2, <1>3 DEF TypeInv, TypeOK
<1>5. entry \in LedgerRow
  BY <1>3, <1>4 DEF LedgerRow
<1>6. entry # None
  BY <1>5, RowAssumption
<1>7. ledger' = [ledger EXCEPT ![o][k] = entry]
  BY <1>2, <1>3 DEF UpdateRefund, TypeInv, TypeOK
<1> HIDE DEF entry
<1>8. /\ ledger' \in [Orders -> [RefundKeys -> LedgerRow \cup {None}]]
      /\ \A oo \in Orders, kk \in RefundKeys : ledger[oo][kk] # None => ledger'[oo][kk] # None
  BY <1>2, <1>3, <1>5, <1>6, <1>7 DEF TypeInv, TypeOK
<1>9. WellFormed([rq[p] EXCEPT !.at = "record"]) /\ "record" \in Steps
      /\ "record" \notin ClaimedSteps
  BY <1>1, <1>2 DEF WellFormed, RequestState, RefundSteps, DisputeSteps, Steps, ClaimedSteps
<1>10. RequestsTyped'
  BY <1>2, <1>8, <1>9, StepMove DEF UpdateRefund
<1> QED
  BY <1>8, <1>10 DEF UpdateRefund, RequestsTyped, TypeInv, TypeOK, providerVars

\* The running total is an amount, and the transfer has a state of the table.
LEMMA RecordType ==
    ASSUME TypeInv, NEW p \in Workers, RecordRefund(p) PROVE TypeInv'
<1>1. rq[p].at = "record"
  BY DEF RecordRefund, At
<1>2. rq[p] \in RequestState /\ WellFormed(rq[p]) /\ rq[p].o \in Orders /\ ~At(p, "idle")
      /\ Row(p) \in OrderRow
  BY <1>1, RequestFacts DEF At
<1>3. rq[p].key \in RefundKeys /\ rq[p].row.refundedBase + rq[p].amount \in Nat
  BY <1>1, <1>2 DEF WellFormed, RefundSteps, RequestState, OrderRow
<1> DEFINE status == IF IsFull(p) THEN "refund_pending" ELSE Row(p).status
           transfer == IF ReversalDue(p) <= 0 THEN Row(p).transfer
                       ELSE IF IsFull(p) \/ Proportional(rq[p].row.refundedBase
                                                         + rq[p].amount) >= SellerAmount
                       THEN "reversed" ELSE "partially_reversed"
           row == [Row(p) EXCEPT !.status = status, !.refundKey = rq[p].key,
                       !.refundedBase = rq[p].row.refundedBase + rq[p].amount,
                       !.transfer = transfer]
           next == IF IsFull(p) /\ rq[p].outcome = "succeeded"
                   THEN [Idle EXCEPT !.at = "refunded", !.o = rq[p].o] ELSE Idle
<1>4. status \in OrderStatus
  BY <1>2 DEF OrderRow, OrderStatus, Active
<1>5. transfer \in TransferStatus
  BY <1>2 DEF OrderRow, TransferStatus
<1>6. UpdateOrder(p, row, next)
  BY DEF RecordRefund
<1>7. row \in OrderRow
  <2> HIDE DEF status, transfer
  <2> QED
    BY <1>2, <1>3, <1>4, <1>5 DEF OrderRow
<1>8. next \in RequestState /\ WellFormed(next) /\ next.at \notin ClaimedSteps
  <2> DEFINE r == [Idle EXCEPT !.at = "refunded", !.o = rq[p].o]
  <2>0. "refunded" \in Steps
    BY DEF Steps
  <2>1. r \in RequestState /\ r.at = "refunded" /\ r.o = rq[p].o
    BY <1>2, <2>0, IdleType DEF Idle, RequestState
  <2>2. WellFormed(r)
    BY <1>2, <2>1 DEF WellFormed, RefundSteps, DisputeSteps
  <2>3. r.at \notin ClaimedSteps /\ Idle.at \notin ClaimedSteps
    BY <2>1 DEF Idle, ClaimedSteps
  <2> QED
    BY <2>1, <2>2, <2>3, IdleType
<1> HIDE DEF row, next
<1> QED
  BY <1>2, <1>6, <1>7, <1>8, UpdateOrderType

-----------------------------------------------------------------------------
\* Every step of the system preserves the types and what requests rely on.
LEMMA TypeInvInductive == TypeInv /\ [Next]_vars => TypeInv'
<1> SUFFICES ASSUME TypeInv, [Next]_vars PROVE TypeInv'
  OBVIOUS
<1>1. ASSUME NEW p \in Workers, Step(p) PROVE TypeInv'
  BY <1>1, ListingStepType, ReadStepType, InsertType, ProviderStepType, WriteType,
     ChargebackType, QuoteType, ClaimType, ReverseType, CreateType, UpdateRefundType,
     RecordType DEF Step
<1>2. CASE UNCHANGED vars
  BY <1>2 DEF vars, TypeInv, TypeOK, Claimed
<1> QED
  BY <1>1, <1>2, FailType, TakeEventType, ProviderType, ReconcileType, RequestType DEF Next

\* At the start every worker is idle and every table is empty.
LEMMA TypeInvInitially == Init => TypeInv
<1> SUFFICES ASSUME Init PROVE TypeInv
  OBVIOUS
<1>1. \A p \in Workers : rq[p] = Idle
  BY DEF Init
<1>2. Idle.at \notin ClaimedSteps
  BY DEF Idle, ClaimedSteps
<1>3. rq \in [Workers -> RequestState] /\ (\A p \in Workers : WellFormed(rq[p])) /\ Claimed
  BY <1>1, <1>2, IdleType DEF Init, Claimed
<1>4. order \in [Orders -> OrderRow]
  BY IdleType DEF Init
<1> QED
  BY <1>3, <1>4, OrdersAssumption DEF Init, TypeInv, TypeOK, ListingStatus

\* The tables, the provider's objects and the requests keep their type, however
\* many orders, requests and refunds there are.
THEOREM TypeCorrect == Spec => []TypeOK
<1>1. TypeInv => TypeOK
  BY DEF TypeInv
<1> QED
  BY <1>1, TypeInvInitially, TypeInvInductive, PTL DEF Spec

-----------------------------------------------------------------------------
(* Sums over finite sets.  SumFunction folds a function in the order in      *)
(* which CHOOSE picks the elements; its partial sums do not depend on it.    *)
(* There is no induction theorem over sets the provers can apply: each lemma *)
(* takes a smallest set where its claim would fail.                          *)

Pick(s) == CHOOSE x \in s : TRUE

\* The partial sums of f over the subsets of S, as the fold of Folds defines them.
IsSum(f, S, g) ==
    g = [s \in SUBSET S |-> IF s = {} THEN 0 ELSE f[Pick(s)] + g[s \ {Pick(s)}]]

\* A set of subsets of a finite set has a smallest member.
LEMMA SmallestSet ==
    ASSUME NEW S, IsFiniteSet(S), NEW T, T \subseteq SUBSET S, T # {}
    PROVE  \E x \in T : \A y \in T : y \subseteq x => y = x
<1>1. IsWellFoundedOn(StrictSubsetOrdering(S), SUBSET S)
  BY FS_StrictSubsetOrderingWellFounded, FS_FiniteSubsetsOfFinite
<1>2. PICK x \in T : \A y \in T : <<y, x>> \notin StrictSubsetOrdering(S)
  BY <1>1, WFMin
<1>3. ASSUME NEW y \in T, y \subseteq x, y # x PROVE FALSE
  <2>1. <<y, x>> \in (SUBSET S) \X (SUBSET S)
    OBVIOUS
  <2>2. <<y, x>> \in StrictSubsetOrdering(S)
    BY <1>3, <2>1 DEF StrictSubsetOrdering
  <2> QED
    BY <1>2, <2>2
<1> QED
  BY <1>3

\* A nonempty set has the element picked.
LEMMA Picked == ASSUME NEW s, s # {} PROVE Pick(s) \in s
BY DEF Pick

\* Two functions that agree on S have the same partial sums over it.
LEMMA SameSums ==
    ASSUME NEW S, IsFiniteSet(S), NEW f, NEW h, NEW A, NEW B, S \subseteq A, S \subseteq B,
           \A x \in S : f[x] = h[x],
           NEW g, IsSum(f, A, g), NEW i, IsSum(h, B, i)
    PROVE  g[S] = i[S]
<1> DEFINE Bad == {s \in SUBSET S : g[s] # i[s]}
<1>9. Bad \subseteq SUBSET S
  OBVIOUS
<1>1. ASSUME Bad # {} PROVE FALSE
  <2> HIDE DEF Bad
  <2>1. PICK s \in Bad : \A t \in Bad : t \subseteq s => t = s
    BY <1>1, <1>9, SmallestSet
  <2> USE DEF Bad
  <2>2. s \in SUBSET A /\ s \in SUBSET B /\ s \in SUBSET S
    OBVIOUS
  <2>3. /\ g[s] = IF s = {} THEN 0 ELSE f[Pick(s)] + g[s \ {Pick(s)}]
        /\ i[s] = IF s = {} THEN 0 ELSE h[Pick(s)] + i[s \ {Pick(s)}]
    BY <2>2 DEF IsSum
  <2>4. s # {} /\ Pick(s) \in S /\ Pick(s) \in s
    BY <2>2, <2>3, Picked
  <2>5. s \ {Pick(s)} \notin Bad
    BY <2>1, <2>4
  <2>6. g[s \ {Pick(s)}] = i[s \ {Pick(s)}]
    BY <2>2, <2>5
  <2> QED
    BY <2>3, <2>4, <2>6
<1> QED
  BY <1>1

\* The recursive definition of the fold has a solution over a finite set.
LEMMA SumsExist ==
    ASSUME NEW S, IsFiniteSet(S), NEW f PROVE \E g : IsSum(f, S, g)
<1> DEFINE Bad == {s \in SUBSET S : ~ \E g : IsSum(f, s, g)}
           sums(s) == CHOOSE g : IsSum(f, s, g)
<1>9. Bad \subseteq SUBSET S
  OBVIOUS
<1>1. ASSUME Bad # {} PROVE FALSE
  <2> HIDE DEF Bad
  <2>1. PICK s \in Bad : \A t \in Bad : t \subseteq s => t = s
    BY <1>1, <1>9, SmallestSet
  <2> USE DEF Bad
  <2> DEFINE h == [t \in SUBSET s |-> IF t = {} THEN 0
                     ELSE f[Pick(t)] + sums(t \ {Pick(t)})[t \ {Pick(t)}]]
  <2>2. ASSUME NEW t \in SUBSET s, t # s PROVE IsSum(f, t, sums(t))
    <3>1. t \notin Bad
      BY <2>1, <2>2
    <3> QED
      BY <3>1
  <2>3. ASSUME NEW t \in SUBSET s, t # s PROVE h[t] = sums(t)[t]
    <3> DEFINE x == Pick(t)
    <3>1. IsSum(f, t, sums(t))
      BY <2>2, <2>3
    <3> HIDE DEF sums
    <3>2. CASE t = {}
      BY <3>1, <3>2 DEF IsSum
    <3>3. CASE t # {}
      <4>1. x \in t
        BY <3>3, Picked
      <4>2. t \ {x} \in SUBSET s /\ t \ {x} # s /\ IsFiniteSet(t \ {x})
        BY <2>3, <4>1, FS_Subset
      <4>3. IsSum(f, t \ {x}, sums(t \ {x}))
        BY <2>2, <4>2
      <4>4. sums(t \ {x})[t \ {x}] = sums(t)[t \ {x}]
        BY <3>1, <4>2, <4>3, SameSums
      <4>5. sums(t)[t] = f[x] + sums(t)[t \ {x}]
        BY <3>1, <3>3 DEF IsSum
      <4> QED
        BY <3>3, <4>4, <4>5
    <3> QED
      BY <3>2, <3>3
  <2> HIDE DEF sums
  <2>4. \A t \in SUBSET s : t # {} => h[t \ {Pick(t)}] = sums(t \ {Pick(t)})[t \ {Pick(t)}]
    <3> SUFFICES ASSUME NEW t \in SUBSET s, t # {}
                 PROVE  h[t \ {Pick(t)}] = sums(t \ {Pick(t)})[t \ {Pick(t)}]
      OBVIOUS
    <3>1. t \ {Pick(t)} \in SUBSET s /\ t \ {Pick(t)} # s
      BY Picked
    <3> HIDE DEF h
    <3> QED
      BY <2>3, <3>1
  <2>5. IsSum(f, s, h)
    BY <2>4 DEF IsSum
  <2> QED
    BY <2>5
<1> QED
  BY <1>1, FS_Subset

\* SumFunction is the last of those partial sums.
LEMMA SumIs ==
    ASSUME NEW S, IsFiniteSet(S), NEW f, DOMAIN f = S
    PROVE  \E g : IsSum(f, S, g) /\ SumFunction(f) = g[S]
<1> DEFINE g == CHOOSE i : IsSum(f, S, i)
<1>1. IsSum(f, S, g)
  BY SumsExist
<1>2. SumFunction(f) = g[S]
  BY DEF SumFunction, SumFunctionOnSet, FoldFunctionOnSet, MapThenFoldSet, Pick, IsSum
<1> QED
  BY <1>1, <1>2

\* A sum is a number and counts every element once, in whatever order.
LEMMA PartialSums ==
    ASSUME NEW S, IsFiniteSet(S), NEW f \in [S -> Int], NEW g, IsSum(f, S, g),
           NEW U \in SUBSET S
    PROVE  /\ g[U] \in Int
           /\ U = {} => g[U] = 0
           /\ \A x \in U : g[U] = f[x] + g[U \ {x}]
<1> DEFINE Good(s) == g[s] \in Int /\ \A x \in s : g[s] = f[x] + g[s \ {x}]
           Bad == {s \in SUBSET S : ~Good(s)}
<1>0. g[{}] = 0 /\ \A s \in SUBSET S : s # {} => g[s] = f[Pick(s)] + g[s \ {Pick(s)}]
  BY DEF IsSum
<1>9. Bad \subseteq SUBSET S
  OBVIOUS
<1>1. ASSUME Bad # {} PROVE FALSE
  <2> HIDE DEF Bad
  <2>1. PICK s \in Bad : \A t \in Bad : t \subseteq s => t = s
    BY <1>1, <1>9, SmallestSet
  <2> USE DEF Bad
  <2>2. \A t \in SUBSET s : t # s => Good(t)
    BY <2>1
  <2>3. s # {}
    <3>1. s = {} => Good(s)
      BY <1>0
    <3> QED
      BY <2>1, <3>1
  <2> DEFINE y == Pick(s)
  <2>4. y \in s /\ f[y] \in Int /\ g[s] = f[y] + g[s \ {y}] /\ Good(s \ {y})
    BY <1>0, <2>2, <2>3, Picked
  <2> HIDE DEF y
  <2>5. ASSUME NEW x \in s, x # y PROVE g[s] = f[x] + g[s \ {x}]
    <3>1. g[s \ {y}] = f[x] + g[(s \ {y}) \ {x}]
      BY <2>4, <2>5
    <3>2. Good(s \ {x})
      BY <2>2, <2>5
    <3>3. g[s \ {x}] = f[y] + g[(s \ {x}) \ {y}]
      BY <2>4, <2>5, <3>2
    <3>4. (s \ {x}) \ {y} = (s \ {y}) \ {x}
      OBVIOUS
    <3>5. /\ g[(s \ {y}) \ {x}] \in Int /\ f[x] \in Int /\ f[y] \in Int
          /\ g[s] = f[y] + g[s \ {y}]
      <4>1. Good((s \ {y}) \ {x})
        BY <2>2, <2>4, <2>5
      <4> QED
        BY <2>4, <4>1
    <3> DEFINE rest == g[(s \ {y}) \ {x}]
    <3>6. /\ g[s \ {y}] = f[x] + rest /\ g[s \ {x}] = f[y] + rest
          /\ rest \in Int /\ f[x] \in Int /\ f[y] \in Int
      BY <3>1, <3>3, <3>4, <3>5
    <3> HIDE DEF rest, Good, Bad
    <3>7. g[s] = f[y] + (f[x] + rest) /\ f[x] + g[s \ {x}] = f[x] + (f[y] + rest)
      BY <3>5, <3>6
    <3> QED
      BY <3>6, <3>7
  <2>6. Good(s)
    <3>1. g[s] = f[y] + g[s \ {y}] /\ f[y] \in Int /\ g[s \ {y}] \in Int
      BY <2>4
    <3>2. g[s] \in Int
      BY <3>1
    <3> QED
      BY <2>4, <2>5, <3>2
  <2> QED
    BY <2>6
<1> QED
  BY <1>0, <1>1

\* A sum of natural numbers is one, is at least each of them, and is zero when
\* they all are.
LEMMA SumNat ==
    ASSUME NEW S, IsFiniteSet(S), NEW f \in [S -> Nat]
    PROVE  /\ SumFunction(f) \in Nat
           /\ \A x \in S : f[x] <= SumFunction(f)
           /\ (\A x \in S : f[x] = 0) => SumFunction(f) = 0
<1>1. PICK g : IsSum(f, S, g) /\ SumFunction(f) = g[S]
  BY SumIs
<1>2. ASSUME NEW U \in SUBSET S
      PROVE  g[U] \in Int /\ (U = {} => g[U] = 0) /\ \A x \in U : g[U] = f[x] + g[U \ {x}]
  <2>1. f \in [S -> Int]
    OBVIOUS
  <2> QED
    BY <1>1, <2>1, PartialSums
<1> DEFINE zero == \A x \in S : f[x] = 0
           Bad == {s \in SUBSET S : ~(g[s] \in Nat /\ (zero => g[s] = 0))}
<1>9. Bad \subseteq SUBSET S
  OBVIOUS
<1>3. ASSUME Bad # {} PROVE FALSE
  <2> HIDE DEF Bad
  <2>1. PICK s \in Bad : \A t \in Bad : t \subseteq s => t = s
    BY <1>3, <1>9, SmallestSet
  <2> USE DEF Bad
  <2>2. s # {}
    BY <1>2
  <2>3. PICK x \in s : TRUE
    BY <2>2
  <2>4. g[s] = f[x] + g[s \ {x}] /\ f[x] \in Nat
    BY <1>2
  <2>5. s \ {x} \notin Bad
    BY <2>1
  <2> QED
    BY <2>4, <2>5
<1>4. \A s \in SUBSET S : g[s] \in Nat
  BY <1>3
<1>5. ASSUME NEW x \in S PROVE f[x] <= g[S]
  <2>1. g[S] = f[x] + g[S \ {x}] /\ g[S \ {x}] \in Nat /\ f[x] \in Nat
    BY <1>2, <1>4
  <2> QED
    BY <2>1
<1>6. zero => g[S] = 0
  BY <1>3
<1> QED
  BY <1>1, <1>4, <1>5, <1>6

\* Changing the value at one element changes the sum by as much.
LEMMA SumUpdate ==
    ASSUME NEW S, IsFiniteSet(S), NEW f \in [S -> Nat], NEW h \in [S -> Nat], NEW x \in S,
           \A y \in S \ {x} : h[y] = f[y]
    PROVE  SumFunction(h) = SumFunction(f) - f[x] + h[x]
<1>1. PICK g : IsSum(f, S, g) /\ SumFunction(f) = g[S]
  BY SumIs
<1>2. PICK i : IsSum(h, S, i) /\ SumFunction(h) = i[S]
  BY SumIs
<1>3. f \in [S -> Int] /\ h \in [S -> Int] /\ IsFiniteSet(S \ {x})
  BY FS_Subset
<1>4. g[S] = f[x] + g[S \ {x}] /\ g[S \ {x}] \in Int
  BY <1>1, <1>3, PartialSums
<1>7. i[S] = h[x] + i[S \ {x}]
  BY <1>2, <1>3, PartialSums
<1>5. g[S \ {x}] = i[S \ {x}]
  BY <1>1, <1>2, <1>3, SameSums
<1>6. f[x] \in Int /\ h[x] \in Int
  OBVIOUS
<1> QED
  BY <1>1, <1>2, <1>4, <1>5, <1>6, <1>7

\* A larger multiple is larger by the factor at least.
LEMMA MultipleGrows ==
    ASSUME NEW d \in Nat, NEW i \in Int, NEW j \in Int, i >= j + 1
    PROVE  d * i >= d * j + d
<1>1. PICK k \in Nat : i = j + 1 + k
  <2>1. i - j - 1 \in Nat /\ i = j + 1 + (i - j - 1)
    OBVIOUS
  <2> QED
    BY <2>1
<1>2. d * i = d * j + d + d * k /\ d * k \in Nat /\ d * j \in Int
  BY <1>1
<1> QED
  BY <1>2

\* A quotient is what division with a remainder makes it.
LEMMA QuotientBounds ==
    ASSUME NEW n \in Nat, NEW d \in Nat \ {0}
    PROVE  n \div d \in Int /\ d * (n \div d) <= n /\ n < d * (n \div d) + d
<1>1. n = d * (n \div d) + (n % d) /\ n % d \in 0 .. d - 1 /\ n \div d \in Int
  OBVIOUS
<1> QED
  BY <1>1

\* A quotient grows with its numerator.
LEMMA QuotientGrows ==
    ASSUME NEW m \in Nat, NEW n \in Nat, m <= n, NEW d \in Nat \ {0}
    PROVE  m \div d \in Nat /\ n \div d \in Nat /\ m \div d <= n \div d
<1> DEFINE a == m \div d
           b == n \div d
<1>1. /\ a \in Int /\ b \in Int
      /\ d * a <= m /\ m < d * a + d
      /\ d * b <= n /\ n < d * b + d
  BY QuotientBounds
<1> HIDE DEF a, b
<1>2. ASSUME NEW i \in Int, NEW j \in Int, i >= j + 1 PROVE d * i >= d * j + d
  BY <1>2, MultipleGrows
<1>3. a <= b
  <2>1. CASE a >= b + 1
    <3>1. d * a >= d * b + d
      BY <1>1, <1>2, <2>1
    <3> DEFINE x == d * a
               y == d * b
    <3>2. x \in Int /\ y \in Int /\ x <= m /\ n < y + d /\ x >= y + d
      BY <1>1, <3>1
    <3> HIDE DEF x, y
    <3> QED
      BY <3>2
  <2> QED
    BY <1>1, <2>1
<1>4. ASSUME NEW i \in Int, NEW l \in Nat, d * i <= l, l < d * i + d PROVE i >= 0
  <2>1. CASE i <= -1
    <3>1. d * i <= d * (-1)
      BY <1>4, <2>1
    <3> DEFINE x == d * i
    <3>2. x \in Int /\ x <= -d /\ l < x + d
      BY <1>4, <3>1
    <3> HIDE DEF x
    <3> QED
      BY <3>2
  <2> QED
    BY <2>1
<1>5. a >= 0 /\ b >= 0
  BY <1>1, <1>4
<1> QED
  BY <1>1, <1>3, <1>5 DEF a, b

\* The share of the transfer grows with the item value, and that of the whole
\* item is the whole transfer.
LEMMA ProportionalGrows ==
    ASSUME NEW a \in 0 .. ItemAmount, NEW b \in 0 .. ItemAmount, a <= b
    PROVE  /\ Proportional(a) \in Nat /\ Proportional(b) \in Nat
           /\ Proportional(a) <= Proportional(b)
           /\ Proportional(ItemAmount) = SellerAmount
<1> DEFINE num(x) == 2 * SellerAmount * x + ItemAmount
           den == 2 * ItemAmount
<1>1. /\ SellerAmount \in Nat \ {0} /\ ItemAmount \in Nat \ {0} /\ a \in Nat /\ b \in Nat
      /\ den \in Nat \ {0}
  BY OrdersAssumption
<1>2. num(a) \in Nat /\ num(b) \in Nat /\ num(a) <= num(b)
  <2>1. ASSUME NEW s \in Nat PROVE s * a \in Nat /\ s * b \in Nat /\ s * a <= s * b
    BY <1>1
  <2>2. 2 * SellerAmount \in Nat
    BY <1>1
  <2> HIDE DEF den
  <2> QED
    BY <1>1, <2>1, <2>2
<1>3. /\ Proportional(a) \in Nat /\ Proportional(b) \in Nat
      /\ Proportional(a) <= Proportional(b)
  <2> HIDE DEF num, den
  <2>1. /\ num(a) \div den \in Nat /\ num(b) \div den \in Nat
        /\ num(a) \div den <= num(b) \div den
    BY <1>1, <1>2, QuotientGrows
  <2> QED
    BY <2>1 DEF Proportional, num, den
<1>4. num(ItemAmount) \div den = SellerAmount
  <2>1. ASSUME NEW s \in Nat, NEW i \in Nat \ {0} PROVE (2 * s * i + i) \div (2 * i) = s
    <3> DEFINE n == 2 * s * i + i
               d == 2 * i
               q == n \div d
    <3>1. n \in Nat /\ d \in Nat \ {0} /\ n = d * s + i /\ i < d
      OBVIOUS
    <3> HIDE DEF n, d
    <3>2. q \in Int /\ d * q <= n /\ n < d * q + d
      BY <3>1, QuotientBounds
    <3> HIDE DEF q
    <3>3. ASSUME NEW u \in Int, NEW v \in Int, u >= v + 1 PROVE d * u >= d * v + d
      BY <3>1, <3>3, MultipleGrows
    <3>4. ~(q >= s + 1)
      <4> SUFFICES ASSUME q >= s + 1 PROVE FALSE
        OBVIOUS
      <4>1. d * q >= d * s + d
        BY <3>2, <3>3
      <4> DEFINE x == d * q
                 y == d * s
      <4>2. x \in Int /\ y \in Int /\ x <= y + i /\ x >= y + d
        BY <3>1, <3>2, <4>1
      <4> HIDE DEF x, y
      <4> QED
        BY <3>1, <4>2
    <3>5. ~(s >= q + 1)
      <4> SUFFICES ASSUME s >= q + 1 PROVE FALSE
        OBVIOUS
      <4>1. d * s >= d * q + d
        BY <3>2, <3>3
      <4> DEFINE x == d * q
                 y == d * s
      <4>2. x \in Int /\ y \in Int /\ y + i < x + d /\ y >= x + d
        BY <3>1, <3>2, <4>1
      <4> HIDE DEF x, y
      <4> QED
        BY <3>1, <4>2
    <3>6. q = s
      BY <3>2, <3>4, <3>5
    <3> QED
      BY <3>6 DEF q, n, d
  <2> QED
    BY <1>1, <2>1
<1>5. Proportional(ItemAmount) = num(ItemAmount) \div den
  BY DEF Proportional
<1> QED
  BY <1>3, <1>4, <1>5

\* A sum of larger numbers is larger.
LEMMA SumGrows ==
    ASSUME NEW S, IsFiniteSet(S), NEW f \in [S -> Nat], NEW h \in [S -> Nat],
           \A x \in S : f[x] <= h[x]
    PROVE  SumFunction(f) <= SumFunction(h)
<1>1. PICK g : IsSum(f, S, g) /\ SumFunction(f) = g[S]
  BY SumIs
<1>2. PICK i : IsSum(h, S, i) /\ SumFunction(h) = i[S]
  BY SumIs
<1>3. f \in [S -> Int] /\ h \in [S -> Int] /\ IsSum(f, S, g) /\ IsSum(h, S, i) /\ IsFiniteSet(S)
  BY <1>1, <1>2
<1>4. ASSUME NEW U \in SUBSET S
      PROVE  g[U] \in Int /\ (U = {} => g[U] = 0) /\ \A x \in U : g[U] = f[x] + g[U \ {x}]
  BY <1>3, <1>4, PartialSums
<1>5. ASSUME NEW U \in SUBSET S
      PROVE  i[U] \in Int /\ (U = {} => i[U] = 0) /\ \A x \in U : i[U] = h[x] + i[U \ {x}]
  BY <1>3, <1>5, PartialSums
<1>6. ASSUME NEW U \in SUBSET S
      PROVE  /\ g[U] \in Int /\ (U = {} => g[U] = 0) /\ \A x \in U : g[U] = f[x] + g[U \ {x}]
             /\ i[U] \in Int /\ (U = {} => i[U] = 0) /\ \A x \in U : i[U] = h[x] + i[U \ {x}]
  BY <1>4, <1>5
<1> DEFINE Bad == {s \in SUBSET S : ~(g[s] <= i[s])}
<1>7. Bad \subseteq SUBSET S
  OBVIOUS
<1>8. ASSUME Bad # {} PROVE FALSE
  <2> HIDE DEF Bad
  <2>1. PICK s \in Bad : \A t \in Bad : t \subseteq s => t = s
    BY <1>7, <1>8, SmallestSet
  <2> USE DEF Bad
  <2>2. s # {}
    BY <1>6
  <2>3. PICK x \in s : TRUE
    BY <2>2
  <2>4. /\ g[s] = f[x] + g[s \ {x}] /\ i[s] = h[x] + i[s \ {x}] /\ f[x] <= h[x]
        /\ f[x] \in Nat /\ h[x] \in Nat /\ g[s \ {x}] \in Int /\ i[s \ {x}] \in Int
    BY <1>6
  <2>5. s \ {x} \notin Bad
    BY <2>1
  <2>6. g[s \ {x}] <= i[s \ {x}]
    BY <2>5
  <2> QED
    BY <2>4, <2>6
<1> QED
  BY <1>1, <1>2, <1>8

=============================================================================
