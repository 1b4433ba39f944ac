---------------------- MODULE MarketplaceMoney_proofs ----------------------
(***************************************************************************)
(* The money of MarketplaceOrders, for any number of orders, of requests   *)
(* that overlap and of refunds: a seller is paid only for an order whose   *)
(* charge was collected and once for it, a refund is made only of a charge *)
(* that was collected and that the ledger holds, and an order or a listing *)
(* that says its seller was paid is backed by a transfer; and the handlers *)
(* implement EscrowAccount.  For handlers that do not overlap, the books   *)
(* of a settlement balance, a lost chargeback recovers the seller leg, and *)
(* no buyer pays for an order that was cancelled.                          *)
(*                                                                         *)
(* Handlers act on rows they read earlier, and their updates are blind, so *)
(* none of this follows from the tables alone: MoneyInv says what every    *)
(* request in flight and every event on its way may rely on.  It can be    *)
(* relied on later because a charge stays collected, a transfer stays made *)
(* and a row of the ledger stays there.  ClaimInv adds for the refinement  *)
(* what a request holds between its claim and the refund it stands for.    *)
(* SettleInv follows the one request of a settlement (Alone) from its read *)
(* to its record, and says at each step how far the running total, the     *)
(* ledger and the reversals have come.  CheckoutInv says that whoever is   *)
(* about to cancel an order knows that its checkout has ended.             *)
(***************************************************************************)
EXTENDS MarketplaceOrders_proofs

Collected == {o \in Orders : session[o] = "paid"}
PaidOut   == {t.o : t \in transfers}

\* The steps a request reaches only with the payment or the transfer behind it.
SpecialSteps == {"fund", "reverse", "refund", "completed", "recover", "recovered",
                 "list", "list-write"}

\* What a request in flight knows of the orders collected and paid out.
Backed(r, collected, paidOut) ==
    /\ r.row.paymentIntent => r.o \in collected
    /\ r.at = "fund" => r.o \in collected
    /\ r.evt # None /\ r.evt.type = "paid" => r.evt.o \in collected
    /\ r.at \in {"reverse", "refund"} => r.row.paymentIntent
    /\ r.row.transfer # "pending" => r.o \in paidOut
    /\ r.at \in {"completed", "recover", "recovered"} => r.o \in paidOut
    /\ r.at \in {"list", "list-write"} /\ r.to = "sold" => paidOut # {}

RowBacked(row, o, collected, paidOut) ==
    /\ row.paymentIntent => o \in collected
    /\ row.status = "completed" \/ row.transfer # "pending" => o \in paidOut

TablesBacked ==
    /\ \A o \in Orders : RowBacked(order[o], o, Collected, PaidOut)
    /\ listing = "sold" => PaidOut # {}

RequestsBacked == \A p \in Workers : Backed(rq[p], Collected, PaidOut)

EventsBacked == \A e \in events : e.type = "paid" => e.o \in Collected

TransfersBacked == \A t \in transfers : t.key = t.o /\ t.o \in Collected

RefundsBacked ==
    \A o \in Orders, k \in RefundKeys :
        refunds[o][k] # "none" => ledger[o][k] # None /\ o \in Collected

MoneyInv ==
    TablesBacked /\ RequestsBacked /\ EventsBacked /\ TransfersBacked /\ RefundsBacked

-----------------------------------------------------------------------------
\* A request that goes to a step that needs no money behind it keeps what it has.
LEMMA GotoBacked ==
    ASSUME TypeInv, MoneyInv, NEW p \in Workers, NEW step, step \notin SpecialSteps
    PROVE  Backed([rq[p] EXCEPT !.at = step], Collected, PaidOut)
<1>1. rq[p] \in RequestState /\ Backed(rq[p], Collected, PaidOut)
  BY DEF TypeInv, TypeOK, MoneyInv, RequestsBacked
<1> QED
  BY <1>1 DEF RequestState, Backed, SpecialSteps

\* Requests keep what they rely on when the money moves on and one of them moves.
LEMMA RequestsStayBacked ==
    ASSUME TypeInv, MoneyInv, NEW p \in Workers, NEW r,
           rq' = [rq EXCEPT ![p] = r] \/ rq' = rq,
           Collected \subseteq Collected', PaidOut \subseteq PaidOut',
           Backed(r, Collected', PaidOut')
    PROVE  RequestsBacked'
<1>1. ASSUME NEW q \in Workers PROVE Backed(rq'[q], Collected', PaidOut')
  <2>1. Backed(rq[q], Collected, PaidOut)
    BY DEF MoneyInv, RequestsBacked
  <2>2. Backed(rq[q], Collected', PaidOut')
    BY <2>1 DEF Backed
  <2> QED
    BY <2>2 DEF TypeInv, TypeOK
<1> QED
  BY <1>1 DEF RequestsBacked

\* A step that moves one request, and no table and nothing at the provider.
LEMMA OnlyRequestBacked ==
    ASSUME TypeInv, MoneyInv, NEW p \in Workers, NEW r,
           rq' = [rq EXCEPT ![p] = r], Backed(r, Collected, PaidOut),
           UNCHANGED <<dbVars, providerVars>>, EventsBacked'
    PROVE  MoneyInv'
<1>1. Collected' = Collected /\ PaidOut' = PaidOut
  BY DEF Collected, PaidOut, providerVars
<1>2. RequestsBacked'
  BY <1>1, RequestsStayBacked
<1> QED
  BY <1>1, <1>2 DEF MoneyInv, TablesBacked, TransfersBacked, RefundsBacked, dbVars, providerVars

\* An exception may put back an event that was backed.
LEMMA ThrowBacked ==
    ASSUME TypeInv, MoneyInv, NEW p \in Workers, Throw(p), UNCHANGED session
    PROVE  rq' = [rq EXCEPT ![p] = Idle] /\ EventsBacked'
<1>1. Backed(rq[p], Collected, PaidOut) /\ Collected' = Collected
  BY DEF MoneyInv, RequestsBacked, Collected
<1> QED
  BY <1>1 DEF Throw, Finish, EventsBacked, MoneyInv, Backed

\* The blind update of an order.
LEMMA UpdateBacked ==
    ASSUME TypeInv, MoneyInv, NEW p \in Workers, rq[p].o \in Orders, NEW row, NEW next,
           RowBacked(row, rq[p].o, Collected, PaidOut), Backed(next, Collected, PaidOut),
           UpdateOrder(p, row, next)
    PROVE  MoneyInv'
<1>1. Collected' = Collected /\ PaidOut' = PaidOut /\ UNCHANGED <<ledger, providerVars>>
  BY DEF UpdateOrder, Collected, PaidOut, providerVars
<1>2. CASE IndexAllows(rq[p].o, row.status)
  <2>1. /\ order' = [order EXCEPT ![rq[p].o] = row]
        /\ listing' = ListingAfter(rq[p].o, row.status)
        /\ rq' = [rq EXCEPT ![p] = next]
        /\ UNCHANGED events
    BY <1>2 DEF UpdateOrder
  <2>2. RequestsBacked'
    BY <1>1, <2>1, RequestsStayBacked
  <2>3. listing' = "sold" => PaidOut # {}
    BY <2>1 DEF ListingAfter, RowBacked, MoneyInv, TablesBacked
  <2>4. \A o \in Orders : RowBacked(order'[o], o, Collected, PaidOut)
    BY <2>1 DEF TypeInv, TypeOK, MoneyInv, TablesBacked
  <2> QED
    BY <1>1, <2>1, <2>2, <2>3, <2>4
       DEF MoneyInv, TablesBacked, TransfersBacked, RefundsBacked, EventsBacked, providerVars
<1>3. CASE ~IndexAllows(rq[p].o, row.status)
  <2>1. Throw(p) /\ UNCHANGED <<dbVars, providerVars>>
    BY <1>1, <1>3 DEF UpdateOrder, dbVars
  <2>2. Backed(Idle, Collected, PaidOut)
    BY DEF Idle, NoOrder, Backed
  <2>3. UNCHANGED session
    BY <2>1 DEF providerVars
  <2> QED
    BY <2>1, <2>2, <2>3, ThrowBacked, OnlyRequestBacked
<1> QED
  BY <1>2, <1>3

-----------------------------------------------------------------------------
\* Requests that come in; a confirmation and a refund keep the row they read.
LEMMA RequestBacked ==
    ASSUME TypeInv, MoneyInv, NEW p \in Requests, NEW o \in Orders, Request(p, o)
    PROVE  MoneyInv'
<1>1. /\ p \in Workers /\ UNCHANGED <<dbVars, providerVars, events>>
      /\ RowBacked(order[o], o, Collected, PaidOut)
  BY DEF Workers, Request, BeginCheckout, CancelUnpaid, MarkShipped, IssueHandoverCode,
         Confirm, OpenDispute, RefundOrder, MoneyInv, TablesBacked
<1>2. EventsBacked'
  BY <1>1 DEF MoneyInv, EventsBacked, Collected, providerVars
<1>3. ASSUME NEW step \in PlainSteps \ SpecialSteps, Begin(p, step, o) PROVE MoneyInv'
  <2>1. Backed([Idle EXCEPT !.at = step, !.o = o], Collected, PaidOut)
    BY DEF Idle, NoOrder, Backed, SpecialSteps
  <2> QED
    BY <1>1, <1>2, <1>3, <2>1, OnlyRequestBacked DEF Begin
<1>4. {"find", "expire", "cancel", "ship", "issue", "dispute"} \subseteq PlainSteps \ SpecialSteps
  BY PlainStepsAre DEF SpecialSteps
<1>5. CASE BeginCheckout(p, o)
  BY <1>3, <1>4, <1>5 DEF BeginCheckout
<1>6. CASE CancelUnpaid(p, o)
  BY <1>3, <1>4, <1>6 DEF CancelUnpaid
<1>7. CASE MarkShipped(p, o) \/ IssueHandoverCode(p, o) \/ OpenDispute(p, o)
  BY <1>3, <1>4, <1>7 DEF MarkShipped, IssueHandoverCode, OpenDispute
<1>8. CASE Confirm(p, o)
  <2> DEFINE r == [Idle EXCEPT !.at = "release", !.o = o, !.row = order[o]]
  <2>1. r.at = "release" /\ r.o = o /\ r.row = order[o] /\ r.evt = None
    BY DEF Idle
  <2>2. Backed(r, Collected, PaidOut)
    BY <1>1, <2>1 DEF Backed, RowBacked
  <2> QED
    BY <1>1, <1>2, <1>8, <2>2, OnlyRequestBacked DEF Confirm
<1>9. ASSUME NEW k \in RefundKeys, NEW base \in 1 .. ItemAmount, RefundOrder(p, o, k, base)
      PROVE  MoneyInv'
  <2> DEFINE r == [Idle EXCEPT !.at = "quote", !.o = o, !.row = order[o],
                               !.key = k, !.amount = base]
  <2>1. r.at = "quote" /\ r.o = o /\ r.row = order[o] /\ r.evt = None
    BY DEF Idle
  <2>2. Backed(r, Collected, PaidOut)
    BY <1>1, <2>1 DEF Backed, RowBacked
  <2> QED
    BY <1>1, <1>2, <1>9, <2>2, OnlyRequestBacked DEF RefundOrder
<1> QED
  BY <1>5, <1>6, <1>7, <1>8, <1>9 DEF Request

\* A charge that was collected stays collected, and its event says so.
LEMMA ProviderBacked ==
    ASSUME TypeInv, MoneyInv, NEW o \in Orders, Provider(o) PROVE MoneyInv'
<1>1. UNCHANGED <<dbVars, rq, transfers, reversals>>
  BY DEF Provider, CustomerPays, SessionExpires, PaysLater, AsyncSettles, SessionEnds,
         NetworkDisputes, RefundSettles
<1>2. PaidOut' = PaidOut
  BY <1>1 DEF PaidOut
<1>3. Collected \subseteq Collected' /\ EventsBacked'
  <2>1. ASSUME NEW from \in {"open", "complete"}, NEW to, NEW type,
               SessionEnds(o, from, to, type), type = "paid" => to = "paid"
        PROVE  Collected \subseteq Collected' /\ EventsBacked'
    <3>1. session' = [session EXCEPT ![o] = to] /\ session[o] # "paid"
          /\ events' = events \cup {[type |-> type, o |-> o, key |-> None]}
      BY <2>1 DEF SessionEnds, Emit
    <3>2. Collected \subseteq Collected'
      BY <3>1 DEF Collected, TypeInv, TypeOK
    <3>3. to = "paid" => o \in Collected'
      BY <3>1 DEF Collected, TypeInv, TypeOK
    <3> QED
      BY <2>1, <3>1, <3>2, <3>3 DEF EventsBacked, MoneyInv
  <2>2. ASSUME NEW type, NEW k, type # "paid", UNCHANGED session,
               events' = events \cup {[type |-> type, o |-> o, key |-> k]}
        PROVE  Collected \subseteq Collected' /\ EventsBacked'
    BY <2>2 DEF Collected, EventsBacked, MoneyInv
  <2>3. CASE NetworkDisputes(o)
    <3>1. PICK move \in DisputeMoves : Emit(move[2], o, None)
      BY <2>3 DEF NetworkDisputes
    <3>2. move[2] # "paid"
      BY DEF DisputeMoves
    <3> QED
      BY <2>2, <2>3, <3>1, <3>2 DEF NetworkDisputes, Emit
  <2>4. ASSUME NEW k \in RefundKeys, RefundSettles(o, k)
        PROVE  Collected \subseteq Collected' /\ EventsBacked'
    BY <2>2, <2>4 DEF RefundSettles, Emit
  <2> QED
    BY <2>1, <2>3, <2>4 DEF Provider, CustomerPays, SessionExpires, PaysLater, AsyncSettles
<1>4. RequestsBacked'
  <2> SUFFICES ASSUME NEW p \in Workers PROVE Backed(rq'[p], Collected', PaidOut')
    BY DEF RequestsBacked
  <2>1. Backed(rq[p], Collected, PaidOut)
    BY DEF MoneyInv, RequestsBacked
  <2> QED
    BY <1>1, <1>2, <1>3, <2>1 DEF Backed
<1>5. \A oo \in Orders, k \in RefundKeys : refunds'[oo][k] # "none" => refunds[oo][k] # "none"
  <2>1. ASSUME NEW k \in RefundKeys, RefundSettles(o, k)
        PROVE  \A oo \in Orders, kk \in RefundKeys :
                  refunds'[oo][kk] # "none" => refunds[oo][kk] # "none"
    BY <2>1 DEF RefundSettles, TypeInv, TypeOK
  <2>2. ASSUME ~\E k \in RefundKeys : RefundSettles(o, k) PROVE refunds' = refunds
    BY <2>2 DEF Provider, CustomerPays, SessionExpires, PaysLater, AsyncSettles, SessionEnds,
                NetworkDisputes
  <2> QED
    BY <2>1, <2>2
<1>6. TablesBacked' /\ TransfersBacked'
  BY <1>1, <1>2, <1>3 DEF MoneyInv, TablesBacked, TransfersBacked, RowBacked, dbVars
<1>7. RefundsBacked'
  BY <1>1, <1>3, <1>5 DEF MoneyInv, RefundsBacked, dbVars
<1> QED
  BY <1>3, <1>4, <1>6, <1>7 DEF MoneyInv

\* The event of a payment and a transfer on the row read are behind the first step.
LEMMA TakeEventBacked ==
    ASSUME TypeInv, MoneyInv, NEW p \in Requests, NEW e \in events, TakeEvent(p, e)
    PROVE  MoneyInv'
<1>1. /\ p \in Workers /\ e \in Event
      /\ UNCHANGED <<dbVars, providerVars>> /\ events' \subseteq events
      /\ RowBacked(order[e.o], e.o, Collected, PaidOut)
      /\ e.type = "paid" => e.o \in Collected
  BY DEF TypeInv, TypeOK, Event, Workers, TakeEvent, MoneyInv, TablesBacked, EventsBacked
<1>2. EventsBacked'
  BY <1>1 DEF MoneyInv, EventsBacked, Collected, providerVars
<1> DEFINE r == IF Refused(e) THEN rq[p]
                ELSE [Idle EXCEPT !.at = FirstStep(e), !.o = e.o, !.evt = e]
<1>3. Backed(r, Collected, PaidOut)
  <2>1. CASE Refused(e)
    BY <1>1, <2>1 DEF MoneyInv, RequestsBacked
  <2>2. CASE ~Refused(e)
    <3>1. /\ FirstStep(e) = "fund" => e.type = "paid"
          /\ FirstStep(e) = "recover" => order[e.o].transfer = "completed"
          /\ FirstStep(e) \in {"fund", "cancel", "pend", "refunded", "refund-failed",
                               "recover", "chargeback"}
      BY <1>1 DEF FirstStep, EventStep, Event
    <3>2. /\ r.at = FirstStep(e) /\ r.o = e.o /\ r.evt = e
          /\ ~r.row.paymentIntent /\ r.row.transfer = "pending"
      BY <2>2 DEF Idle, NoOrder
    <3> QED
      BY <1>1, <3>1, <3>2 DEF Backed, RowBacked
  <2> QED
    BY <2>1, <2>2
<1>4. rq' = [rq EXCEPT ![p] = r]
  BY DEF TakeEvent, TypeInv, TypeOK
<1> HIDE DEF r
<1> QED
  BY <1>1, <1>2, <1>3, <1>4, OnlyRequestBacked

-----------------------------------------------------------------------------
(* The steps of the handlers.                                              *)

\* What the request at a step may rely on.
LEMMA StepFacts ==
    ASSUME TypeInv, MoneyInv, NEW p \in Workers, ~At(p, "idle")
    PROVE  /\ rq[p].o \in Orders /\ rq[p] \in RequestState
           /\ Backed(rq[p], Collected, PaidOut)
           /\ Row(p) = order[rq[p].o] /\ Row(p) \in OrderRow
           /\ RowBacked(Row(p), rq[p].o, Collected, PaidOut)
BY RequestFacts DEF Row, MoneyInv, RequestsBacked, TablesBacked

\* A handler that is done has at most its event left.
LEMMA DoneBacked ==
    ASSUME TypeInv, MoneyInv, NEW p \in Workers, ~At(p, "idle")
    PROVE  Backed(Done(p), Collected, PaidOut)
BY StepFacts DEF Done, Idle, NoOrder, Backed

\* A handler goes on to sell the listing only after a transfer.
LEMMA ThenListBacked ==
    ASSUME TypeInv, MoneyInv, NEW p \in Workers, ~At(p, "idle"),
           NEW to, NEW from, NEW next, to = "sold" => PaidOut # {}
    PROVE  Backed(ThenList(p, to, from, next), Collected, PaidOut)
<1> DEFINE r == ThenList(p, to, from, next)
<1>1. /\ r.at = "list" /\ r.to = to /\ r.evt = rq[p].evt
      /\ ~r.row.paymentIntent /\ r.row.transfer = "pending"
  BY DEF ThenList, Idle, NoOrder
<1> QED
  BY <1>1, StepFacts DEF Backed

\* The updates of an order that keep its payment and its transfer.
LEMMA WriteBacked ==
    ASSUME TypeInv, MoneyInv, NEW p \in Workers,
           \/ SaveSession(p) \/ WriteCancelled(p) \/ WritePaymentPending(p)
           \/ WriteRefundFailed(p) \/ WriteRefunded(p) \/ WriteShipped(p)
           \/ WritePinPending(p) \/ WriteDisputed(p)
    PROVE  MoneyInv'
<1>1. ~At(p, "idle")
  BY DEF At, SaveSession, WriteCancelled, WritePaymentPending, WriteRefundFailed,
         WriteRefunded, WriteShipped, WritePinPending, WriteDisputed
<1>2. \E row, next :
        /\ UpdateOrder(p, row, next)
        /\ RowBacked(row, rq[p].o, Collected, PaidOut)
        /\ Backed(next, Collected, PaidOut)
  <2>1. /\ RowBacked([Row(p) EXCEPT !.session = TRUE], rq[p].o, Collected, PaidOut)
        /\ \A status \in OrderStatus \ {"completed"} :
             RowBacked([Row(p) EXCEPT !.status = status], rq[p].o, Collected, PaidOut)
    BY <1>1, StepFacts DEF RowBacked, OrderRow
  <2>2. {"cancelled", "payment_pending", "disputed", "refunded", "shipped", "pin_pending"}
          \subseteq OrderStatus \ {"completed"}
    BY DEF OrderStatus, Active, Unpaid, Closed
  <2>3. /\ Backed(Idle, Collected, PaidOut)
        /\ Backed(Done(p), Collected, PaidOut)
        /\ Backed(ThenList(p, "published", "reserved", "idle"), Collected, PaidOut)
    BY <1>1, DoneBacked, ThenListBacked DEF Idle, NoOrder, Backed
  <2> QED
    BY <2>1, <2>2, <2>3 DEF SaveSession, WriteCancelled, WritePaymentPending,
       WriteRefundFailed, WriteRefunded, WriteShipped, WritePinPending, WriteDisputed
<1> QED
  BY <1>1, <1>2, StepFacts, UpdateBacked

\* Fund records a payment that was collected, WriteCompleted a transfer made.
LEMMA FundBacked ==
    ASSUME TypeInv, MoneyInv, NEW p \in Workers, Fund(p) \/ WriteCompleted(p)
    PROVE  MoneyInv'
<1>1. ~At(p, "idle")
  BY DEF At, Fund, WriteCompleted
<1>2. CASE Fund(p)
  <2> DEFINE row == [Row(p) EXCEPT !.status = "escrow_funded", !.paymentIntent = TRUE]
  <2>1. rq[p].o \in Collected
    BY <1>1, <1>2, StepFacts DEF Fund, At, Backed
  <2>2. RowBacked(row, rq[p].o, Collected, PaidOut)
    BY <1>1, <2>1, StepFacts DEF RowBacked, OrderRow
  <2> QED
    BY <1>1, <1>2, <2>2, StepFacts, ThenListBacked, UpdateBacked DEF Fund
<1>3. CASE WriteCompleted(p)
  <2> DEFINE row == [Row(p) EXCEPT !.status = "completed", !.transfer = "completed"]
  <2>1. rq[p].o \in PaidOut
    BY <1>1, <1>3, StepFacts DEF WriteCompleted, At, Backed
  <2>2. RowBacked(row, rq[p].o, Collected, PaidOut)
    BY <1>1, <2>1, StepFacts DEF RowBacked, OrderRow
  <2> QED
    BY <1>1, <1>3, <2>1, <2>2, StepFacts, ThenListBacked, UpdateBacked DEF WriteCompleted
<1> QED
  BY <1>2, <1>3

\* A dispute marks a transfer as reversed after it recovered one.
LEMMA ChargebackBacked ==
    ASSUME TypeInv, MoneyInv, NEW p \in Workers, WriteChargeback(p) PROVE MoneyInv'
<1>1. ~At(p, "idle")
  BY DEF WriteChargeback, At
<1> DEFINE type == rq[p].evt.type
           row == [Row(p) EXCEPT
                     !.status    = IF ChargebackStatus(type) \in {"won", "withdrawn"}
                                   THEN @ ELSE "disputed",
                     !.dispute   = ChargebackStatus(type),
                     !.disputeId = DisputeId(type),
                     !.transfer  = IF At(p, "recovered") THEN "reversed" ELSE @]
<1>2. /\ row.paymentIntent = Row(p).paymentIntent
      /\ row.status = "completed" => Row(p).status = "completed"
      /\ row.transfer # "pending" => Row(p).transfer # "pending" \/ At(p, "recovered")
  <2>1. Row(p) \in OrderRow
    BY <1>1, StepFacts
  <2>2. /\ row.status \in {Row(p).status, "disputed"}
        /\ row.transfer = IF At(p, "recovered") THEN "reversed" ELSE Row(p).transfer
        /\ row.paymentIntent = Row(p).paymentIntent
    BY <2>1 DEF OrderRow
  <2> QED
    BY <2>2
<1>3. At(p, "recovered") => rq[p].o \in PaidOut
  BY <1>1, StepFacts DEF At, Backed
<1> HIDE DEF row
<1>4. RowBacked(row, rq[p].o, Collected, PaidOut)
  BY <1>1, <1>2, <1>3, StepFacts DEF RowBacked
<1>5. UpdateOrder(p, row, Done(p))
  BY DEF WriteChargeback, row
<1> QED
  BY <1>1, <1>4, <1>5, StepFacts, DoneBacked, UpdateBacked

\* Steps that read and go on, that start a reconciliation, or that throw.
LEMMA ReadBacked ==
    ASSUME TypeInv, MoneyInv, NEW p \in Workers,
           \/ CompleteEvent(p) \/ FindCheckout(p) \/ RetrieveCheckout(p)
           \/ RecheckUnpaid(p) \/ QuoteRefund(p) \/ Fail(p)
    PROVE  MoneyInv'
<1>1. /\ ~At(p, "idle") /\ UNCHANGED <<dbVars, providerVars>>
      /\ UNCHANGED events \/ Throw(p)
  BY DEF CompleteEvent, FindCheckout, RetrieveCheckout, RecheckUnpaid, QuoteRefund, Fail, At
<1>2. EventsBacked'
  <2>1. UNCHANGED session
    BY <1>1 DEF providerVars
  <2>2. UNCHANGED events => EventsBacked'
    BY <2>1 DEF MoneyInv, EventsBacked, Collected
  <2> QED
    BY <1>1, <2>1, <2>2, ThrowBacked
<1>3. ASSUME Finish(p) PROVE MoneyInv'
  <2>1. Backed(Idle, Collected, PaidOut)
    BY DEF Idle, NoOrder, Backed
  <2> QED
    BY <1>1, <1>2, <1>3, <2>1, OnlyRequestBacked DEF Finish
<1>4. ASSUME NEW step, step \notin SpecialSteps, Goto(p, step) PROVE MoneyInv'
  <2>1. rq' = [rq EXCEPT ![p] = [rq[p] EXCEPT !.at = step]]
    BY <1>4 DEF Goto
  <2> QED
    BY <1>1, <1>2, <1>4, <2>1, GotoBacked, OnlyRequestBacked
<1>5. CASE CompleteEvent(p) \/ Fail(p)
  BY <1>3, <1>5 DEF CompleteEvent, Fail, Throw
<1>6. CASE FindCheckout(p) \/ RecheckUnpaid(p)
  BY <1>3, <1>4, <1>6 DEF FindCheckout, RecheckUnpaid, SpecialSteps
<1>7. CASE RetrieveCheckout(p)
  <2>1. CASE session[rq[p].o] = "paid"
    <3> DEFINE r == [rq[p] EXCEPT !.at = "fund"]
    <3>1. rq[p].o \in Collected
      BY <1>1, <2>1, StepFacts DEF Collected
    <3>2. r.at = "fund" /\ r.o = rq[p].o /\ r.row = rq[p].row /\ r.evt = rq[p].evt
      BY <1>1, StepFacts DEF RequestState
    <3>3. Backed(r, Collected, PaidOut)
      BY <1>1, <3>1, <3>2, StepFacts DEF Backed
    <3>4. rq' = [rq EXCEPT ![p] = r]
      BY <1>7, <2>1 DEF RetrieveCheckout, Goto
    <3> QED
      BY <1>1, <1>2, <3>3, <3>4, OnlyRequestBacked
  <2>2. CASE session[rq[p].o] # "paid"
    <3>1. Finish(p) \/ Goto(p, "recheck") \/ Goto(p, "pend")
      BY <1>7, <2>2 DEF RetrieveCheckout
    <3> QED
      BY <1>3, <1>4, <3>1 DEF SpecialSteps
  <2> QED
    BY <2>1, <2>2
<1>8. CASE QuoteRefund(p)
  <2> DEFINE credit == IF IsFull(p) THEN TotalCharged - Credited(rq[p].o) ELSE rq[p].amount
             r == [rq[p] EXCEPT !.at = "claim", !.credit = credit]
  <2>1. CASE credit \in 1 .. TotalCharged
    <3>1. rq' = [rq EXCEPT ![p] = r]
      BY <1>8, <2>1 DEF QuoteRefund
    <3> HIDE DEF credit
    <3>2. r.at = "claim" /\ r.o = rq[p].o /\ r.row = rq[p].row /\ r.evt = rq[p].evt
      BY <1>1, StepFacts DEF RequestState
    <3>3. Backed(r, Collected, PaidOut)
      BY <1>1, <3>2, StepFacts DEF Backed
    <3> QED
      BY <1>1, <1>2, <3>1, <3>3, OnlyRequestBacked
  <2>2. CASE credit \notin 1 .. TotalCharged
    BY <1>3, <1>8, <2>2 DEF QuoteRefund, Finish
  <2> QED
    BY <2>1, <2>2
<1> QED
  BY <1>5, <1>6, <1>7, <1>8

\* The reconciliation job starts with nothing behind it.
LEMMA ReconcileBacked ==
    ASSUME TypeInv, MoneyInv, NEW o \in Orders, ReconcileOrder(o) PROVE MoneyInv'
<1>1. Reconciler \in Workers /\ UNCHANGED <<dbVars, providerVars, events>>
  BY DEF Workers, ReconcileOrder
<1>2. EventsBacked'
  BY <1>1 DEF MoneyInv, EventsBacked, Collected, providerVars
<1>3. PICK step \in {"retrieve", "recheck"} : Begin(Reconciler, step, o)
  BY DEF ReconcileOrder
<1>4. Backed([Idle EXCEPT !.at = step, !.o = o], Collected, PaidOut)
  BY DEF Idle, NoOrder, Backed
<1> QED
  BY <1>1, <1>2, <1>3, <1>4, OnlyRequestBacked DEF Begin

\* The listing is written as sold only by a request with a transfer behind it.
LEMMA ListingBacked ==
    ASSUME TypeInv, MoneyInv, NEW p \in Workers, FindListing(p) \/ WriteListing(p)
    PROVE  MoneyInv'
<1>1. /\ ~At(p, "idle") /\ rq[p].at \in {"list", "list-write"}
      /\ UNCHANGED <<order, ledger, providerVars, events>>
  BY DEF FindListing, WriteListing, At, dbVars
<1>2. Collected' = Collected /\ PaidOut' = PaidOut
  BY <1>1 DEF Collected, PaidOut, providerVars
<1>3. ASSUME Resume(p)
      PROVE  \E r : Backed(r, Collected, PaidOut) /\ rq' = [rq EXCEPT ![p] = r]
  <2>1. CASE rq[p].next = "idle"
    BY <1>1, <1>3, <2>1, DoneBacked DEF Resume
  <2>2. CASE rq[p].next # "idle"
    <3>1. rq[p].next = "checkout"
      BY <1>1, <2>2, StepFacts DEF RequestState
    <3>2. Backed([Idle EXCEPT !.at = "checkout", !.o = rq[p].o], Collected, PaidOut)
      BY DEF Idle, NoOrder, Backed
    <3> QED
      BY <1>3, <2>2, <3>1, <3>2 DEF Resume
  <2> QED
    BY <2>1, <2>2
<1>4. ASSUME Goto(p, "list-write")
      PROVE  \E r : Backed(r, Collected, PaidOut) /\ rq' = [rq EXCEPT ![p] = r]
  <2> DEFINE r == [rq[p] EXCEPT !.at = "list-write"]
  <2>1. /\ r.at = "list-write" /\ r.o = rq[p].o /\ r.row = rq[p].row
        /\ r.evt = rq[p].evt /\ r.to = rq[p].to
    BY <1>1, StepFacts DEF RequestState
  <2>2. Backed(r, Collected, PaidOut)
    BY <1>1, <2>1, StepFacts DEF Backed
  <2> QED
    BY <1>4, <2>2 DEF Goto
<1>5. PICK r : Backed(r, Collected, PaidOut) /\ rq' = [rq EXCEPT ![p] = r]
  BY <1>3, <1>4 DEF FindListing, WriteListing
<1>6. RequestsBacked'
  BY <1>2, <1>5, RequestsStayBacked
<1>7. listing' = "sold" => PaidOut # {}
  <2>1. listing' = listing \/ listing' = rq[p].to
    BY DEF FindListing, WriteListing, dbVars
  <2> QED
    BY <1>1, <2>1, StepFacts DEF Backed, MoneyInv, TablesBacked
<1> QED
  BY <1>1, <1>2, <1>6, <1>7
     DEF MoneyInv, TablesBacked, EventsBacked, TransfersBacked, RefundsBacked, providerVars

\* A new order has no payment and no transfer.
LEMMA InsertBacked ==
    ASSUME TypeInv, MoneyInv, NEW p \in Workers, InsertOrder(p) PROVE MoneyInv'
<1>1. ~At(p, "idle") /\ UNCHANGED <<ledger, providerVars, events>>
  BY DEF InsertOrder, At
<1>2. Collected' = Collected /\ PaidOut' = PaidOut
  BY <1>1 DEF Collected, PaidOut, providerVars
<1>3. PICK r : Backed(r, Collected, PaidOut) /\ rq' = [rq EXCEPT ![p] = r]
  <2>1. Backed(Idle, Collected, PaidOut)
    BY DEF Idle, NoOrder, Backed
  <2>2. Backed(ThenList(p, "reserved", None, "checkout"), Collected, PaidOut)
    BY <1>1, ThenListBacked
  <2> QED
    BY <2>1, <2>2 DEF InsertOrder, Finish
<1>4. RequestsBacked'
  BY <1>2, <1>3, RequestsStayBacked
<1>5. /\ listing' = "sold" => listing = "sold"
      /\ \/ order' = order
         \/ order' = [order EXCEPT ![rq[p].o] = [Row(p) EXCEPT !.status = "initiated"]]
  BY DEF InsertOrder, Row
<1>6. RowBacked([Row(p) EXCEPT !.status = "initiated"], rq[p].o, Collected, PaidOut)
  BY <1>1, StepFacts DEF RowBacked, OrderRow
<1>7. \A o \in Orders : RowBacked(order'[o], o, Collected, PaidOut)
  BY <1>5, <1>6 DEF TypeInv, TypeOK, MoneyInv, TablesBacked
<1> QED
  BY <1>1, <1>2, <1>4, <1>5, <1>7
     DEF MoneyInv, TablesBacked, EventsBacked, TransfersBacked, RefundsBacked, providerVars

\* Opening and expiring a session collects nothing and gives nothing back.
LEMMA SessionBacked ==
    ASSUME TypeInv, MoneyInv, NEW p \in Workers, OpenCheckout(p) \/ ExpireSession(p)
    PROVE  MoneyInv'
<1>1. /\ ~At(p, "idle")
      /\ UNCHANGED <<dbVars, transfers, reversals, refunds, dispute>>
  BY DEF OpenCheckout, ExpireSession, At
<1>2. Collected' = Collected
  <2>1. \/ session' = session
        \/ /\ session[rq[p].o] # "paid"
           /\ \E s \in {"open", "expired"} : session' = [session EXCEPT ![rq[p].o] = s]
    BY <1>1, StepFacts DEF OpenCheckout, ExpireSession, TypeInv, TypeOK
  <2> QED
    BY <2>1 DEF Collected, TypeInv, TypeOK
<1>3. PaidOut' = PaidOut
  BY <1>1 DEF PaidOut
<1>4. PICK r : Backed(r, Collected, PaidOut) /\ rq' = [rq EXCEPT ![p] = r]
  <2>1. Backed(Idle, Collected, PaidOut)
    BY DEF Idle, NoOrder, Backed
  <2>2. \A step \in {"save-session", "cancel"} :
          Backed([rq[p] EXCEPT !.at = step], Collected, PaidOut)
    BY GotoBacked DEF SpecialSteps
  <2>3. Finish(p) \/ \E step \in {"save-session", "cancel"} : Goto(p, step)
    BY DEF OpenCheckout, ExpireSession, Throw
  <2>4. ASSUME NEW step \in {"save-session", "cancel"}, Goto(p, step)
        PROVE  rq' = [rq EXCEPT ![p] = [rq[p] EXCEPT !.at = step]]
    BY <2>4 DEF Goto
  <2> QED
    BY <2>1, <2>2, <2>3, <2>4 DEF Finish
<1>5. RequestsBacked'
  BY <1>2, <1>3, <1>4, RequestsStayBacked
<1>6. EventsBacked'
  <2> DEFINE expired == [type |-> "expired", o |-> rq[p].o, key |-> None]
  <2>1. \/ events' = events \/ events' = events \cup {expired}
        \/ rq[p].evt # None /\ events' = events \cup {rq[p].evt}
    BY DEF OpenCheckout, ExpireSession, Throw
  <2>2. rq[p].evt # None /\ rq[p].evt.type = "paid" => rq[p].evt.o \in Collected
    BY <1>1, StepFacts DEF Backed
  <2>3. \A e \in events : e.type = "paid" => e.o \in Collected
    BY DEF EventsBacked, MoneyInv
  <2>4. ASSUME NEW e \in events', e.type = "paid" PROVE e.o \in Collected
    <3>1. expired.type # "paid"
      OBVIOUS
    <3> HIDE DEF expired
    <3> QED
      BY <2>1, <2>2, <2>3, <2>4, <3>1
  <2> QED
    BY <1>2, <2>4 DEF EventsBacked
<1> QED
  BY <1>1, <1>2, <1>3, <1>5, <1>6
     DEF MoneyInv, TablesBacked, TransfersBacked, RefundsBacked, dbVars

\* A transfer is made with the key of its order, and only where the row read at
\* the start had a payment.
LEMMA ReleaseBacked ==
    ASSUME TypeInv, MoneyInv, NEW p \in Workers, ReleaseSellerFunds(p) PROVE MoneyInv'
<1>1. ~At(p, "idle") /\ UNCHANGED <<dbVars, session, reversals, refunds, dispute, events>>
  BY DEF ReleaseSellerFunds, At
<1>2. Collected' = Collected
  BY <1>1 DEF Collected
<1> DEFINE r == [rq[p] EXCEPT !.at = "completed"]
<1>3. r.at = "completed" /\ r.o = rq[p].o /\ r.row = rq[p].row /\ r.evt = rq[p].evt
  BY <1>1, StepFacts DEF RequestState
<1>4. /\ PaidOut \subseteq PaidOut' /\ TransfersBacked' /\ RequestsBacked'
  <2>1. CASE rq[p].row.transfer = "completed"
    <3>1. UNCHANGED transfers /\ rq' = [rq EXCEPT ![p] = r]
      BY <2>1 DEF ReleaseSellerFunds, Goto
    <3>2. PaidOut' = PaidOut
      BY <3>1 DEF PaidOut
    <3>3. Backed(r, Collected', PaidOut')
      BY <1>1, <1>2, <1>3, <2>1, <3>2, StepFacts DEF Backed
    <3> QED
      BY <1>2, <3>1, <3>2, <3>3, RequestsStayBacked DEF MoneyInv, TransfersBacked
  <2>2. CASE rq[p].row.transfer # "completed" /\ ~rq[p].row.paymentIntent
    <3>1. UNCHANGED transfers /\ rq' = [rq EXCEPT ![p] = Idle]
      BY <2>2 DEF ReleaseSellerFunds, Finish
    <3>2. PaidOut' = PaidOut
      BY <3>1 DEF PaidOut
    <3>3. Backed(Idle, Collected', PaidOut')
      BY DEF Idle, NoOrder, Backed
    <3> QED
      BY <1>2, <3>1, <3>2, <3>3, RequestsStayBacked DEF MoneyInv, TransfersBacked
  <2>3. CASE rq[p].row.transfer # "completed" /\ rq[p].row.paymentIntent
    <3>1. /\ transfers' = transfers \cup {[o |-> rq[p].o, key |-> rq[p].o]}
          /\ rq' = [rq EXCEPT ![p] = r]
      BY <2>3 DEF ReleaseSellerFunds, Goto, TransferKey
    <3>2. PaidOut' = PaidOut \cup {rq[p].o}
      <4>1. PaidOut' = {t.o : t \in transfers'}
        BY DEF PaidOut
      <4> DEFINE made == [o |-> rq[p].o, key |-> rq[p].o]
      <4>2. made.o = rq[p].o /\ transfers' = transfers \cup {made}
        BY <3>1
      <4> HIDE DEF made
      <4> QED
        BY <4>1, <4>2 DEF PaidOut
    <3>3. rq[p].o \in Collected
      BY <1>1, <2>3, StepFacts DEF Backed
    <3>4. Backed(r, Collected', PaidOut')
      <4>1. rq[p].o \in PaidOut' /\ rq[p].o \in Collected'
        BY <1>2, <3>2, <3>3
      <4>2. Backed(rq[p], Collected, PaidOut)
        BY <1>1, StepFacts
      <4> HIDE DEF r
      <4> QED
        BY <1>2, <1>3, <4>1, <4>2 DEF Backed
    <3>5. TransfersBacked'
      BY <1>2, <3>1, <3>3 DEF MoneyInv, TransfersBacked
    <3> QED
      BY <1>2, <3>1, <3>2, <3>4, <3>5, RequestsStayBacked
  <2> QED
    BY <2>1, <2>2, <2>3
<1>5. TablesBacked'
  BY <1>1, <1>2, <1>4 DEF MoneyInv, TablesBacked, RowBacked, dbVars
<1> QED
  BY <1>1, <1>2, <1>4, <1>5 DEF MoneyInv, EventsBacked, RefundsBacked, dbVars

\* Money taken back changes neither what was collected nor what was paid out.
LEMMA ReversalBacked ==
    ASSUME TypeInv, MoneyInv, NEW p \in Workers, RecoverSellerLeg(p) \/ ReverseTransfer(p)
    PROVE  MoneyInv'
<1>1. /\ ~At(p, "idle")
      /\ UNCHANGED <<dbVars, session, transfers, refunds, dispute>>
      /\ UNCHANGED events \/ Throw(p)
  BY DEF RecoverSellerLeg, ReverseTransfer, At
<1>2. Collected' = Collected /\ PaidOut' = PaidOut
  BY <1>1 DEF Collected, PaidOut
<1>3. EventsBacked'
  <2>1. UNCHANGED session
    BY <1>1
  <2>2. UNCHANGED events => EventsBacked'
    BY <1>2 DEF MoneyInv, EventsBacked
  <2> QED
    BY <1>1, <2>1, <2>2, ThrowBacked
<1>4. PICK r : Backed(r, Collected, PaidOut) /\ rq' = [rq EXCEPT ![p] = r]
  <2>1. ASSUME NEW step, Goto(p, step),
               \/ rq[p].at = "recover" /\ step = "recovered"
               \/ rq[p].at = "reverse" /\ step = "refund"
        PROVE  \E r : Backed(r, Collected, PaidOut) /\ rq' = [rq EXCEPT ![p] = r]
    <3> DEFINE r == [rq[p] EXCEPT !.at = step]
    <3>1. r.at = step /\ r.o = rq[p].o /\ r.row = rq[p].row /\ r.evt = rq[p].evt
      BY <1>1, StepFacts DEF RequestState
    <3>2. Backed(r, Collected, PaidOut)
      BY <1>1, <2>1, <3>1, StepFacts DEF Backed
    <3> QED
      BY <2>1, <3>2 DEF Goto
  <2>2. Backed(Idle, Collected, PaidOut)
    BY DEF Idle, NoOrder, Backed
  <2>3. \/ Throw(p)
        \/ rq[p].at = "recover" /\ Goto(p, "recovered")
        \/ rq[p].at = "reverse" /\ Goto(p, "refund")
    BY DEF RecoverSellerLeg, ReverseTransfer, At
  <2> QED
    BY <2>1, <2>2, <2>3 DEF Throw, Finish
<1>5. RequestsBacked'
  BY <1>2, <1>4, RequestsStayBacked
<1> QED
  BY <1>1, <1>2, <1>3, <1>5 DEF MoneyInv, TablesBacked, TransfersBacked, RefundsBacked, dbVars

\* A refund is made of a payment the row read had, for a key that has its row in
\* the ledger; rows of the ledger are changed and never taken away.
LEMMA RefundBacked ==
    ASSUME TypeInv, MoneyInv, NEW p \in Workers,
           ClaimRefund(p) \/ CreateRefund(p) \/ UpdateRefund(p)
    PROVE  MoneyInv'
<1>1. /\ ~At(p, "idle") /\ rq[p].at \in RefundSteps \ {"quote"}
      /\ UNCHANGED <<listing, order, session, transfers, reversals, dispute, events>>
  BY DEF ClaimRefund, CreateRefund, UpdateRefund, At, dbVars, providerVars, RefundSteps
<1>2. Collected' = Collected /\ PaidOut' = PaidOut
  BY <1>1 DEF Collected, PaidOut
<1>3. rq[p].key \in RefundKeys /\ rq[p].o \in Orders
  BY <1>1, RequestFacts DEF WellFormed
<1>4. PICK r : Backed(r, Collected, PaidOut) /\ rq' = [rq EXCEPT ![p] = r]
  <2>1. ASSUME NEW step, Goto(p, step),
               \/ step = "record"
               \/ step = "reverse" /\ rq[p].row.paymentIntent
        PROVE  \E r : Backed(r, Collected, PaidOut) /\ rq' = [rq EXCEPT ![p] = r]
    <3> DEFINE r == [rq[p] EXCEPT !.at = step]
    <3>1. r.at = step /\ r.o = rq[p].o /\ r.row = rq[p].row /\ r.evt = rq[p].evt
      BY <1>1, StepFacts DEF RequestState
    <3>2. Backed(r, Collected, PaidOut)
      BY <1>1, <2>1, <3>1, StepFacts DEF Backed
    <3> QED
      BY <2>1, <3>2 DEF Goto
  <2>2. ASSUME NEW s, rq' = [rq EXCEPT ![p].at = "ledger", ![p].outcome = s]
        PROVE  \E r : Backed(r, Collected, PaidOut) /\ rq' = [rq EXCEPT ![p] = r]
    <3> DEFINE r == [rq[p] EXCEPT !.at = "ledger", !.outcome = s]
    <3>1. r.at = "ledger" /\ r.o = rq[p].o /\ r.row = rq[p].row /\ r.evt = rq[p].evt
      BY <1>1, StepFacts DEF RequestState
    <3>2. Backed(r, Collected, PaidOut)
      BY <1>1, <3>1, StepFacts DEF Backed
    <3>3. rq' = [rq EXCEPT ![p] = r]
      BY <2>2 DEF TypeInv, TypeOK
    <3> QED
      BY <3>2, <3>3
  <2>3. Backed(Idle, Collected, PaidOut)
    BY DEF Idle, NoOrder, Backed
  <2> QED
    BY <2>1, <2>2, <2>3 DEF ClaimRefund, CreateRefund, UpdateRefund, Finish
<1>5. RequestsBacked'
  BY <1>2, <1>4, RequestsStayBacked
<1>6. \A o \in Orders, k \in RefundKeys : ledger[o][k] # None => ledger'[o][k] # None
  <2>1. ASSUME NEW entry \in LedgerRow,
               ledger' = [ledger EXCEPT ![rq[p].o][rq[p].key] = entry]
        PROVE  \A o \in Orders, k \in RefundKeys : ledger[o][k] # None => ledger'[o][k] # None
    BY <1>3, <2>1, RowAssumption DEF TypeInv, TypeOK
  <2>2. CASE ClaimRefund(p)
    <3> DEFINE entry == [base |-> rq[p].amount, credited |-> rq[p].credit,
                         full |-> IsFull(p), status |-> "pending"]
    <3>1. rq[p].amount \in Nat \ {0} /\ rq[p].credit \in Nat \ {0} /\ IsFull(p) \in BOOLEAN
      BY <1>1, RequestFacts DEF WellFormed, RequestState, IsFull
    <3>2. entry \in LedgerRow
      BY <3>1 DEF LedgerRow
    <3>3. ledger' = ledger \/ ledger' = [ledger EXCEPT ![rq[p].o][rq[p].key] = entry]
      BY <2>2 DEF ClaimRefund
    <3> HIDE DEF entry
    <3> QED
      BY <2>1, <3>2, <3>3
  <2>3. CASE UpdateRefund(p)
    <3> DEFINE entry == [ledger[rq[p].o][rq[p].key] EXCEPT !.status = rq[p].outcome]
    <3>1. rq[p].outcome \in {"pending", "succeeded"} /\ ledger[rq[p].o][rq[p].key] # None
      BY <1>1, <2>3, RequestFacts DEF UpdateRefund, At, WellFormed, TypeInv, Claimed, ClaimedSteps
    <3>2. entry \in LedgerRow
      <4>1. ledger[rq[p].o][rq[p].key] \in LedgerRow
        BY <1>3, <3>1 DEF TypeInv, TypeOK
      <4> QED
        BY <3>1, <4>1 DEF LedgerRow
    <3>3. ledger' = [ledger EXCEPT ![rq[p].o][rq[p].key] = entry]
      BY <1>3, <2>3 DEF UpdateRefund, TypeInv, TypeOK
    <3> HIDE DEF entry
    <3> QED
      BY <2>1, <3>2, <3>3
  <2>4. CASE CreateRefund(p)
    BY <2>4 DEF CreateRefund, dbVars
  <2> QED
    BY <2>2, <2>3, <2>4
<1>7. RefundsBacked'
  <2>1. CASE UNCHANGED refunds
    BY <1>2, <1>6, <2>1 DEF MoneyInv, RefundsBacked
  <2>2. ASSUME NEW s, CreateRefund(p), refunds' = [refunds EXCEPT ![rq[p].o][rq[p].key] = s]
        PROVE  RefundsBacked'
    <3>1. ledger[rq[p].o][rq[p].key] # None
      BY <2>2 DEF CreateRefund, At, TypeInv, Claimed, ClaimedSteps
    <3>2. rq[p].o \in Collected
      BY <1>1, <2>2, StepFacts DEF CreateRefund, At, Backed
    <3>3. ledger' = ledger
      BY <2>2 DEF CreateRefund, dbVars
    <3> QED
      BY <1>2, <1>3, <2>2, <3>1, <3>2, <3>3 DEF MoneyInv, RefundsBacked, TypeInv, TypeOK
  <2> QED
    BY <2>1, <2>2 DEF ClaimRefund, CreateRefund, UpdateRefund, providerVars
<1> QED
  BY <1>1, <1>2, <1>5, <1>7 DEF MoneyInv, TablesBacked, EventsBacked, TransfersBacked

\* The update after a refund marks a transfer as reversed only where the row read
\* had one.
LEMMA RecordBacked ==
    ASSUME TypeInv, MoneyInv, NEW p \in Workers, RecordRefund(p) PROVE MoneyInv'
<1>1. ~At(p, "idle") /\ rq[p].at \in RefundSteps
  BY DEF RecordRefund, At, RefundSteps
<1> DEFINE status == IF IsFull(p) THEN "refund_pending" ELSE Row(p).status
           transfer == IF ReversalDue(p) <= 0 THEN Row(p).transfer
                       ELSE IF IsFull(p) \/ Proportional(rq[p].row.refundedBase
                                                         + rq[p].amount) >= SellerAmount
                       THEN "reversed" ELSE "partially_reversed"
           row == [Row(p) EXCEPT !.status = status, !.refundKey = rq[p].key,
                       !.refundedBase = rq[p].row.refundedBase + rq[p].amount,
                       !.transfer = transfer]
           next == IF IsFull(p) /\ rq[p].outcome = "succeeded"
                   THEN [Idle EXCEPT !.at = "refunded", !.o = rq[p].o] ELSE Idle
<1>2. UpdateOrder(p, row, next)
  BY DEF RecordRefund
<1>3. Backed(next, Collected, PaidOut)
  BY DEF Idle, NoOrder, Backed
<1>4. transfer # "pending" => Row(p).transfer # "pending" \/ rq[p].o \in PaidOut
  <2>1. ~(ReversalDue(p) <= 0) => rq[p].row.transfer \in {"completed", "partially_reversed"}
    BY DEF ReversalDue
  <2> QED
    BY <1>1, <2>1, StepFacts DEF Backed
<1>5. status = "completed" => Row(p).status = "completed"
  OBVIOUS
<1>6. /\ row.status = status /\ row.transfer = transfer
      /\ row.paymentIntent = Row(p).paymentIntent
  <2> HIDE DEF status, transfer
  <2> QED
    BY <1>1, StepFacts DEF OrderRow
<1> HIDE DEF row, next, status, transfer
<1>7. RowBacked(row, rq[p].o, Collected, PaidOut)
  BY <1>1, <1>4, <1>5, <1>6, StepFacts DEF RowBacked
<1> QED
  BY <1>1, <1>2, <1>3, <1>7, StepFacts, UpdateBacked

-----------------------------------------------------------------------------
\* Every step of the system preserves the money invariant.
LEMMA MoneyInvInductive == TypeInv /\ MoneyInv /\ [Next]_vars => MoneyInv'
<1> SUFFICES ASSUME TypeInv, MoneyInv, [Next]_vars PROVE MoneyInv'
  OBVIOUS
<1>1. ASSUME NEW p \in Workers, Step(p) PROVE MoneyInv'
  BY <1>1, ListingBacked, ReadBacked, InsertBacked, SessionBacked, WriteBacked, FundBacked,
     ChargebackBacked, ReversalBacked, ReleaseBacked, RefundBacked, RecordBacked DEF Step
<1>2. CASE UNCHANGED vars
  BY <1>2 DEF vars, MoneyInv, TablesBacked, RequestsBacked, EventsBacked, TransfersBacked,
              RefundsBacked, Collected, PaidOut
<1> QED
  BY <1>1, <1>2, ReadBacked, TakeEventBacked, ProviderBacked, ReconcileBacked, RequestBacked
     DEF Next

\* At the start no money has moved.
LEMMA MoneyInvInitially == Init => MoneyInv
<1> SUFFICES ASSUME Init PROVE MoneyInv
  OBVIOUS
<1>1. RequestsBacked
  <2>1. Backed(Idle, Collected, PaidOut)
    BY DEF Idle, NoOrder, Backed
  <2> QED
    BY <2>1 DEF Init, RequestsBacked
<1>2. TablesBacked
  BY DEF Init, TablesBacked, RowBacked, NoOrder
<1> QED
  BY <1>1, <1>2 DEF Init, MoneyInv, EventsBacked, TransfersBacked, RefundsBacked

\* The money invariant holds in every reachable state.
LEMMA AlwaysMoneyInv == Spec => []MoneyInv
BY TypeInvInitially, TypeInvInductive, MoneyInvInitially, MoneyInvInductive, PTL DEF Spec

\* releaseSellerFunds never pays a seller for an order whose buyer has not paid,
\* however many confirmations, webhooks and refunds of it overlap.
THEOREM SellersArePaidFromCollectedMoney == Spec => []SellerPaidOnlyFromCollectedMoney
<1>1. MoneyInv => SellerPaidOnlyFromCollectedMoney
  BY DEF MoneyInv, TransfersBacked, Collected, SellerPaidOnlyFromCollectedMoney
<1> QED
  BY <1>1, AlwaysMoneyInv, PTL

\* refundOrder makes a refund only of a collected charge and after its claim in the
\* ledger, whatever other requests do between its steps.
THEOREM RefundsAreBacked == Spec => []RefundsAreClaimedAndCollected
<1>1. MoneyInv => RefundsAreClaimedAndCollected
  BY DEF MoneyInv, RefundsBacked, Collected, RefundsAreClaimedAndCollected
<1> QED
  BY <1>1, AlwaysMoneyInv, PTL

\* An order never says that its seller was paid, and a listing never that it was
\* sold, before the transfer was made, although the statuses are written blindly.
THEOREM PayoutsAreBacked == Spec => []PaidOutIsBackedByTransfer
<1>1. MoneyInv => PaidOutIsBackedByTransfer
  BY DEF MoneyInv, TablesBacked, RowBacked, PaidOut, PaidOutIsBackedByTransfer
<1> QED
  BY <1>1, AlwaysMoneyInv, PTL

-----------------------------------------------------------------------------
\* At most one order of the listing is active.
OneActiveOrder ==
    \A o1, o2 \in Orders :
        order[o1].status \in Active /\ order[o2].status \in Active => o1 = o2

\* A step writes a status into one order only, and an active one only where the
\* index finds no other active order of the listing.
LEMMA OneActiveInductive == TypeOK /\ OneActiveOrder /\ [Next]_vars => OneActiveOrder'
<1> SUFFICES ASSUME TypeOK, OneActiveOrder, [Next]_vars PROVE OneActiveOrder'
  OBVIOUS
<1>1. UNCHANGED order => OneActiveOrder'
  BY DEF OneActiveOrder
<1>2. ASSUME NEW o, NEW row, IndexAllows(o, row.status), order' = [order EXCEPT ![o] = row]
      PROVE  OneActiveOrder'
  BY <1>2 DEF TypeOK, OneActiveOrder, IndexAllows
<1>3. ASSUME NEW p, NEW row, NEW next, UpdateOrder(p, row, next) PROVE OneActiveOrder'
  BY <1>1, <1>2, <1>3 DEF UpdateOrder
<1>4. ASSUME NEW p \in Workers, InsertOrder(p) PROVE OneActiveOrder'
  <2>1. CASE UNCHANGED order
    BY <1>1, <2>1
  <2>2. CASE /\ IndexAllows(rq[p].o, "initiated")
             /\ order' = [order EXCEPT ![rq[p].o].status = "initiated"]
    BY <2>2 DEF TypeOK, OneActiveOrder, IndexAllows, OrderRow
  <2> QED
    BY <1>4, <2>1, <2>2 DEF InsertOrder
<1>5. ASSUME NEW p \in Workers, Step(p) PROVE OneActiveOrder'
  <2>1. \/ UNCHANGED order \/ InsertOrder(p)
        \/ \E row, next : UpdateOrder(p, row, next)
    BY <1>5 DEF Step, FindListing, WriteListing, CompleteEvent, FindCheckout, OpenCheckout,
       SaveSession, ExpireSession, WriteCancelled, Fund, WritePaymentPending,
       WriteRefundFailed, WriteRefunded, RecoverSellerLeg, WriteChargeback,
       RetrieveCheckout, RecheckUnpaid, WriteShipped, WritePinPending, WriteDisputed,
       ReleaseSellerFunds, WriteCompleted, QuoteRefund, ClaimRefund, ReverseTransfer,
       CreateRefund, UpdateRefund, RecordRefund, dbVars
  <2> QED
    BY <1>1, <1>3, <1>4, <2>1
<1>6. (\E p \in Workers : Fail(p)) => UNCHANGED order
  BY DEF Fail, dbVars
<1>7. (\E p \in Requests, e \in events : TakeEvent(p, e)) => UNCHANGED order
  BY DEF TakeEvent, dbVars
<1>8. (\E o \in Orders : Provider(o) \/ ReconcileOrder(o)) => UNCHANGED order
  BY DEF Provider, ReconcileOrder, CustomerPays, SessionExpires, PaysLater, AsyncSettles,
     SessionEnds, NetworkDisputes, RefundSettles, dbVars
<1>9. (\E p \in Requests, o \in Orders : Request(p, o)) => UNCHANGED order
  BY DEF Request, BeginCheckout, CancelUnpaid, MarkShipped, IssueHandoverCode, Confirm,
     OpenDispute, RefundOrder, dbVars
<1>10. UNCHANGED vars => UNCHANGED order
  BY DEF vars
<1> QED
  BY <1>1, <1>5, <1>6, <1>7, <1>8, <1>9, <1>10 DEF Next

-----------------------------------------------------------------------------
(* Claims.  Between claimRefund and the refund at the provider, a request    *)
(* holds a row of the ledger that nobody else holds and that is not spent.   *)

\* The steps of a refund between its quote and its creation at the provider, and
\* those at which its claim is made and its money is not.
QuotedSteps  == {"claim", "reverse", "refund"}
UnspentSteps == {"reverse", "refund"}

Quoted ==
    \A p \in Workers : rq[p].at \in QuotedSteps => rq[p].credit <= TotalCharged

\* A claim that is not spent yet: the ledger says what the request is about to
\* credit, and the provider knows of no refund with its key.
Unspent ==
    \A p \in Workers : rq[p].at \in UnspentSteps =>
        /\ refunds[rq[p].o][rq[p].key] = "none"
        /\ ledger[rq[p].o][rq[p].key].credited = rq[p].credit

\* Two requests never hold the same claim.
Exclusive ==
    \A p, q \in Workers :
        rq[p].at \in UnspentSteps /\ rq[q].at \in UnspentSteps
          /\ rq[p].o = rq[q].o /\ rq[p].key = rq[q].key => p = q

ClaimInv == Quoted /\ Unspent /\ Exclusive

\* The claims of the other requests stay as they are.
OthersKeepClaims(p) ==
    \A q \in Workers \ {p} : rq[q].at \in UnspentSteps =>
        /\ refunds'[rq[q].o][rq[q].key] = refunds[rq[q].o][rq[q].key]
        /\ ledger'[rq[q].o][rq[q].key].credited = ledger[rq[q].o][rq[q].key].credited

\* The claim r holds, if it is at a step that holds one, is unspent and its own.
HoldsClaim(p, r) ==
    /\ r.at \in QuotedSteps => r.credit <= TotalCharged
    /\ r.at \in UnspentSteps =>
         /\ refunds'[r.o][r.key] = "none" /\ ledger'[r.o][r.key].credited = r.credit
         /\ \A q \in Workers \ {p} : rq[q].at \in UnspentSteps => r.o # rq[q].o \/ r.key # rq[q].key

\* A request moves and may change the claim it holds, but none of another request.
LEMMA RequestMovesClaim ==
    ASSUME TypeInv, ClaimInv, NEW p \in Workers, NEW r, rq' = [rq EXCEPT ![p] = r],
           HoldsClaim(p, r), OthersKeepClaims(p)
    PROVE  ClaimInv'
<1>1. \A q \in Workers : rq'[q] = IF q = p THEN r ELSE rq[q]
  BY DEF TypeInv, TypeOK
<1>2. Quoted'
  BY <1>1 DEF ClaimInv, Quoted, HoldsClaim
<1>3. Unspent'
  <2> SUFFICES ASSUME NEW q \in Workers, rq'[q].at \in UnspentSteps
               PROVE  /\ refunds'[rq'[q].o][rq'[q].key] = "none"
                      /\ ledger'[rq'[q].o][rq'[q].key].credited = rq'[q].credit
    BY DEF Unspent
  <2>1. CASE q = p
    BY <1>1, <2>1 DEF HoldsClaim
  <2>2. CASE q # p
    <3>1. rq'[q] = rq[q]
      BY <1>1, <2>2
    <3> QED
      BY <2>2, <3>1 DEF ClaimInv, Unspent, OthersKeepClaims
  <2> QED
    BY <2>1, <2>2
<1>4. Exclusive'
  BY <1>1 DEF ClaimInv, Exclusive, HoldsClaim
<1> QED
  BY <1>2, <1>3, <1>4 DEF ClaimInv

\* A request that leaves or never enters those steps disturbs no claim.
LEMMA RequestLeavesClaims ==
    ASSUME TypeInv, ClaimInv, NEW p \in Workers, NEW r,
           rq' = [rq EXCEPT ![p] = r], r.at \notin QuotedSteps, UNCHANGED <<ledger, refunds>>
    PROVE  ClaimInv'
<1>1. HoldsClaim(p, r) /\ OthersKeepClaims(p)
  BY DEF HoldsClaim, OthersKeepClaims, UnspentSteps, QuotedSteps
<1> QED
  BY <1>1, RequestMovesClaim

\* The steps of a refund that quote, claim, reverse, create and enter it.
RefundStep(p) ==
    QuoteRefund(p) \/ ClaimRefund(p) \/ ReverseTransfer(p) \/ CreateRefund(p) \/ UpdateRefund(p)

\* The other steps of all handlers leave the ledger and the refunds as they are.
LEMMA OtherStepsLeaveClaims ==
    ASSUME TypeInv, NEW p \in Workers, Step(p) \/ Fail(p), ~RefundStep(p)
    PROVE  /\ UNCHANGED <<ledger, refunds>>
           /\ \E r : rq' = [rq EXCEPT ![p] = r] /\ r.at \notin QuotedSteps
<1> DEFINE Moves == \E r : rq' = [rq EXCEPT ![p] = r] /\ r.at \notin QuotedSteps
<1> USE DEF dbVars, providerVars
<1>1. Idle.at \notin QuotedSteps
  BY DEF Idle, QuotedSteps
<1>2. Finish(p) \/ Throw(p) => Moves
  BY <1>1 DEF Throw, Finish
<1>3. ASSUME NEW step, step \notin QuotedSteps, Goto(p, step), ~At(p, "idle") PROVE Moves
  <2>1. [rq[p] EXCEPT !.at = step].at = step
    BY <1>3, RequestFacts DEF RequestState
  <2> QED
    BY <1>3, <2>1 DEF Goto
<1>4. ASSUME NEW row, NEW next, UpdateOrder(p, row, next), next.at \notin QuotedSteps
      PROVE  Moves /\ UNCHANGED <<ledger, refunds>>
  BY <1>2, <1>4 DEF UpdateOrder
<1>5. /\ Done(p).at \notin QuotedSteps
      /\ \A to, from, next : ThenList(p, to, from, next).at \notin QuotedSteps
  BY DEF Done, ThenList, Idle, QuotedSteps
<1>6. ASSUME Resume(p), ~At(p, "idle") PROVE Moves
  <2>1. rq[p].next \in {"idle", "checkout"}
    BY <1>6, RequestFacts DEF RequestState
  <2>2. [Idle EXCEPT !.at = rq[p].next, !.o = rq[p].o].at \notin QuotedSteps
    BY <2>1 DEF Idle, QuotedSteps
  <2> QED
    BY <1>5, <1>6, <2>2 DEF Resume
<1>7. CASE FindListing(p) \/ WriteListing(p) \/ CompleteEvent(p) \/ FindCheckout(p)
           \/ OpenCheckout(p) \/ ExpireSession(p) \/ RetrieveCheckout(p) \/ RecheckUnpaid(p)
           \/ ReleaseSellerFunds(p) \/ RecoverSellerLeg(p) \/ Fail(p)
  <2>1. UNCHANGED <<ledger, refunds>> /\ ~At(p, "idle")
    BY <1>7 DEF FindListing, WriteListing, CompleteEvent, FindCheckout, OpenCheckout,
       ExpireSession, RetrieveCheckout, RecheckUnpaid, ReleaseSellerFunds, RecoverSellerLeg,
       Fail, At
  <2>2. \/ Finish(p) \/ Throw(p) \/ Resume(p)
        \/ \E step \in {"list-write", "insert", "checkout", "save-session", "cancel", "fund",
                        "recheck", "pend", "completed", "recovered"} : Goto(p, step)
    BY <1>7 DEF FindListing, WriteListing, CompleteEvent, FindCheckout, OpenCheckout,
       ExpireSession, RetrieveCheckout, RecheckUnpaid, ReleaseSellerFunds, RecoverSellerLeg,
       Fail
  <2> QED
    BY <1>2, <1>3, <1>6, <2>1, <2>2 DEF QuotedSteps
<1>8. CASE InsertOrder(p)
  BY <1>2, <1>5, <1>8 DEF InsertOrder
<1>9. CASE SaveSession(p) \/ WriteCancelled(p) \/ Fund(p) \/ WritePaymentPending(p)
           \/ WriteRefundFailed(p) \/ WriteRefunded(p) \/ WriteChargeback(p)
           \/ WriteShipped(p) \/ WritePinPending(p) \/ WriteDisputed(p) \/ WriteCompleted(p)
  BY <1>1, <1>4, <1>5, <1>9 DEF SaveSession, WriteCancelled, Fund, WritePaymentPending,
     WriteRefundFailed, WriteRefunded, WriteChargeback, WriteShipped, WritePinPending,
     WriteDisputed, WriteCompleted
<1>10. CASE RecordRefund(p)
  <2>1. PICK row, next : UpdateOrder(p, row, next)
                         /\ next \in {[Idle EXCEPT !.at = "refunded", !.o = rq[p].o], Idle}
    BY <1>10 DEF RecordRefund
  <2>2. /\ [Idle EXCEPT !.at = "refunded", !.o = rq[p].o].at = "refunded"
        /\ Idle.at = "idle"
    BY DEF Idle
  <2> QED
    <3>1. next.at \in {"refunded", "idle"}
      BY <2>1, <2>2
    <3> QED
      BY <1>4, <2>1, <3>1 DEF QuotedSteps
<1> QED
  BY <1>7, <1>8, <1>9, <1>10 DEF Step, RefundStep

\* The steps of a refund: it takes a claim nobody holds, and spends only its own.
LEMMA RefundStepKeepsClaims ==
    ASSUME TypeInv, MoneyInv, ClaimInv, NEW p \in Workers, RefundStep(p)
    PROVE  ClaimInv'
<1> DEFINE o == rq[p].o
           k == rq[p].key
<1>1. /\ rq[p].at \in RefundSteps /\ rq[p] \in RequestState
      /\ o \in Orders /\ k \in RefundKeys
  <2>1. rq[p].at \in RefundSteps /\ ~At(p, "idle")
    BY DEF RefundStep, QuoteRefund, ClaimRefund, ReverseTransfer, CreateRefund, UpdateRefund,
           At, RefundSteps
  <2> QED
    BY <2>1, RequestFacts DEF WellFormed
<1>2. /\ ledger \in [Orders -> [RefundKeys -> LedgerRow \cup {None}]]
      /\ refunds \in [Orders -> [RefundKeys -> {"none", "pending", "succeeded", "failed"}]]
  BY DEF TypeInv, TypeOK
<1>3. Idle.at \notin QuotedSteps
  BY DEF Idle, QuotedSteps
<1>4. ASSUME NEW q \in Workers \ {p}, rq[q].at \in UnspentSteps
      PROVE  rq[q].o \in Orders /\ rq[q].key \in RefundKeys /\ ledger[rq[q].o][rq[q].key] # None
  <2>1. rq[q].at \in ClaimedSteps /\ rq[q].at \in RefundSteps /\ ~At(q, "idle")
    BY <1>4 DEF UnspentSteps, ClaimedSteps, RefundSteps, At
  <2> QED
    BY <2>1, RequestFacts DEF WellFormed, TypeInv, Claimed
<1>5. CASE QuoteRefund(p)
  <2>1. UNCHANGED <<ledger, refunds>>
    BY <1>5 DEF QuoteRefund, dbVars, providerVars
  <2> DEFINE credit == IF IsFull(p) THEN TotalCharged - Credited(o) ELSE rq[p].amount
             r == [rq[p] EXCEPT !.at = "claim", !.credit = credit]
  <2>2. CASE credit \in 1 .. TotalCharged
    <3>1. rq' = [rq EXCEPT ![p] = r]
      BY <1>5, <2>2 DEF QuoteRefund
    <3> HIDE DEF credit
    <3>2. r.at = "claim" /\ r.credit = credit /\ credit <= TotalCharged
      BY <1>1, <2>2, OrdersAssumption DEF RequestState, TotalCharged
    <3>3. HoldsClaim(p, r) /\ OthersKeepClaims(p)
      <4> HIDE DEF r
      <4> QED
        BY <2>1, <3>2 DEF HoldsClaim, OthersKeepClaims, UnspentSteps
    <3> QED
      BY <3>1, <3>3, RequestMovesClaim
  <2>3. CASE credit \notin 1 .. TotalCharged
    <3>1. rq' = [rq EXCEPT ![p] = Idle]
      BY <1>5, <2>3 DEF QuoteRefund
    <3> QED
      BY <1>3, <2>1, <3>1, RequestLeavesClaims
  <2> QED
    BY <2>2, <2>3
<1>6. CASE ClaimRefund(p)
  <2>1. UNCHANGED refunds
    BY <1>6 DEF ClaimRefund, providerVars
  <2> DEFINE entry == [base |-> rq[p].amount, credited |-> rq[p].credit,
                       full |-> IsFull(p), status |-> "pending"]
             r == [rq[p] EXCEPT !.at = "reverse"]
  <2>2. CASE ledger[o][k] # None
    BY <1>3, <1>6, <2>1, <2>2, RequestLeavesClaims DEF ClaimRefund, Finish
  <2>3. CASE ledger[o][k] = None
    <3>1. ledger' = [ledger EXCEPT ![o][k] = entry] /\ entry.credited = rq[p].credit
      BY <1>6, <2>3 DEF ClaimRefund
    <3>2. \/ rq' = [rq EXCEPT ![p] = r]
          \/ rq' = [rq EXCEPT ![p] = Idle]
      BY <1>6, <2>3 DEF ClaimRefund, Goto, Finish
    <3> HIDE DEF entry
    <3>3. ledger'[o][k].credited = rq[p].credit
      BY <1>1, <1>2, <3>1
    <3>4. ASSUME NEW q \in Workers \ {p}, rq[q].at \in UnspentSteps
          PROVE  /\ ledger'[rq[q].o][rq[q].key] = ledger[rq[q].o][rq[q].key]
                 /\ o # rq[q].o \/ k # rq[q].key
      BY <1>1, <1>2, <1>4, <2>3, <3>1, <3>4
    <3>5. refunds[o][k] = "none"
      BY <1>1, <2>3 DEF MoneyInv, RefundsBacked
    <3>6. rq[p].credit <= TotalCharged
      BY <1>6 DEF ClaimRefund, At, ClaimInv, Quoted, QuotedSteps
    <3>7. r.at = "reverse" /\ r.o = o /\ r.key = k /\ r.credit = rq[p].credit
      BY <1>1 DEF RequestState
    <3> HIDE DEF r
    <3>8. OthersKeepClaims(p)
      BY <2>1, <3>4 DEF OthersKeepClaims
    <3>9. HoldsClaim(p, r) /\ HoldsClaim(p, Idle)
      BY <1>3, <2>1, <3>3, <3>4, <3>5, <3>6, <3>7 DEF HoldsClaim, UnspentSteps, QuotedSteps
    <3> QED
      BY <3>2, <3>8, <3>9, RequestMovesClaim
  <2> QED
    BY <2>2, <2>3
<1>7. CASE ReverseTransfer(p)
  <2>1. UNCHANGED <<ledger, refunds>> /\ rq[p].at = "reverse"
    BY <1>7 DEF ReverseTransfer, dbVars, At
  <2> DEFINE r == [rq[p] EXCEPT !.at = "refund"]
  <2>2. rq' = [rq EXCEPT ![p] = r] \/ rq' = [rq EXCEPT ![p] = Idle]
    BY <1>7 DEF ReverseTransfer, Goto, Throw, Finish
  <2>3. r.at = "refund" /\ r.o = o /\ r.key = k /\ r.credit = rq[p].credit
    BY <1>1 DEF RequestState
  <2> HIDE DEF r
  <2>4. CASE rq' = [rq EXCEPT ![p] = r]
    <3>1. /\ rq[p].credit <= TotalCharged
          /\ refunds[o][k] = "none" /\ ledger[o][k].credited = rq[p].credit
      BY <2>1 DEF ClaimInv, Quoted, Unspent, QuotedSteps, UnspentSteps
    <3>2. \A q \in Workers \ {p} : rq[q].at \in UnspentSteps => o # rq[q].o \/ k # rq[q].key
      BY <2>1 DEF ClaimInv, Exclusive, UnspentSteps
    <3>3. HoldsClaim(p, r) /\ OthersKeepClaims(p)
      BY <2>1, <2>3, <3>1, <3>2 DEF HoldsClaim, OthersKeepClaims
    <3> QED
      BY <2>4, <3>3, RequestMovesClaim
  <2>5. CASE rq' = [rq EXCEPT ![p] = Idle]
    BY <1>3, <2>1, <2>5, RequestLeavesClaims
  <2> QED
    BY <2>2, <2>4, <2>5
<1>8. CASE CreateRefund(p)
  <2>1. UNCHANGED ledger /\ rq[p].at = "refund"
    BY <1>8 DEF CreateRefund, dbVars, At
  <2>2. ASSUME NEW s, refunds' = [refunds EXCEPT ![o][k] = s],
               rq' = [rq EXCEPT ![p].at = "ledger", ![p].outcome = s]
        PROVE  ClaimInv'
    <3> DEFINE r == [rq[p] EXCEPT !.at = "ledger", !.outcome = s]
    <3>1. rq' = [rq EXCEPT ![p] = r]
      BY <2>2 DEF TypeInv, TypeOK
    <3>2. r.at = "ledger"
      BY <1>1 DEF RequestState
    <3> HIDE DEF r
    <3>3. ASSUME NEW q \in Workers \ {p}, rq[q].at \in UnspentSteps
          PROVE  refunds'[rq[q].o][rq[q].key] = refunds[rq[q].o][rq[q].key]
      <4>1. o # rq[q].o \/ k # rq[q].key
        BY <2>1, <3>3 DEF ClaimInv, Exclusive, UnspentSteps
      <4> QED
        BY <1>1, <1>2, <1>4, <2>2, <3>3, <4>1
    <3>4. HoldsClaim(p, r) /\ OthersKeepClaims(p)
      BY <2>1, <3>2, <3>3 DEF HoldsClaim, OthersKeepClaims, UnspentSteps, QuotedSteps
    <3> QED
      BY <3>1, <3>4, RequestMovesClaim
  <2>3. CASE Finish(p) /\ UNCHANGED refunds
    BY <1>3, <2>1, <2>3, RequestLeavesClaims DEF Finish
  <2> QED
    BY <1>8, <2>2, <2>3 DEF CreateRefund
<1>9. CASE UpdateRefund(p)
  <2>1. UNCHANGED refunds /\ rq[p].at = "ledger"
    BY <1>9 DEF UpdateRefund, providerVars, At
  <2> DEFINE r == [rq[p] EXCEPT !.at = "record"]
  <2>2. rq' = [rq EXCEPT ![p] = r] /\ r.at = "record"
    BY <1>1, <1>9 DEF UpdateRefund, Goto, RequestState
  <2> HIDE DEF r
  <2>3. ASSUME NEW q \in Workers \ {p}, rq[q].at \in UnspentSteps
        PROVE  ledger'[rq[q].o][rq[q].key].credited = ledger[rq[q].o][rq[q].key].credited
    BY <1>1, <1>2, <1>4, <1>9, <2>3 DEF UpdateRefund, LedgerRow
  <2>4. HoldsClaim(p, r) /\ OthersKeepClaims(p)
    BY <2>1, <2>2, <2>3 DEF HoldsClaim, OthersKeepClaims, UnspentSteps, QuotedSteps
  <2> QED
    BY <2>2, <2>4, RequestMovesClaim
<1> QED
  BY <1>5, <1>6, <1>7, <1>8, <1>9 DEF RefundStep

\* Requests and events that come in hold no claim, and the provider settles only
\* refunds that were made.
LEMMA OthersKeepTheClaims ==
    ASSUME TypeInv, ClaimInv,
           \/ \E p \in Requests, e \in events : TakeEvent(p, e)
           \/ \E o \in Orders : Provider(o) \/ ReconcileOrder(o)
           \/ \E p \in Requests, o \in Orders : Request(p, o)
    PROVE  ClaimInv'
<1> USE DEF dbVars, providerVars
<1>1. ASSUME UNCHANGED <<rq, ledger, refunds>> PROVE ClaimInv'
  BY <1>1 DEF ClaimInv, Quoted, Unspent, Exclusive
<1>2. Requests \subseteq Workers /\ Reconciler \in Workers
  BY DEF Workers
<1>3. ASSUME NEW p \in Requests, NEW e \in events, TakeEvent(p, e) PROVE ClaimInv'
  <2>1. UNCHANGED <<ledger, refunds>>
    BY <1>3 DEF TakeEvent
  <2>2. CASE Refused(e)
    BY <1>1, <1>3, <2>1, <2>2 DEF TakeEvent
  <2>3. CASE ~Refused(e)
    <3> DEFINE r == [Idle EXCEPT !.at = FirstStep(e), !.o = e.o, !.evt = e]
    <3>1. rq' = [rq EXCEPT ![p] = r]
      BY <1>3, <2>3 DEF TakeEvent
    <3>2. FirstStep(e) \notin QuotedSteps
      BY DEF FirstStep, EventStep, QuotedSteps
    <3>3. r.at = FirstStep(e)
      BY DEF Idle
    <3> QED
      BY <1>2, <2>1, <3>1, <3>2, <3>3, RequestLeavesClaims
  <2> QED
    BY <2>2, <2>3
<1>4. ASSUME NEW o \in Orders, Provider(o) PROVE ClaimInv'
  <2>1. UNCHANGED <<rq, ledger>>
    BY <1>4 DEF Provider, CustomerPays, SessionExpires, PaysLater, AsyncSettles, SessionEnds,
         NetworkDisputes, RefundSettles
  <2>2. ASSUME NEW k \in RefundKeys, RefundSettles(o, k) PROVE ClaimInv'
    <3>1. PICK s : refunds' = [refunds EXCEPT ![o][k] = s]
      BY <2>2 DEF RefundSettles
    <3>2. ASSUME NEW p \in Workers, rq[p].at \in UnspentSteps
          PROVE  refunds'[rq[p].o][rq[p].key] = refunds[rq[p].o][rq[p].key]
      <4>1. rq[p].o # o \/ rq[p].key # k
        BY <2>2, <3>2 DEF ClaimInv, Unspent, RefundSettles
      <4>2. rq[p].o \in Orders /\ rq[p].key \in RefundKeys
        BY <3>2, RequestFacts DEF UnspentSteps, RefundSteps, At, WellFormed
      <4> QED
        BY <3>1, <4>1, <4>2 DEF TypeInv, TypeOK
    <3> QED
      BY <2>1, <3>2 DEF ClaimInv, Quoted, Unspent, Exclusive
  <2>3. ASSUME ~\E k \in RefundKeys : RefundSettles(o, k) PROVE UNCHANGED refunds
    BY <1>4, <2>3 DEF Provider, CustomerPays, SessionExpires, PaysLater, AsyncSettles,
       SessionEnds, NetworkDisputes
  <2> QED
    BY <1>1, <2>1, <2>2, <2>3
<1>5. ASSUME NEW p \in Workers, NEW o \in Orders, NEW step \in Steps \ QuotedSteps,
             Begin(p, step, o), UNCHANGED <<ledger, refunds>>
      PROVE  ClaimInv'
  <2>1. [Idle EXCEPT !.at = step, !.o = o].at = step
    BY DEF Idle
  <2> QED
    BY <1>5, <2>1, RequestLeavesClaims DEF Begin
<1>6. {"retrieve", "recheck", "find", "expire", "cancel", "ship", "issue", "dispute"}
        \subseteq Steps \ QuotedSteps
  BY DEF Steps, QuotedSteps
<1>7. ASSUME NEW o \in Orders, ReconcileOrder(o) PROVE ClaimInv'
  BY <1>2, <1>5, <1>6, <1>7 DEF ReconcileOrder
<1>8. ASSUME NEW p \in Requests, NEW o \in Orders, Request(p, o) PROVE ClaimInv'
  <2>1. CASE Confirm(p, o)
    <3>1. [Idle EXCEPT !.at = "release", !.o = o, !.row = order[o]].at \notin QuotedSteps
      BY DEF Idle, QuotedSteps
    <3> QED
      BY <1>2, <2>1, <3>1, RequestLeavesClaims DEF Confirm
  <2>2. ASSUME NEW k \in RefundKeys, NEW base \in 1 .. ItemAmount, RefundOrder(p, o, k, base)
        PROVE  ClaimInv'
    <3>1. [Idle EXCEPT !.at = "quote", !.o = o, !.row = order[o], !.key = k,
                       !.amount = base].at \notin QuotedSteps
      BY DEF Idle, QuotedSteps
    <3> QED
      BY <1>2, <2>2, <3>1, RequestLeavesClaims DEF RefundOrder
  <2> QED
    BY <1>2, <1>5, <1>6, <1>8, <2>1, <2>2 DEF Request, BeginCheckout, CancelUnpaid,
       MarkShipped, IssueHandoverCode, OpenDispute
<1> QED
  BY <1>3, <1>4, <1>7, <1>8

\* Every step keeps the claims.
LEMMA ClaimInvInductive == TypeInv /\ MoneyInv /\ ClaimInv /\ [Next]_vars => ClaimInv'
<1> SUFFICES ASSUME TypeInv, MoneyInv, ClaimInv, [Next]_vars PROVE ClaimInv'
  OBVIOUS
<1>1. ASSUME NEW p \in Workers, Step(p) \/ Fail(p) PROVE ClaimInv'
  BY <1>1, RefundStepKeepsClaims, OtherStepsLeaveClaims, RequestLeavesClaims
<1>2. CASE UNCHANGED vars
  BY <1>2 DEF vars, ClaimInv, Quoted, Unspent, Exclusive
<1> QED
  BY <1>1, <1>2, OthersKeepTheClaims DEF Next

\* The types, the money and the claims, in every reachable state.
LEMMA AlwaysClaimInv == Spec => [](TypeInv /\ MoneyInv /\ ClaimInv)
<1>1. Init => ClaimInv
  BY DEF Init, Idle, ClaimInv, Quoted, Unspent, Exclusive, QuotedSteps, UnspentSteps
<1> QED
  BY <1>1, ClaimInvInductive, TypeInvInitially, TypeInvInductive, MoneyInvInitially,
     MoneyInvInductive, PTL DEF Spec

-----------------------------------------------------------------------------
(* The escrow account.                                                     *)

\* The account as the tables and the provider's objects have it.
PaidTo == [o \in Orders |-> SellerAmount * Cardinality({t \in transfers : t.o = o})]

CreditedTo ==
    [o \in Orders |-> [k \in RefundKeys |->
        IF refunds[o][k] \in {"pending", "succeeded"} THEN ledger[o][k].credited ELSE 0]]

\* The instance brings its own copy of the community operator.
LEMMA SameSum == ASSUME NEW f PROVE Escrow!SumFunction(f) = SumFunction(f)
BY DEF SumFunction, SumFunctionOnSet, FoldFunctionOnSet, MapThenFoldSet,
       Escrow!SumFunction, Escrow!SumFunctionOnSet, Escrow!FoldFunctionOnSet,
       Escrow!MapThenFoldSet

\* The operations of the account, read in those terms.
LEMMA TheOperations ==
    ASSUME NEW o, NEW k, NEW amount
    PROVE  /\ o \notin Collected /\ Collected' = Collected \cup {o}
              /\ UNCHANGED <<PaidTo, CreditedTo, reversals>>
              => Escrow!Collect(o)
           /\ o \in Collected /\ PaidTo[o] = 0
              /\ PaidTo' = [PaidTo EXCEPT ![o] = SellerAmount]
              /\ UNCHANGED <<Collected, CreditedTo, reversals>>
              => Escrow!PayOut(o)
           /\ o \in Collected /\ CreditedTo[o][k] = 0
              /\ SumFunction(CreditedTo[o]) + amount <= TotalCharged
              /\ CreditedTo' = [CreditedTo EXCEPT ![o][k] = amount]
              /\ UNCHANGED <<Collected, PaidTo, reversals>>
              => Escrow!Credit(o, k, amount)
           /\ CreditedTo[o][k] # 0
              /\ CreditedTo' = [CreditedTo EXCEPT ![o][k] = 0]
              /\ UNCHANGED <<Collected, PaidTo, reversals>>
              => Escrow!Bounce(o, k)
           /\ reversals[o][k] = 0
              /\ SumFunction(reversals[o]) + amount <= PaidTo[o]
              /\ reversals' = [reversals EXCEPT ![o][k] = amount]
              /\ UNCHANGED <<Collected, PaidTo, CreditedTo>>
              => Escrow!TakeBack(o, k, amount)
<1> USE DEF Collected, PaidTo, CreditedTo
<1>1. o \notin Collected /\ Collected' = Collected \cup {o}
        /\ UNCHANGED <<PaidTo, CreditedTo, reversals>> => Escrow!Collect(o)
  BY DEF Escrow!Collect
<1>2. o \in Collected /\ PaidTo[o] = 0
        /\ PaidTo' = [PaidTo EXCEPT ![o] = SellerAmount]
        /\ UNCHANGED <<Collected, CreditedTo, reversals>> => Escrow!PayOut(o)
  BY DEF Escrow!PayOut
<1>3. o \in Collected /\ CreditedTo[o][k] = 0
        /\ SumFunction(CreditedTo[o]) + amount <= TotalCharged
        /\ CreditedTo' = [CreditedTo EXCEPT ![o][k] = amount]
        /\ UNCHANGED <<Collected, PaidTo, reversals>> => Escrow!Credit(o, k, amount)
  BY SameSum DEF Escrow!Credit
<1>4. CreditedTo[o][k] # 0 /\ CreditedTo' = [CreditedTo EXCEPT ![o][k] = 0]
        /\ UNCHANGED <<Collected, PaidTo, reversals>> => Escrow!Bounce(o, k)
  BY DEF Escrow!Bounce
<1>5. reversals[o][k] = 0 /\ SumFunction(reversals[o]) + amount <= PaidTo[o]
        /\ reversals' = [reversals EXCEPT ![o][k] = amount]
        /\ UNCHANGED <<Collected, PaidTo, CreditedTo>> => Escrow!TakeBack(o, k, amount)
  BY SameSum DEF Escrow!TakeBack
<1> QED
  BY <1>1, <1>2, <1>3, <1>4, <1>5

\* What a seller was paid is all or nothing.
LEMMA PaidOnce ==
    ASSUME TypeInv, MoneyInv, NEW o \in Orders
    PROVE  PaidTo[o] = IF \E t \in transfers : t.o = o THEN SellerAmount ELSE 0
<1> DEFINE made == {t \in transfers : t.o = o}
<1>1. \A t \in made : t = [o |-> o, key |-> o]
  BY DEF TypeInv, TypeOK, MoneyInv, TransfersBacked
<1>2. PaidTo[o] = SellerAmount * Cardinality(made) /\ SellerAmount \in Nat
  BY OrdersAssumption DEF PaidTo
<1>3. CASE \E t \in transfers : t.o = o
  <2>1. made = {[o |-> o, key |-> o]}
    BY <1>1, <1>3
  <2> HIDE DEF made
  <2>2. Cardinality(made) = 1
    BY <2>1, FS_Singleton
  <2> QED
    BY <1>2, <1>3, <2>2
<1>4. CASE ~\E t \in transfers : t.o = o
  <2>1. Cardinality(made) = 0
    BY <1>4, FS_EmptySet
  <2> HIDE DEF made
  <2> QED
    BY <1>2, <1>4, <2>1
<1> QED
  BY <1>3, <1>4

\* Every amount that was reversed is a number, and so is their sum.
LEMMA ReversedType ==
    ASSUME TypeInv, NEW o \in Orders PROVE Reversed(o) \in Nat
<1>1. IsFiniteSet(ReversalKeys)
  BY OrdersAssumption, FS_AddElement DEF ReversalKeys
<1>2. reversals[o] \in [ReversalKeys -> Nat]
  BY DEF TypeInv, TypeOK
<1> QED
  BY <1>1, <1>2, SumNat DEF Reversed

\* A step that touches no money leaves the account as it is.
LEMMA AccountStands ==
    ASSUME Collected' = Collected, UNCHANGED <<ledger, transfers, reversals, refunds>>
    PROVE  UNCHANGED Escrow!account
<1>1. PaidTo' = PaidTo /\ CreditedTo' = CreditedTo
  BY DEF PaidTo, CreditedTo
<1> QED
  BY <1>1 DEF Escrow!account, Collected, PaidTo, CreditedTo

\* A reversal takes money back from the seller once per key, and never more than
\* was transferred.
LEMMA ReversalTakesBack ==
    ASSUME TypeInv, MoneyInv, NEW o \in Orders, NEW k \in ReversalKeys, NEW amount \in Nat \ {0},
           MayReverse(o, k, amount), Reverse(o, k, amount),
           UNCHANGED <<session, transfers, refunds, ledger>>
    PROVE  [Escrow!Next]_(Escrow!account)
<1>1. reversals \in [Orders -> [ReversalKeys -> Nat]]
  BY DEF TypeInv, TypeOK
<1>2. Collected' = Collected /\ PaidTo' = PaidTo /\ CreditedTo' = CreditedTo
  BY DEF Collected, PaidTo, CreditedTo
<1>3. CASE reversals[o][k] # 0
  <2>1. reversals' = reversals
    BY <1>1, <1>3 DEF Reverse
  <2> QED
    BY <1>2, <2>1, AccountStands
<1>4. CASE reversals[o][k] = 0
  <2>1. Reversed(o) + amount <= SellerAmount /\ \E t \in transfers : t.o = o
    BY <1>4 DEF MayReverse
  <2>2. SumFunction(reversals[o]) + amount <= PaidTo[o]
    BY <2>1, PaidOnce DEF Reversed
  <2>3. reversals' = [reversals EXCEPT ![o][k] = amount]
    BY <1>1, <1>4 DEF Reverse
  <2>4. amount \in 1 .. SellerAmount
    BY <2>1, ReversedType, OrdersAssumption
  <2>5. Escrow!TakeBack(o, k, amount)
    BY <1>2, <1>4, <2>2, <2>3, TheOperations
  <2> QED
    BY <2>4, <2>5 DEF Escrow!Next
<1> QED
  BY <1>3, <1>4

\* releaseSellerFunds pays the seller of a collected order, once.
LEMMA ReleasePaysOut ==
    ASSUME TypeInv, MoneyInv, NEW p \in Workers, ReleaseSellerFunds(p),
           TypeInv', MoneyInv'
    PROVE  [Escrow!Next]_(Escrow!account)
<1> DEFINE o == rq[p].o
           made == [o |-> o, key |-> o]
<1>1. ~At(p, "idle") /\ UNCHANGED <<ledger, session, reversals, refunds>>
  BY DEF ReleaseSellerFunds, At, dbVars
<1>2. Collected' = Collected /\ CreditedTo' = CreditedTo
  BY <1>1 DEF Collected, CreditedTo
<1>3. o \in Orders /\ Backed(rq[p], Collected, PaidOut)
  BY <1>1, StepFacts
<1>4. CASE transfers' = transfers
  BY <1>1, <1>2, <1>4, AccountStands
<1>5. CASE transfers' # transfers
  <2>1. transfers' = transfers \cup {made} /\ rq[p].row.paymentIntent
    BY <1>5 DEF ReleaseSellerFunds, TransferKey
  <2>2. o \in Collected
    BY <1>3, <2>1 DEF Backed
  <2>3. ~\E t \in transfers : t.o = o
    <3>1. \A t \in transfers : t.o = o => t = made
      BY DEF TypeInv, TypeOK, MoneyInv, TransfersBacked
    <3> QED
      BY <1>5, <2>1, <3>1
  <2>4. PaidTo[o] = 0
    BY <1>3, <2>3, PaidOnce
  <2>5. PaidTo' = [PaidTo EXCEPT ![o] = SellerAmount]
    <3>1. made \in transfers' /\ made.o = o
      BY <2>1
    <3>2. SellerAmount * Cardinality({t \in transfers' : t.o = o}) = SellerAmount
      <4>1. {t \in transfers' : t.o = o} = {made}
        BY <2>1, <2>3, <3>1
      <4>2. Cardinality({made}) = 1
        BY FS_Singleton
      <4>3. SellerAmount * 1 = SellerAmount
        BY OrdersAssumption
      <4> HIDE DEF made, o
      <4> QED
        BY <4>1, <4>2, <4>3
    <3>3. ASSUME NEW x \in Orders \ {o} PROVE {t \in transfers' : t.o = x} = {t \in transfers : t.o = x}
      BY <2>1, <3>1, <3>3
    <3> QED
      BY <3>2, <3>3 DEF PaidTo
  <2>6. Escrow!PayOut(o)
    BY <1>1, <1>2, <2>2, <2>4, <2>5, TheOperations
  <2> QED
    BY <1>3, <2>6 DEF Escrow!Next
<1> QED
  BY <1>4, <1>5

\* CreateRefund credits the buyer with what its claim says, within the charge.
LEMMA CreationCredits ==
    ASSUME TypeInv, MoneyInv, ClaimInv, NEW p \in Workers, CreateRefund(p)
    PROVE  [Escrow!Next]_(Escrow!account)
<1> SUFFICES ASSUME NEW o, NEW k, NEW amount,
                    o = rq[p].o, k = rq[p].key, amount = rq[p].credit
             PROVE  [Escrow!Next]_(Escrow!account)
  OBVIOUS
<1>1. rq[p].at = "refund" /\ UNCHANGED <<ledger, session, transfers, reversals>>
  BY DEF CreateRefund, At, dbVars
<1>2. /\ o \in Orders /\ k \in RefundKeys /\ amount \in Nat \ {0} /\ amount <= TotalCharged
  BY <1>1, RequestFacts DEF At, WellFormed, RefundSteps, RequestState, ClaimInv, Quoted,
     QuotedSteps
<1>3. refunds[o][k] = "none" /\ ledger[o][k].credited = amount
  BY <1>1 DEF ClaimInv, Unspent, UnspentSteps
<1>4. o \in Collected
  BY <1>1, StepFacts DEF At, Backed
<1>5. Collected' = Collected /\ PaidTo' = PaidTo
  BY <1>1 DEF Collected, PaidTo
<1>6. CASE UNCHANGED refunds
  BY <1>1, <1>5, <1>6, AccountStands
<1>7. ASSUME NEW s \in {"pending", "succeeded"}, refunds' = [refunds EXCEPT ![o][k] = s],
             RefundedAtProvider(o) + amount <= TotalCharged
      PROVE  [Escrow!Next]_(Escrow!account)
  <2>1. CreditedTo[o][k] = 0 /\ SumFunction(CreditedTo[o]) = RefundedAtProvider(o)
    BY <1>2, <1>3 DEF CreditedTo, RefundedAtProvider
  <2>2. CreditedTo' = [CreditedTo EXCEPT ![o][k] = amount]
    <3> DEFINE credits(x) == [y \in RefundKeys |->
                 IF refunds'[x][y] \in {"pending", "succeeded"} THEN ledger[x][y].credited ELSE 0]
    <3>1. CreditedTo' = [x \in Orders |-> credits(x)]
      BY <1>1 DEF CreditedTo
    <3>2. ASSUME NEW x \in Orders, x # o PROVE credits(x) = CreditedTo[x]
      BY <1>2, <1>7, <3>2 DEF CreditedTo, TypeInv, TypeOK
    <3>3. credits(o) = [CreditedTo[o] EXCEPT ![k] = amount]
      BY <1>2, <1>3, <1>7 DEF CreditedTo, TypeInv, TypeOK
    <3>4. CreditedTo = [x \in Orders |-> CreditedTo[x]]
      BY DEF CreditedTo
    <3> HIDE DEF credits
    <3> QED
      BY <1>2, <3>1, <3>2, <3>3, <3>4
  <2>3. Escrow!Credit(o, k, amount)
    BY <1>1, <1>4, <1>5, <1>7, <2>1, <2>2, TheOperations
  <2>4. amount \in 1 .. TotalCharged
    BY <1>2, OrdersAssumption DEF TotalCharged
  <2> QED
    BY <1>2, <2>3, <2>4 DEF Escrow!Next
<1> QED
  BY <1>6, <1>7 DEF CreateRefund

\* A refund that fails at the provider takes the credit back.
LEMMA FailureBounces ==
    ASSUME TypeInv, MoneyInv, NEW o \in Orders, NEW k \in RefundKeys, RefundSettles(o, k)
    PROVE  [Escrow!Next]_(Escrow!account)
<1>1. PICK s \in {"succeeded", "failed"} : refunds' = [refunds EXCEPT ![o][k] = s]
  BY DEF RefundSettles
<1>2. refunds[o][k] = "pending" /\ UNCHANGED <<ledger, session, transfers, reversals>>
  BY DEF RefundSettles, dbVars
<1>3. Collected' = Collected /\ PaidTo' = PaidTo
  BY <1>2 DEF Collected, PaidTo
<1> DEFINE credits(x) == [y \in RefundKeys |->
             IF refunds'[x][y] \in {"pending", "succeeded"} THEN ledger[x][y].credited ELSE 0]
<1>4. CreditedTo' = [x \in Orders |-> credits(x)]
  BY <1>2 DEF CreditedTo
<1>5. ASSUME NEW x \in Orders, x # o PROVE credits(x) = CreditedTo[x]
  BY <1>1, <1>5 DEF CreditedTo, TypeInv, TypeOK
<1>6. CASE s = "succeeded"
  <2>1. credits(o) = CreditedTo[o]
    BY <1>1, <1>2, <1>6 DEF CreditedTo, TypeInv, TypeOK
  <2> HIDE DEF credits
  <2>2. CreditedTo' = CreditedTo
    BY <1>4, <1>5, <2>1 DEF CreditedTo
  <2> QED
    BY <1>2, <1>3, <2>2 DEF Escrow!account, Collected, PaidTo, CreditedTo
<1>7. CASE s = "failed"
  <2>1. credits(o) = [CreditedTo[o] EXCEPT ![k] = 0]
    BY <1>1, <1>7 DEF CreditedTo, TypeInv, TypeOK
  <2>2. CreditedTo[o][k] # 0
    <3>1. ledger[o][k] \in LedgerRow
      BY <1>2 DEF MoneyInv, RefundsBacked, TypeInv, TypeOK
    <3> QED
      BY <1>2, <3>1 DEF CreditedTo, LedgerRow
  <2> HIDE DEF credits
  <2>3. CreditedTo' = [CreditedTo EXCEPT ![o][k] = 0]
    BY <1>4, <1>5, <2>1 DEF CreditedTo
  <2>4. Escrow!Bounce(o, k)
    BY <1>2, <1>3, <2>2, <2>3, TheOperations
  <2> QED
    BY <2>4 DEF Escrow!Next
<1> QED
  BY <1>6, <1>7

\* A claim, and what the provider answered, leave every credit that was given.
LEMMA LedgerKeepsCredits ==
    ASSUME TypeInv, MoneyInv, NEW p \in Workers, ClaimRefund(p) \/ UpdateRefund(p)
    PROVE  UNCHANGED Escrow!account
<1> DEFINE o == rq[p].o
           k == rq[p].key
<1>1. /\ rq[p].at \in {"claim", "ledger"}
      /\ UNCHANGED <<session, transfers, reversals, refunds>>
  BY DEF ClaimRefund, UpdateRefund, At, providerVars
<1>2. o \in Orders /\ k \in RefundKeys
  BY <1>1, RequestFacts DEF At, WellFormed, RefundSteps
<1>3. ASSUME NEW x \in Orders, NEW y \in RefundKeys, refunds[x][y] \in {"pending", "succeeded"}
      PROVE  ledger'[x][y].credited = ledger[x][y].credited
  <2>1. ledger[x][y] # None /\ ledger[x][y] \in LedgerRow
    BY <1>3 DEF MoneyInv, RefundsBacked, TypeInv, TypeOK
  <2>2. CASE ClaimRefund(p)
    <3>1. UNCHANGED ledger \/ \E entry : /\ ledger' = [ledger EXCEPT ![o][k] = entry]
                                         /\ ledger[o][k] = None
      BY <2>2 DEF ClaimRefund
    <3>2. ASSUME NEW entry, ledger' = [ledger EXCEPT ![o][k] = entry], ledger[o][k] = None
          PROVE  ledger'[x][y] = ledger[x][y]
      BY <1>2, <2>1, <3>2 DEF TypeInv, TypeOK
    <3> QED
      BY <3>1, <3>2
  <2>3. CASE UpdateRefund(p)
    <3>1. ledger' = [ledger EXCEPT ![o][k].status = rq[p].outcome]
      BY <2>3 DEF UpdateRefund
    <3>2. CASE x = o /\ y = k
      <4>1. ledger'[x][y] = [ledger[x][y] EXCEPT !.status = rq[p].outcome]
        BY <1>2, <3>1, <3>2 DEF TypeInv, TypeOK
      <4> QED
        BY <2>1, <4>1 DEF LedgerRow
    <3>3. CASE x # o \/ y # k
      BY <1>2, <3>1, <3>3 DEF TypeInv, TypeOK
    <3> QED
      BY <3>2, <3>3
  <2> QED
    BY <2>2, <2>3
<1>4. CreditedTo' = CreditedTo
  BY <1>1, <1>3 DEF CreditedTo
<1>5. Collected' = Collected /\ PaidTo' = PaidTo
  BY <1>1 DEF Collected, PaidTo
<1> QED
  BY <1>1, <1>4, <1>5 DEF Escrow!account, Collected, PaidTo, CreditedTo

\* The other steps of all handlers, and whatever comes in, move no money.
LEMMA OtherStepsMoveNoMoney ==
    ASSUME TypeInv, NEW p \in Workers, Step(p) \/ Fail(p),
           ~ClaimRefund(p), ~UpdateRefund(p), ~CreateRefund(p), ~ReleaseSellerFunds(p),
           ~RecoverSellerLeg(p), ~ReverseTransfer(p)
    PROVE  UNCHANGED Escrow!account
<1> USE DEF dbVars, providerVars
<1>1. UNCHANGED <<transfers, reversals, ledger, refunds>>
  BY DEF Step, FindListing, WriteListing, CompleteEvent, FindCheckout, InsertOrder,
     OpenCheckout, SaveSession, ExpireSession, WriteCancelled, Fund, WritePaymentPending,
     WriteRefundFailed, WriteRefunded, WriteChargeback, RetrieveCheckout, RecheckUnpaid,
     WriteShipped, WritePinPending, WriteDisputed, WriteCompleted, QuoteRefund,
     RecordRefund, UpdateOrder, Fail
<1>2. CASE OpenCheckout(p) \/ ExpireSession(p)
  <2>1. rq[p].o \in Orders
    BY <1>2, RequestFacts DEF OpenCheckout, ExpireSession, At
  <2>2. \/ session' = session
        \/ /\ session[rq[p].o] # "paid"
           /\ \E s \in {"open", "expired"} : session' = [session EXCEPT ![rq[p].o] = s]
    BY <1>2, <2>1 DEF OpenCheckout, ExpireSession, TypeInv, TypeOK
  <2>3. Collected' = Collected
    BY <2>2 DEF Collected, TypeInv, TypeOK
  <2> QED
    BY <1>1, <2>3, AccountStands
<1>3. CASE ~OpenCheckout(p) /\ ~ExpireSession(p)
  <2>1. UNCHANGED session
    BY <1>3 DEF Step, FindListing, WriteListing, CompleteEvent, FindCheckout, InsertOrder,
       SaveSession, WriteCancelled, Fund, WritePaymentPending, WriteRefundFailed,
       WriteRefunded, WriteChargeback, RetrieveCheckout, RecheckUnpaid, WriteShipped,
       WritePinPending, WriteDisputed, WriteCompleted, QuoteRefund, RecordRefund,
       UpdateOrder, Fail
  <2>2. Collected' = Collected
    BY <2>1 DEF Collected
  <2> QED
    BY <1>1, <2>2, AccountStands
<1> QED
  BY <1>2, <1>3

\* A payment is collected once; nothing else the provider does to a session moves
\* money.
LEMMA PaymentIsCollected ==
    ASSUME TypeInv, NEW o \in Orders, NEW from \in {"open", "complete"}, NEW to, NEW type,
           SessionEnds(o, from, to, type)
    PROVE  [Escrow!Next]_(Escrow!account)
<1>1. /\ session' = [session EXCEPT ![o] = to] /\ session[o] # "paid"
      /\ UNCHANGED <<ledger, transfers, reversals, refunds>>
  BY DEF SessionEnds, dbVars
<1>2. PaidTo' = PaidTo /\ CreditedTo' = CreditedTo
  BY <1>1 DEF PaidTo, CreditedTo
<1>3. CASE to = "paid"
  <2>1. o \notin Collected /\ Collected' = Collected \cup {o}
    BY <1>1, <1>3 DEF Collected, TypeInv, TypeOK
  <2>2. Escrow!Collect(o)
    BY <1>1, <1>2, <2>1, TheOperations
  <2> QED
    BY <2>2 DEF Escrow!Next
<1>4. CASE to # "paid"
  <2>1. Collected' = Collected
    BY <1>1, <1>4 DEF Collected, TypeInv, TypeOK
  <2> QED
    BY <1>1, <2>1, AccountStands
<1> QED
  BY <1>3, <1>4

\* Every step of the system is a step of the account, or leaves it as it is.
LEMMA StepsMoveMoneyAsTheAccount ==
    ASSUME TypeInv, MoneyInv, ClaimInv, [Next]_vars, TypeInv', MoneyInv'
    PROVE  [Escrow!Next]_(Escrow!account)
<1>1. ASSUME NEW p \in Workers, Step(p) \/ Fail(p) PROVE [Escrow!Next]_(Escrow!account)
  <2>1. CASE RecoverSellerLeg(p) \/ ReverseTransfer(p)
    <3>1. /\ rq[p].at \in {"recover", "reverse"} /\ ~At(p, "idle")
          /\ UNCHANGED <<ledger, session, transfers, refunds>>
      BY <2>1 DEF RecoverSellerLeg, ReverseTransfer, At, dbVars
    <3>2. CASE UNCHANGED reversals
      <4>1. Collected' = Collected
        BY <3>1 DEF Collected
      <4> QED
        BY <3>1, <3>2, <4>1, AccountStands
    <3>3. CASE ~UNCHANGED reversals
      <4>1. PICK o \in Orders, k \in ReversalKeys, amount \in Nat \ {0} :
              MayReverse(o, k, amount) /\ Reverse(o, k, amount)
        <5>1. rq[p].o \in Orders
          BY <3>1, RequestFacts
        <5>2. CASE RecoverSellerLeg(p)
          <6>1. MayReverse(rq[p].o, "chargeback", SellerAmount)
                /\ Reverse(rq[p].o, "chargeback", SellerAmount)
            BY <3>3, <5>2 DEF RecoverSellerLeg
          <6> QED
            BY <5>1, <6>1, OrdersAssumption DEF ReversalKeys
        <5>3. CASE ReverseTransfer(p)
          <6>1. /\ MayReverse(rq[p].o, rq[p].key, ReversalDue(p))
                /\ Reverse(rq[p].o, rq[p].key, ReversalDue(p)) /\ ~(ReversalDue(p) <= 0)
            BY <3>3, <5>3 DEF ReverseTransfer
          <6>2. rq[p].at \in RefundSteps /\ rq[p].key \in RefundKeys
            BY <3>1, <5>3, RequestFacts DEF ReverseTransfer, At, RefundSteps, WellFormed
          <6>3. ReversalDue(p) \in Nat \ {0}
            BY <6>1, <6>2, ReversalDueType
          <6> QED
            BY <5>1, <6>1, <6>2, <6>3 DEF ReversalKeys
        <5> QED
          BY <2>1, <5>2, <5>3
      <4> QED
        BY <3>1, <4>1, ReversalTakesBack
    <3> QED
      BY <3>2, <3>3
  <2> QED
    BY <1>1, <2>1, ReleasePaysOut, CreationCredits, LedgerKeepsCredits, OtherStepsMoveNoMoney
<1>2. ASSUME UNCHANGED <<session, ledger, transfers, reversals, refunds>>
      PROVE  [Escrow!Next]_(Escrow!account)
  <2>1. Collected' = Collected
    BY <1>2 DEF Collected
  <2> QED
    BY <1>2, <2>1, AccountStands
<1>3. ASSUME NEW o \in Orders, Provider(o) PROVE [Escrow!Next]_(Escrow!account)
  <2>1. NetworkDisputes(o) => UNCHANGED <<session, ledger, transfers, reversals, refunds>>
    BY DEF NetworkDisputes, dbVars
  <2> QED
    BY <1>2, <1>3, <2>1, PaymentIsCollected, FailureBounces
       DEF Provider, CustomerPays, SessionExpires, PaysLater, AsyncSettles
<1>4. ASSUME \/ \E p \in Requests, e \in events : TakeEvent(p, e)
             \/ \E o \in Orders : ReconcileOrder(o)
             \/ \E p \in Requests, o \in Orders : Request(p, o)
             \/ UNCHANGED vars
      PROVE  [Escrow!Next]_(Escrow!account)
  <2>1. UNCHANGED <<session, ledger, transfers, reversals, refunds>>
    BY <1>4 DEF TakeEvent, ReconcileOrder, Request, BeginCheckout, CancelUnpaid, MarkShipped,
       IssueHandoverCode, Confirm, OpenDispute, RefundOrder, vars, dbVars, providerVars
  <2> QED
    BY <1>2, <2>1
<1> QED
  BY <1>1, <1>3, <1>4 DEF Next

\* Whatever handlers overlap, are retried or die, the money of every order moves as
\* one of the operations of an escrow account moves it: the charge is collected
\* once, the seller is paid once and out of it, no more than the charge is credited
\* and no more than the transfer is taken back.
THEOREM MoneyIsKeptInEscrow == Spec => MoneyMovesLikeAnEscrowAccount
<1>1. Init => Escrow!Init
  <2> SUFFICES ASSUME Init PROVE Escrow!Init
    OBVIOUS
  <2>1. Collected = {}
    BY DEF Init, Collected
  <2>2. PaidTo = [o \in Orders |-> 0]
    <3>1. \A o \in Orders : {t \in transfers : t.o = o} = {}
      BY DEF Init
    <3>2. SellerAmount * 0 = 0 /\ Cardinality({}) = 0
      BY FS_EmptySet, OrdersAssumption
    <3> QED
      BY <3>1, <3>2 DEF PaidTo
  <2>3. CreditedTo = [o \in Orders |-> [k \in RefundKeys |-> 0]]
    BY DEF Init, CreditedTo
  <2>4. reversals = [o \in Orders |-> [k \in ReversalKeys |-> 0]]
    BY DEF Init
  <2> QED
    BY <2>1, <2>2, <2>3, <2>4 DEF Escrow!Init, Collected, PaidTo, CreditedTo
<1>2. TypeInv /\ MoneyInv /\ ClaimInv /\ [Next]_vars /\ (TypeInv /\ MoneyInv /\ ClaimInv)'
        => [Escrow!Next]_(Escrow!account)
  BY StepsMoveMoneyAsTheAccount
<1> QED
  BY <1>1, <1>2, AlwaysClaimInv, PTL DEF Spec, MoneyMovesLikeAnEscrowAccount, Escrow!Spec

\* Whatever was refunded and taken back, the buyer of an order holds no more than was
\* charged, and only if it was; and the seller gave back no more than was paid out.
Solvent ==
    \A o \in Orders :
        /\ SumFunction(CreditedTo[o]) <= (IF o \in Collected THEN TotalCharged ELSE 0)
        /\ SumFunction(reversals[o]) <= PaidTo[o]
        /\ PaidTo[o] # 0 => o \in Collected

\* What the buyer holds and what the seller gave back are numbers.
LEMMA AmountsAreNumbers ==
    ASSUME TypeInv, MoneyInv, NEW o \in Orders
    PROVE  /\ CreditedTo[o] \in [RefundKeys -> Nat] /\ reversals[o] \in [ReversalKeys -> Nat]
           /\ SumFunction(CreditedTo[o]) \in Nat /\ SumFunction(reversals[o]) \in Nat
           /\ PaidTo[o] \in Nat
           /\ IsFiniteSet(RefundKeys) /\ IsFiniteSet(ReversalKeys)
<1>1. IsFiniteSet(RefundKeys) /\ IsFiniteSet(ReversalKeys)
  BY OrdersAssumption, FS_AddElement DEF ReversalKeys
<1>2. reversals[o] \in [ReversalKeys -> Nat]
  BY DEF TypeInv, TypeOK
<1>3. ASSUME NEW k \in RefundKeys, refunds[o][k] \in {"pending", "succeeded"}
      PROVE  ledger[o][k].credited \in Nat
  <2>1. ledger[o][k] \in LedgerRow
    BY <1>3 DEF MoneyInv, RefundsBacked, TypeInv, TypeOK
  <2> QED
    BY <2>1 DEF LedgerRow
<1>4. CreditedTo[o] \in [RefundKeys -> Nat]
  BY <1>3 DEF CreditedTo
<1>5. PaidTo[o] \in Nat
  BY PaidOnce, OrdersAssumption
<1> QED
  BY <1>1, <1>2, <1>4, <1>5, SumNat

\* A credit or a return of money adds to what was credited or taken back before, and a
\* refund that bounces takes its own away.
LEMMA AmountsAdd ==
    ASSUME NEW S, IsFiniteSet(S), NEW f \in [S -> Nat], NEW k \in S, NEW amount \in Nat
    PROVE  /\ f[k] = 0 => SumFunction([f EXCEPT ![k] = amount]) = SumFunction(f) + amount
           /\ SumFunction([f EXCEPT ![k] = 0]) <= SumFunction(f)
<1>1. SumFunction(f) \in Nat /\ f[k] \in Nat
  BY SumNat
<1>2. ASSUME NEW a \in Nat
      PROVE  SumFunction([f EXCEPT ![k] = a]) = SumFunction(f) - f[k] + a
  <2> DEFINE h == [f EXCEPT ![k] = a]
  <2>1. h \in [S -> Nat] /\ h[k] = a /\ \A y \in S \ {k} : h[y] = f[y]
    OBVIOUS
  <2> HIDE DEF h
  <2>2. SumFunction(h) = SumFunction(f) - f[k] + h[k]
    BY <2>1, SumUpdate
  <2> QED
    BY <2>1, <2>2 DEF h
<1>3. SumFunction([f EXCEPT ![k] = 0]) = SumFunction(f) - f[k] + 0
  BY <1>2
<1>4. SumFunction([f EXCEPT ![k] = amount]) = SumFunction(f) - f[k] + amount
  BY <1>2
<1> QED
  BY <1>1, <1>3, <1>4

\* Every operation of the account keeps it solvent.
LEMMA AccountStaysSolvent ==
    ASSUME TypeInv, MoneyInv, Solvent, [Escrow!Next]_(Escrow!account)
    PROVE  Solvent'
<1>1. \A o \in Orders :
        /\ CreditedTo[o] \in [RefundKeys -> Nat] /\ reversals[o] \in [ReversalKeys -> Nat]
        /\ SumFunction(CreditedTo[o]) \in Nat /\ SumFunction(reversals[o]) \in Nat
        /\ PaidTo[o] \in Nat
  BY AmountsAreNumbers
<1>2. TotalCharged \in Nat /\ SellerAmount \in Nat
  BY OrdersAssumption DEF TotalCharged
<1>3. /\ IsFiniteSet(RefundKeys) /\ IsFiniteSet(ReversalKeys)
      /\ CreditedTo \in [Orders -> [RefundKeys -> Nat]]
      /\ reversals \in [Orders -> [ReversalKeys -> Nat]]
      /\ PaidTo \in [Orders -> Nat]
  BY <1>1, OrdersAssumption, FS_AddElement DEF ReversalKeys, CreditedTo, PaidTo, TypeInv, TypeOK
<1>4. CASE UNCHANGED Escrow!account
  <2>1. UNCHANGED <<Collected, PaidTo, CreditedTo, reversals>>
    BY <1>4 DEF Escrow!account, Collected, PaidTo, CreditedTo
  <2> QED
    BY <2>1 DEF Solvent
<1>5. ASSUME NEW o \in Orders, Escrow!Collect(o) PROVE Solvent'
  <2>1. Collected' = Collected \cup {o} /\ UNCHANGED <<PaidTo, CreditedTo, reversals>>
    BY <1>5 DEF Escrow!Collect, Collected, PaidTo, CreditedTo
  <2> QED
    BY <1>1, <1>2, <2>1 DEF Solvent
<1>6. ASSUME NEW o \in Orders, Escrow!PayOut(o) PROVE Solvent'
  <2>1. /\ o \in Collected /\ PaidTo[o] = 0
        /\ PaidTo' = [PaidTo EXCEPT ![o] = SellerAmount]
        /\ UNCHANGED <<Collected, CreditedTo, reversals>>
    BY <1>6 DEF Escrow!PayOut, Collected, PaidTo, CreditedTo
  <2>2. \A x \in Orders : PaidTo'[x] = IF x = o THEN SellerAmount ELSE PaidTo[x]
    BY <1>3, <2>1
  <2>3. SumFunction(reversals[o]) <= SellerAmount
    BY <1>1, <1>2, <2>1 DEF Solvent
  <2> QED
    BY <2>1, <2>2, <2>3 DEF Solvent
<1>7. ASSUME NEW o \in Orders, NEW k \in RefundKeys, NEW amount \in 1 .. TotalCharged,
             Escrow!Credit(o, k, amount)
      PROVE  Solvent'
  <2>1. /\ o \in Collected /\ CreditedTo[o][k] = 0
        /\ SumFunction(CreditedTo[o]) + amount <= TotalCharged
        /\ CreditedTo' = [CreditedTo EXCEPT ![o][k] = amount]
        /\ UNCHANGED <<Collected, PaidTo, reversals>>
    BY <1>7, SameSum DEF Escrow!Credit, Collected, PaidTo, CreditedTo
  <2>2. SumFunction([CreditedTo[o] EXCEPT ![k] = amount]) = SumFunction(CreditedTo[o]) + amount
    <3>1. amount \in Nat /\ CreditedTo[o] \in [RefundKeys -> Nat]
      BY <1>1, <1>2
    <3> QED
      BY <1>3, <2>1, <3>1, AmountsAdd
  <2>3. \A x \in Orders : CreditedTo'[x] = IF x = o THEN [CreditedTo[o] EXCEPT ![k] = amount]
                                            ELSE CreditedTo[x]
    BY <1>3, <2>1
  <2> QED
    BY <2>1, <2>2, <2>3 DEF Solvent
<1>8. ASSUME NEW o \in Orders, NEW k \in RefundKeys, Escrow!Bounce(o, k) PROVE Solvent'
  <2>1. /\ CreditedTo' = [CreditedTo EXCEPT ![o][k] = 0]
        /\ UNCHANGED <<Collected, PaidTo, reversals>>
    BY <1>8 DEF Escrow!Bounce, Collected, PaidTo, CreditedTo
  <2>2. SumFunction([CreditedTo[o] EXCEPT ![k] = 0]) <= SumFunction(CreditedTo[o])
    BY <1>1, <1>3, AmountsAdd
  <2>3. \A x \in Orders : CreditedTo'[x] = IF x = o THEN [CreditedTo[o] EXCEPT ![k] = 0]
                                            ELSE CreditedTo[x]
    BY <1>3, <2>1
  <2>4. SumFunction(CreditedTo'[o]) \in Nat
    <3>1. [CreditedTo[o] EXCEPT ![k] = 0] \in [RefundKeys -> Nat]
      BY <1>1
    <3> QED
      BY <1>3, <2>3, <3>1, SumNat
  <2> QED
    BY <1>1, <1>2, <2>1, <2>2, <2>3, <2>4 DEF Solvent
<1>9. ASSUME NEW o \in Orders, NEW k \in ReversalKeys, NEW amount \in 1 .. SellerAmount,
             Escrow!TakeBack(o, k, amount)
      PROVE  Solvent'
  <2>1. /\ reversals[o][k] = 0 /\ SumFunction(reversals[o]) + amount <= PaidTo[o]
        /\ reversals' = [reversals EXCEPT ![o][k] = amount]
        /\ UNCHANGED <<Collected, PaidTo, CreditedTo>>
    BY <1>9, SameSum DEF Escrow!TakeBack, Collected, PaidTo, CreditedTo
  <2>2. SumFunction([reversals[o] EXCEPT ![k] = amount]) = SumFunction(reversals[o]) + amount
    <3>1. amount \in Nat /\ reversals[o] \in [ReversalKeys -> Nat]
      BY <1>1, <1>2
    <3> QED
      BY <1>3, <2>1, <3>1, AmountsAdd
  <2>3. \A x \in Orders : reversals'[x] = IF x = o THEN [reversals[o] EXCEPT ![k] = amount]
                                           ELSE reversals[x]
    BY <1>3, <2>1
  <2> QED
    BY <2>1, <2>2, <2>3 DEF Solvent
<1> QED
  BY <1>4, <1>5, <1>6, <1>7, <1>8, <1>9 DEF Escrow!Next

\* Whatever handlers overlap, are retried or die: of the money of an order the buyer is
\* credited at most the charge, once it was collected, and the seller, who is paid out of
\* it only then, gives back at most the payout.
THEOREM AccountsAreSolvent == Spec => []Solvent
<1>1. Init => Solvent
  <2> SUFFICES ASSUME Init PROVE Solvent
    OBVIOUS
  <2>1. TypeInv /\ MoneyInv
    BY TypeInvInitially, MoneyInvInitially
  <2>2. ASSUME NEW o \in Orders
        PROVE  /\ SumFunction(CreditedTo[o]) = 0 /\ SumFunction(reversals[o]) = 0
               /\ PaidTo[o] = 0
    <3>1. (\A k \in RefundKeys : CreditedTo[o][k] = 0) /\ \A k \in ReversalKeys : reversals[o][k] = 0
      BY DEF Init, CreditedTo
    <3>2. PaidTo[o] = 0
      BY <2>1, PaidOnce DEF Init
    <3>3. /\ CreditedTo[o] \in [RefundKeys -> Nat] /\ reversals[o] \in [ReversalKeys -> Nat]
          /\ IsFiniteSet(RefundKeys) /\ IsFiniteSet(ReversalKeys)
      BY <2>1, AmountsAreNumbers
    <3> QED
      BY <3>1, <3>2, <3>3, SumNat
  <2>3. TotalCharged \in Nat
    BY OrdersAssumption DEF TotalCharged
  <2> QED
    BY <2>2, <2>3 DEF Solvent
<1>2. TypeInv /\ MoneyInv /\ ClaimInv /\ [Next]_vars /\ (TypeInv /\ MoneyInv /\ ClaimInv)'
        /\ Solvent => Solvent'
  BY StepsMoveMoneyAsTheAccount, AccountStaysSolvent
<1> QED
  BY <1>1, <1>2, AlwaysClaimInv, PTL DEF Spec

-----------------------------------------------------------------------------
\* What the rows of the ledger of an order refund and credit.
BaseOf(entry)     == IF entry = None THEN 0 ELSE entry.base
CreditedOf(entry) == IF entry = None THEN 0 ELSE entry.credited

\* The sums of the ledger are numbers, and nothing is refunded where no row is.
LEMMA LedgerSums ==
    ASSUME TypeInv, NEW o \in Orders
    PROVE  /\ RefundedBase(o) \in Nat /\ Credited(o) \in Nat
           /\ (\A k \in RefundKeys : ledger[o][k] = None) => RefundedBase(o) = 0
<1>1. ledger[o] \in [RefundKeys -> LedgerRow \cup {None}] /\ IsFiniteSet(RefundKeys)
  BY OrdersAssumption DEF TypeInv, TypeOK
<1>2. /\ [k \in RefundKeys |-> IF ledger[o][k] = None THEN 0 ELSE ledger[o][k].base]
            \in [RefundKeys -> Nat]
      /\ [k \in RefundKeys |-> IF ledger[o][k] = None THEN 0 ELSE ledger[o][k].credited]
            \in [RefundKeys -> Nat]
  BY <1>1 DEF LedgerRow
<1> QED
  BY <1>1, <1>2, SumNat DEF RefundedBase, Credited

\* A row that is written adds to the sums what it did not hold before.
LEMMA LedgerWrite ==
    ASSUME TypeInv, NEW o \in Orders, NEW k \in RefundKeys, NEW entry \in LedgerRow,
           ledger' = [ledger EXCEPT ![o][k] = entry]
    PROVE  /\ RefundedBase(o)' = RefundedBase(o) - BaseOf(ledger[o][k]) + entry.base
           /\ Credited(o)' = Credited(o) - CreditedOf(ledger[o][k]) + entry.credited
<1> DEFINE base == [j \in RefundKeys |-> IF ledger[o][j] = None THEN 0 ELSE ledger[o][j].base]
           credited == [j \in RefundKeys |->
                          IF ledger[o][j] = None THEN 0 ELSE ledger[o][j].credited]
           base2 == [j \in RefundKeys |->
                       IF ledger'[o][j] = None THEN 0 ELSE ledger'[o][j].base]
           credited2 == [j \in RefundKeys |->
                           IF ledger'[o][j] = None THEN 0 ELSE ledger'[o][j].credited]
<1>1. /\ ledger \in [Orders -> [RefundKeys -> LedgerRow \cup {None}]]
      /\ IsFiniteSet(RefundKeys) /\ entry # None
  BY OrdersAssumption, RowAssumption DEF TypeInv, TypeOK
<1>2. \A j \in RefundKeys : ledger'[o][j] = IF j = k THEN entry ELSE ledger[o][j]
  BY <1>1
<1>3. /\ \A j \in RefundKeys : ledger[o][j] \in LedgerRow \cup {None}
      /\ \A l \in LedgerRow : l.base \in Nat /\ l.credited \in Nat
  BY <1>1 DEF LedgerRow
<1>4. /\ base \in [RefundKeys -> Nat] /\ credited \in [RefundKeys -> Nat]
      /\ base2 \in [RefundKeys -> Nat] /\ credited2 \in [RefundKeys -> Nat]
  BY <1>2, <1>3
<1>5. \A j \in RefundKeys \ {k} : base2[j] = base[j] /\ credited2[j] = credited[j]
  BY <1>2
<1>6. /\ base[k] = BaseOf(ledger[o][k]) /\ credited[k] = CreditedOf(ledger[o][k])
      /\ base2[k] = entry.base /\ credited2[k] = entry.credited
  BY <1>1, <1>2 DEF BaseOf, CreditedOf
<1> HIDE DEF base, credited, base2, credited2
<1>7. /\ SumFunction(base2) = SumFunction(base) - base[k] + base2[k]
      /\ SumFunction(credited2) = SumFunction(credited) - credited[k] + credited2[k]
  BY <1>1, <1>4, <1>5, SumUpdate
<1> QED
  BY <1>6, <1>7 DEF RefundedBase, Credited, base, credited, base2, credited2

-----------------------------------------------------------------------------
(* Settlement.  One order in escrow and one request at a time.             *)

Alone(o, p) == Orders = {o} /\ Requests = {p} /\ MaxFailures = 0

\* The statuses an order in escrow goes through, and those a receipt confirms.
Confirmable == {"escrow_funded", "shipped", "pin_pending"}
Settling    == Confirmable \cup {"disputed", "refund_pending", "completed", "refunded"}

SettlingEvents == DisputeTypes \cup {"refund_succeeded", "refund_failed"}

\* The steps between the claim of a refund and its record, and those after the
\* transfer was reversed for it.
SpendingSteps == {"reverse", "refund", "ledger", "record"}
TakenSteps    == {"refund", "ledger", "record"}

SettlingSteps ==
    {"idle", "complete", "list", "list-write", "find", "checkout", "save-session",
     "recover", "recovered", "chargeback", "ship", "issue", "release", "completed",
     "dispute", "refunded", "refund-failed"} \cup RefundSteps

\* The payment stays where it is, and no handler of a checkout acts on it.
InEscrow(o, p) ==
    /\ session[o] = "paid" /\ order[o].paymentIntent /\ order[o].status \in Settling
    /\ \A e \in events : e.type \in SettlingEvents
    /\ rq[Reconciler].at = "idle"
    /\ rq[p].at \in SettlingSteps /\ rq[p].next = "idle"
    /\ rq[p].evt # None => rq[p].evt.type \in SettlingEvents

\* What the request read and decided at earlier steps is still so.
Decided(r, row, credited) ==
    /\ r.at = "ship" => row.status = "escrow_funded"
    /\ r.at = "issue" => row.status \in {"escrow_funded", "pin_pending"}
    /\ r.at \in {"release", "completed"} => r.row = row /\ row.status \in Confirmable
    /\ r.at \in RefundSteps =>
         r.row = row /\ r.amount \in Nat \ {0} /\ row.refundedBase + r.amount <= ItemAmount
    /\ r.at = "claim" =>
         r.credit = IF row.refundedBase + r.amount = ItemAmount
                    THEN TotalCharged - credited ELSE r.amount
    /\ r.at \in {"recover", "recovered"} => row.transfer = "completed" /\ FundsLost(r.evt.type)
    /\ r.at = "chargeback" /\ r.evt.type = "lost" => row.transfer # "completed"

\* The part of a request's amount that is claimed or reversed and not recorded yet.
InFlight(r, steps) == IF r.at \in steps THEN r.amount ELSE 0

\* The books: the ledger holds the item value that the order's running total and the
\* request account for, and credits as much, or the whole charge for the whole item.
Booked(r, row, base, credited) ==
    /\ base = row.refundedBase + InFlight(r, SpendingSteps)
    /\ base <= ItemAmount
    /\ credited = IF base = ItemAmount THEN TotalCharged ELSE base

\* The transfer of which a request's amount is due, as ReversalDue computes it.
Due(row, amount) ==
    IF row.transfer \in {"completed", "partially_reversed"}
    THEN Proportional(row.refundedBase + amount) - Proportional(row.refundedBase) ELSE 0

\* The seller leg: what was taken back is the share of what was refunded, or the whole
\* transfer after a chargeback, and the order says which.
Leg(r, row, paid, claims, taken) ==
    /\ row.status \in Confirmable => row.transfer = "pending" /\ row.dispute # "lost"
    /\ row.transfer = "pending" => taken = 0 /\ (r.at # "completed" => paid = {})
    /\ row.transfer = "partially_reversed" => claims # {}
    /\ row.transfer = "reversed" => taken = SellerAmount \/ claims # {}
    /\ row.dispute = "lost" => row.transfer # "completed"
    /\ r.at = "recovered" => taken = SellerAmount
    /\ row.transfer = "completed" /\ r.at # "recovered"
         /\ (r.at \in TakenSteps => Due(row, r.amount) <= 0) => taken = 0
    /\ row.transfer \in {"completed", "partially_reversed"} /\ r.at # "recovered" =>
         taken <= Proportional(row.refundedBase + InFlight(r, TakenSteps))

Paid(o)   == {t \in transfers : t.o = o}
Claims(o) == {k \in RefundKeys : ledger[o][k] # None}

BooksInv(o, p) ==
    /\ Decided(rq[p], order[o], Credited(o))
    /\ Booked(rq[p], order[o], RefundedBase(o), Credited(o))
    /\ Leg(rq[p], order[o], Paid(o), Claims(o), Reversed(o))

SettleInv(o, p) == TypeInv /\ MoneyInv /\ ClaimInv /\ InEscrow(o, p) /\ BooksInv(o, p)

-----------------------------------------------------------------------------
\* The one request moves, and nothing else that it relies on.
LEMMA EscrowMoves ==
    ASSUME NEW o, NEW p, Alone(o, p), TypeInv, InEscrow(o, p), NEW r,
           rq' = [rq EXCEPT ![p] = r] \/ (rq' = rq /\ r = rq[p]),
           r.at \in SettlingSteps, r.next = "idle",
           r.evt # None => r.evt.type \in SettlingEvents,
           \A e \in events' : e \in events \/ (e = rq[p].evt /\ e # None)
             \/ e.type \in SettlingEvents,
           UNCHANGED session, order'[o].paymentIntent, order'[o].status \in Settling
    PROVE  InEscrow(o, p)'
<1>1. p \in Workers /\ Reconciler # p /\ Reconciler \in Workers
  BY OrdersAssumption DEF Alone, Workers
<1>2. rq'[p] = r /\ rq'[Reconciler] = rq[Reconciler]
  BY <1>1 DEF TypeInv, TypeOK
<1> QED
  BY <1>2 DEF InEscrow

\* The order is the only one of the listing: the index never refuses its update.
LEMMA UpdateAlone ==
    ASSUME NEW o, NEW p, Alone(o, p), TypeInv, rq[p].o = o, NEW row, NEW next,
           UpdateOrder(p, row, next)
    PROVE  /\ order' = [order EXCEPT ![o] = row] /\ order'[o] = row
           /\ rq' = [rq EXCEPT ![p] = next] /\ rq'[p] = next
           /\ UNCHANGED <<ledger, providerVars, failures, events>>
<1>1. o \in Orders /\ Orders \ {o} = {} /\ p \in Workers
  BY DEF Alone, Workers
<1>2. IndexAllows(o, row.status)
  BY <1>1 DEF IndexAllows
<1> QED
  BY <1>1, <1>2 DEF UpdateOrder, TypeInv, TypeOK

\* Only the one request takes steps, and none of them fails.
LEMMA OnlyTheRequest ==
    ASSUME NEW o, NEW p, Alone(o, p), TypeInv, InEscrow(o, p), NEW q \in Workers,
           Step(q) \/ Fail(q)
    PROVE  q = p /\ Step(p) /\ ~At(p, "idle") /\ p \in Workers /\ o \in Orders /\ rq[p].o = o
           /\ rq[p] \in RequestState /\ order[o] \in OrderRow /\ Row(p) = order[o]
<1>1. ~Fail(q)
  BY OrdersAssumption DEF Fail, Alone, TypeInv, TypeOK
<1>2. ~At(q, "idle")
  BY <1>1 DEF Step, At, FindListing, WriteListing, CompleteEvent, FindCheckout, InsertOrder,
     OpenCheckout, SaveSession, ExpireSession, WriteCancelled, Fund, WritePaymentPending,
     WriteRefundFailed, WriteRefunded, RecoverSellerLeg, WriteChargeback, RetrieveCheckout,
     RecheckUnpaid, WriteShipped, WritePinPending, WriteDisputed, ReleaseSellerFunds,
     WriteCompleted, QuoteRefund, ClaimRefund, ReverseTransfer, CreateRefund, UpdateRefund,
     RecordRefund
<1>3. q = p /\ o \in Orders
  BY <1>2 DEF Alone, Workers, InEscrow, At
<1> QED
  BY <1>1, <1>2, <1>3, RequestFacts DEF Alone, Row, At

\* A handler of the settlement that is at its end.
Ends(r) ==
    /\ r.at \in {"idle", "complete", "list", "refunded"} /\ r.next = "idle"
    /\ r.evt # None => r.evt.type \in SettlingEvents

\* What a handler of the settlement is when it is done, gives up or goes on to the
\* listing or to the end of a refund.
LEMMA EscrowEnds ==
    ASSUME NEW o, NEW p, Alone(o, p), TypeInv, InEscrow(o, p)
    PROVE  /\ Ends(Idle) /\ Ends(Done(p))
           /\ Ends(ThenList(p, "published", "reserved", "idle"))
           /\ Ends(ThenList(p, "sold", None, "idle"))
           /\ Ends([Idle EXCEPT !.at = "refunded", !.o = rq[p].o])
<1>1. Ends(Idle) /\ Ends([Idle EXCEPT !.at = "refunded", !.o = rq[p].o])
  BY DEF Idle, Ends
<1>2. Ends(Done(p))
  BY DEF Done, Idle, Ends, InEscrow
<1>3. \A to, from : Ends(ThenList(p, to, from, "idle"))
  BY DEF ThenList, Idle, Ends, InEscrow
<1> QED
  BY <1>1, <1>2, <1>3

\* What the record of a refund writes.
LEMMA RecordWrites ==
    ASSUME NEW p, RecordRefund(p), Row(p) \in OrderRow
    PROVE  \E row, next :
             /\ UpdateOrder(p, row, next)
             /\ next \in {[Idle EXCEPT !.at = "refunded", !.o = rq[p].o], Idle}
             /\ row.paymentIntent = Row(p).paymentIntent /\ row.dispute = Row(p).dispute
             /\ row.status = IF IsFull(p) THEN "refund_pending" ELSE Row(p).status
             /\ row.refundedBase = rq[p].row.refundedBase + rq[p].amount
             /\ ReversalDue(p) <= 0 => row.transfer = Row(p).transfer
             /\ ~(ReversalDue(p) <= 0) => row.transfer \in {"reversed", "partially_reversed"}
<1> DEFINE full == Proportional(rq[p].row.refundedBase + rq[p].amount) >= SellerAmount
           row == [Row(p) EXCEPT
                    !.status       = IF IsFull(p) THEN "refund_pending" ELSE @,
                    !.refundKey    = rq[p].key,
                    !.refundedBase = rq[p].row.refundedBase + rq[p].amount,
                    !.transfer     = IF ReversalDue(p) <= 0 THEN @
                                     ELSE IF IsFull(p) \/ full
                                     THEN "reversed" ELSE "partially_reversed"]
           next == IF IsFull(p) /\ rq[p].outcome = "succeeded"
                   THEN [Idle EXCEPT !.at = "refunded", !.o = rq[p].o] ELSE Idle
<1>1. UpdateOrder(p, row, next)
  BY DEF RecordRefund
<1> HIDE DEF full
<1>2. /\ row.paymentIntent = Row(p).paymentIntent /\ row.dispute = Row(p).dispute
      /\ row.status = IF IsFull(p) THEN "refund_pending" ELSE Row(p).status
      /\ row.refundedBase = rq[p].row.refundedBase + rq[p].amount
      /\ row.transfer = IF ReversalDue(p) <= 0 THEN Row(p).transfer
                        ELSE IF IsFull(p) \/ full THEN "reversed" ELSE "partially_reversed"
  BY DEF OrderRow
<1>3. next \in {[Idle EXCEPT !.at = "refunded", !.o = rq[p].o], Idle}
  OBVIOUS
<1> HIDE DEF row, next
<1> QED
  BY <1>1, <1>2, <1>3

\* What a dispute event writes into the order.
LEMMA ChargebackWrites ==
    ASSUME NEW p, WriteChargeback(p), Row(p) \in OrderRow
    PROVE  \E row :
             /\ UpdateOrder(p, row, Done(p))
             /\ row.paymentIntent = Row(p).paymentIntent
             /\ row.refundedBase = Row(p).refundedBase
             /\ row.status = IF ChargebackStatus(rq[p].evt.type) \in {"won", "withdrawn"}
                             THEN Row(p).status ELSE "disputed"
             /\ row.dispute = ChargebackStatus(rq[p].evt.type)
             /\ row.transfer = IF At(p, "recovered") THEN "reversed" ELSE Row(p).transfer
<1> DEFINE type == rq[p].evt.type
           row == [Row(p) EXCEPT
                     !.status    = IF ChargebackStatus(type) \in {"won", "withdrawn"}
                                   THEN @ ELSE "disputed",
                     !.dispute   = ChargebackStatus(type),
                     !.disputeId = DisputeId(type),
                     !.transfer  = IF At(p, "recovered") THEN "reversed" ELSE @]
<1>1. UpdateOrder(p, row, Done(p))
  BY DEF WriteChargeback
<1>2. /\ row.paymentIntent = Row(p).paymentIntent
      /\ row.refundedBase = Row(p).refundedBase
      /\ row.status = IF ChargebackStatus(type) \in {"won", "withdrawn"}
                      THEN Row(p).status ELSE "disputed"
      /\ row.dispute = ChargebackStatus(type)
      /\ row.transfer = IF At(p, "recovered") THEN "reversed" ELSE Row(p).transfer
  BY DEF OrderRow
<1> HIDE DEF row
<1> QED
  BY <1>1, <1>2

\* A step of the request keeps the order in escrow.
LEMMA StepStaysInEscrow ==
    ASSUME NEW o, NEW p, Alone(o, p), TypeInv, InEscrow(o, p), Step(p), ~At(p, "idle"),
           rq[p].o = o, rq[p] \in RequestState, order[o] \in OrderRow, Row(p) = order[o],
           o \in Orders, p \in Workers
    PROVE  InEscrow(o, p)'
<1> USE DEF dbVars, providerVars
<1> DEFINE Fine(r) == /\ r.at \in SettlingSteps /\ r.next = "idle"
                      /\ r.evt # None => r.evt.type \in SettlingEvents
<1>1. /\ Fine(Idle) /\ Fine(Done(p))
      /\ Fine(ThenList(p, "published", "reserved", "idle"))
      /\ Fine(ThenList(p, "sold", None, "idle"))
      /\ Fine([Idle EXCEPT !.at = "refunded", !.o = rq[p].o])
  BY EscrowEnds DEF Ends, SettlingSteps
<1>2. ASSUME NEW step \in SettlingSteps PROVE Fine([rq[p] EXCEPT !.at = step])
  BY <1>2 DEF InEscrow, RequestState
<1> DEFINE Moves == \E r : rq' = [rq EXCEPT ![p] = r] /\ Fine(r)
           Known == \A e \in events' : e \in events \/ (e = rq[p].evt /\ e # None)
<1> HIDE DEF Fine
<1>3. ASSUME Moves, Known, UNCHANGED session, order'[o].paymentIntent,
             order'[o].status \in Settling
      PROVE  InEscrow(o, p)'
  BY <1>3, EscrowMoves DEF Fine
<1>4. /\ Finish(p) => Moves
      /\ \A step \in SettlingSteps : Goto(p, step) => Moves
      /\ Throw(p) => Moves /\ Known
      /\ Resume(p) => Moves
      /\ UNCHANGED events => Known
  BY <1>1, <1>2 DEF Finish, Goto, Throw, Resume, InEscrow
<1>5. CASE FindListing(p) \/ WriteListing(p) \/ CompleteEvent(p) \/ FindCheckout(p)
           \/ OpenCheckout(p) \/ RecoverSellerLeg(p) \/ ReleaseSellerFunds(p)
           \/ ClaimRefund(p) \/ ReverseTransfer(p) \/ UpdateRefund(p)
  <2>1. UNCHANGED <<order, session>>
    BY <1>5 DEF FindListing, WriteListing, CompleteEvent, FindCheckout, OpenCheckout,
       RecoverSellerLeg, ReleaseSellerFunds, ClaimRefund, ReverseTransfer, UpdateRefund,
       InEscrow, TypeInv, TypeOK
  <2>2. Moves
    <3>1. {"list-write", "checkout", "save-session", "recovered", "completed", "reverse",
           "refund", "record"} \subseteq SettlingSteps
      BY DEF SettlingSteps, RefundSteps
    <3>2. FindCheckout(p) => Finish(p) \/ Goto(p, "checkout")
      BY DEF FindCheckout, InEscrow, Settling, Confirmable
    <3>3. \/ Finish(p) \/ Throw(p) \/ Resume(p)
          \/ \E step \in {"list-write", "checkout", "save-session", "recovered", "completed",
                          "reverse", "refund", "record"} : Goto(p, step)
      BY <1>5, <3>2 DEF FindListing, WriteListing, CompleteEvent, OpenCheckout,
         RecoverSellerLeg, ReleaseSellerFunds, ClaimRefund, ReverseTransfer, UpdateRefund
    <3> QED
      BY <1>4, <3>1, <3>3
  <2>3. Known
    BY <1>4, <1>5 DEF FindListing, WriteListing, CompleteEvent, FindCheckout, OpenCheckout,
       RecoverSellerLeg, ReleaseSellerFunds, ClaimRefund, ReverseTransfer, UpdateRefund
  <2> QED
    BY <1>3, <2>1, <2>2, <2>3 DEF InEscrow
<1>6. CASE QuoteRefund(p) \/ CreateRefund(p)
  <2>1. UNCHANGED <<order, session, events>>
    BY <1>6 DEF QuoteRefund, CreateRefund
  <2>2. ASSUME NEW c PROVE Fine([rq[p] EXCEPT !.at = "claim", !.credit = c])
    BY DEF Fine, InEscrow, RequestState, SettlingSteps, RefundSteps
  <2>3. ASSUME NEW s PROVE Fine([rq[p] EXCEPT !.at = "ledger", !.outcome = s])
    BY DEF Fine, InEscrow, RequestState, SettlingSteps, RefundSteps
  <2>4. QuoteRefund(p) => Moves
    BY <1>1, <2>2 DEF QuoteRefund
  <2>5. CreateRefund(p) => Moves
    <3>1. ASSUME NEW s, rq' = [rq EXCEPT ![p].at = "ledger", ![p].outcome = s]
          PROVE  rq' = [rq EXCEPT ![p] = [rq[p] EXCEPT !.at = "ledger", !.outcome = s]]
      BY <3>1 DEF TypeInv, TypeOK
    <3> QED
      BY <1>4, <2>3, <3>1 DEF CreateRefund
  <2> QED
    BY <1>3, <1>4, <1>6, <2>1, <2>4, <2>5 DEF InEscrow
<1>7. ASSUME NEW row, NEW next, UpdateOrder(p, row, next), Fine(next), row.paymentIntent,
             row.status \in Settling
      PROVE  InEscrow(o, p)'
  BY <1>3, <1>4, <1>7, UpdateAlone
<1>8. /\ order[o].paymentIntent /\ order[o].status \in Settling
      /\ {"disputed", "refunded", "shipped", "pin_pending", "completed", "refund_pending"}
            \subseteq Settling
  BY DEF InEscrow, Settling, Confirmable
<1>9. CASE SaveSession(p) \/ WriteRefundFailed(p) \/ WriteRefunded(p) \/ WriteShipped(p)
           \/ WritePinPending(p) \/ WriteDisputed(p) \/ WriteCompleted(p)
  <2>1. LET row == [Row(p) EXCEPT !.session = TRUE]
        IN  row.paymentIntent /\ row.status \in Settling
    BY <1>8 DEF OrderRow
  <2>2. ASSUME NEW s \in Settling
        PROVE  /\ LET row == [Row(p) EXCEPT !.status = s]
                  IN  row.paymentIntent /\ row.status \in Settling
               /\ LET row == [Row(p) EXCEPT !.status = s, !.transfer = "completed"]
                  IN  row.paymentIntent /\ row.status \in Settling
    BY <1>8, <2>2 DEF OrderRow
  <2> QED
    BY <1>1, <1>7, <1>8, <1>9, <2>1, <2>2 DEF SaveSession, WriteRefundFailed, WriteRefunded,
       WriteShipped, WritePinPending, WriteDisputed, WriteCompleted
<1>10. CASE WriteChargeback(p)
  <2>1. PICK row : /\ UpdateOrder(p, row, Done(p)) /\ row.paymentIntent = Row(p).paymentIntent
                   /\ row.status \in {"disputed", Row(p).status}
    BY <1>10, ChargebackWrites
  <2> QED
    BY <1>1, <1>7, <1>8, <2>1
<1>11. CASE RecordRefund(p)
  <2>1. PICK row, next :
          /\ UpdateOrder(p, row, next) /\ row.paymentIntent = Row(p).paymentIntent
          /\ row.status \in {"refund_pending", Row(p).status}
          /\ next \in {[Idle EXCEPT !.at = "refunded", !.o = rq[p].o], Idle}
    BY <1>11, RecordWrites
  <2> QED
    BY <1>1, <1>7, <1>8, <2>1
<1>12. /\ ~InsertOrder(p) /\ ~ExpireSession(p) /\ ~WriteCancelled(p) /\ ~Fund(p)
       /\ ~WritePaymentPending(p) /\ ~RetrieveCheckout(p) /\ ~RecheckUnpaid(p)
  BY DEF InsertOrder, ExpireSession, WriteCancelled, Fund, WritePaymentPending,
     RetrieveCheckout, RecheckUnpaid, At, InEscrow, SettlingSteps, RefundSteps
<1> QED
  BY <1>5, <1>6, <1>9, <1>10, <1>11, <1>12 DEF Step

\* Requests and events that come in, and what the provider and the network do.
LEMMA OthersStayInEscrow ==
    ASSUME NEW o, NEW p, Alone(o, p), TypeInv, InEscrow(o, p),
           \/ \E q \in Requests, e \in events : TakeEvent(q, e)
           \/ \E i \in Orders : Provider(i) \/ ReconcileOrder(i)
           \/ \E q \in Requests, i \in Orders : Request(q, i)
           \/ UNCHANGED vars
    PROVE  InEscrow(o, p)'
<1> USE DEF dbVars, providerVars
<1>1. /\ rq[p].at \in SettlingSteps /\ rq[p].next = "idle"
      /\ rq[p].evt # None => rq[p].evt.type \in SettlingEvents
      /\ order[o].paymentIntent /\ order[o].status \in Settling
  BY DEF InEscrow
<1>2. ASSUME NEW step \in {"find", "ship", "issue", "dispute"}, Begin(p, step, o),
             UNCHANGED <<dbVars, providerVars, events>>
      PROVE  InEscrow(o, p)'
  <2>1. LET r == [Idle EXCEPT !.at = step, !.o = o]
        IN  r.at \in SettlingSteps /\ r.next = "idle" /\ r.evt = None
    BY <1>2 DEF Idle, SettlingSteps
  <2> QED
    BY <1>1, <1>2, <2>1, EscrowMoves DEF Begin
<1>3. ASSUME Request(p, o) PROVE InEscrow(o, p)'
  <2>1. ~CancelUnpaid(p, o)
    BY <1>1 DEF CancelUnpaid, Settling, Confirmable, Unpaid
  <2>2. CASE Confirm(p, o)
    <3>1. LET r == [Idle EXCEPT !.at = "release", !.o = o, !.row = order[o]]
          IN  r.at \in SettlingSteps /\ r.next = "idle" /\ r.evt = None
      BY DEF Idle, SettlingSteps
    <3> QED
      BY <1>1, <2>2, <3>1, EscrowMoves DEF Confirm
  <2>3. ASSUME NEW k \in RefundKeys, NEW base \in 1 .. ItemAmount, RefundOrder(p, o, k, base)
        PROVE  InEscrow(o, p)'
    <3>1. LET r == [Idle EXCEPT !.at = "quote", !.o = o, !.row = order[o], !.key = k,
                                !.amount = base]
          IN  r.at \in SettlingSteps /\ r.next = "idle" /\ r.evt = None
      BY DEF Idle, SettlingSteps, RefundSteps
    <3> QED
      BY <1>1, <2>3, <3>1, EscrowMoves DEF RefundOrder
  <2> QED
    BY <1>2, <1>3, <2>1, <2>2, <2>3 DEF Request, BeginCheckout, MarkShipped,
       IssueHandoverCode, OpenDispute
<1>4. ASSUME NEW e \in events, TakeEvent(p, e) PROVE InEscrow(o, p)'
  <2>1. e.type \in SettlingEvents /\ UNCHANGED <<order, session>> /\ events' = events \ {e}
    BY <1>4 DEF InEscrow, TakeEvent
  <2>2. CASE Refused(e)
    BY <1>1, <1>4, <2>1, <2>2, EscrowMoves DEF TakeEvent
  <2>3. CASE ~Refused(e)
    <3>1. FirstStep(e) \in {"refunded", "refund-failed", "recover", "chargeback"}
      BY <2>1 DEF FirstStep, EventStep, SettlingEvents, DisputeTypes
    <3> DEFINE r == [Idle EXCEPT !.at = FirstStep(e), !.o = e.o, !.evt = e]
    <3>2. r.at = FirstStep(e) /\ r.next = "idle" /\ r.evt = e
      BY DEF Idle
    <3>3. rq' = [rq EXCEPT ![p] = r]
      BY <1>4, <2>3 DEF TakeEvent
    <3> HIDE DEF r
    <3>4. r.at \in SettlingSteps
      BY <3>1, <3>2 DEF SettlingSteps
    <3> QED
      BY <1>1, <2>1, <3>2, <3>3, <3>4, EscrowMoves
  <2> QED
    BY <2>2, <2>3
<1>5. ASSUME Provider(o) PROVE InEscrow(o, p)'
  <2>1. ~CustomerPays(o) /\ ~SessionExpires(o) /\ ~PaysLater(o) /\ ~AsyncSettles(o)
    BY DEF CustomerPays, SessionExpires, PaysLater, AsyncSettles, SessionEnds, InEscrow
  <2>2. NetworkDisputes(o) \/ (\E k \in RefundKeys : RefundSettles(o, k))
          => /\ UNCHANGED <<order, rq, session>>
             /\ \A e \in events' : e \in events \/ e.type \in SettlingEvents
    BY DEF NetworkDisputes, RefundSettles, Emit, DisputeMoves, SettlingEvents, DisputeTypes
  <2> QED
    BY <1>1, <1>5, <2>1, <2>2, EscrowMoves DEF Provider
<1>6. ~ReconcileOrder(o)
  BY <1>1 DEF ReconcileOrder, Settling, Confirmable, Unpaid
<1>7. CASE UNCHANGED vars
  BY <1>7 DEF vars, InEscrow
<1> QED
  BY <1>3, <1>4, <1>5, <1>6, <1>7 DEF Alone

-----------------------------------------------------------------------------
\* The steps at which a request relies on nothing it read.
LightSteps ==
    {"idle", "complete", "list", "list-write", "find", "checkout", "save-session", "dispute",
     "refunded", "refund-failed"}

\* Such a request has nothing that could have changed.
LEMMA LightIsDecided ==
    ASSUME NEW r, NEW row, NEW credited, r.at \in LightSteps
    PROVE  Decided(r, row, credited)
BY DEF Decided, LightSteps, RefundSteps

\* The steps at which a request holds an amount, or a reversal or transfer made.
HoldingSteps == SpendingSteps \cup {"recovered", "completed"}

\* The request moves between steps at which it holds no money.
LEMMA BooksStand ==
    ASSUME NEW o, NEW p, Alone(o, p), TypeInv, BooksInv(o, p),
           UNCHANGED <<ledger, reversals, transfers, order>>,
           NEW r, rq'[p] = r, rq[p].at \notin HoldingSteps, r.at \notin HoldingSteps,
           Decided(r, order[o], Credited(o))
    PROVE  BooksInv(o, p)'
<1>1. /\ Credited(o)' = Credited(o) /\ RefundedBase(o)' = RefundedBase(o)
      /\ Paid(o)' = Paid(o) /\ Claims(o)' = Claims(o) /\ Reversed(o)' = Reversed(o)
  BY DEF Credited, RefundedBase, Paid, Claims, Reversed
<1>2. /\ InFlight(r, SpendingSteps) = InFlight(rq[p], SpendingSteps)
      /\ InFlight(r, TakenSteps) = InFlight(rq[p], TakenSteps)
  BY DEF InFlight, HoldingSteps, SpendingSteps, TakenSteps
<1>3. Leg(r, order[o], Paid(o), Claims(o), Reversed(o))
  BY <1>2 DEF BooksInv, Leg, HoldingSteps, SpendingSteps, TakenSteps
<1> QED
  BY <1>1, <1>2, <1>3 DEF BooksInv, Booked

\* The order is updated with no money on the move.
LEMMA BooksKeptByUpdate ==
    ASSUME NEW o, NEW p, Alone(o, p), TypeInv, BooksInv(o, p),
           UNCHANGED <<ledger, reversals, transfers>>,
           NEW r, rq'[p] = r, rq[p].at \notin HoldingSteps, r.at \in LightSteps,
           NEW row, order'[o] = row,
           row.refundedBase = order[o].refundedBase, row.transfer = order[o].transfer,
           row.status \in Confirmable => order[o].status \in Confirmable /\ row.dispute # "lost",
           row.dispute = "lost" => row.transfer # "completed"
    PROVE  BooksInv(o, p)'
<1>1. /\ Credited(o)' = Credited(o) /\ RefundedBase(o)' = RefundedBase(o)
      /\ Paid(o)' = Paid(o) /\ Claims(o)' = Claims(o) /\ Reversed(o)' = Reversed(o)
  BY DEF Credited, RefundedBase, Paid, Claims, Reversed
<1>2. /\ InFlight(r, SpendingSteps) = InFlight(rq[p], SpendingSteps)
      /\ InFlight(r, TakenSteps) = InFlight(rq[p], TakenSteps)
  BY DEF InFlight, HoldingSteps, SpendingSteps, TakenSteps, LightSteps
<1>3. Leg(r, row, Paid(o), Claims(o), Reversed(o))
  BY <1>2 DEF BooksInv, Leg, HoldingSteps, SpendingSteps, TakenSteps, LightSteps, Due
<1> QED
  BY <1>1, <1>2, <1>3, LightIsDecided DEF BooksInv, Booked

\* What the request knows at a step of the settlement.
LEMMA SettleFacts ==
    ASSUME NEW o, NEW p, Alone(o, p), SettleInv(o, p), ~At(p, "idle")
    PROVE  /\ o \in Orders /\ p \in Workers /\ rq[p].o = o
           /\ rq[p] \in RequestState /\ order[o] \in OrderRow /\ Row(p) = order[o]
           /\ Decided(rq[p], order[o], Credited(o))
           /\ Booked(rq[p], order[o], RefundedBase(o), Credited(o))
           /\ Leg(rq[p], order[o], Paid(o), Claims(o), Reversed(o))
           /\ rq[p].at \in SettlingSteps /\ order[o].paymentIntent
<1>1. o \in Orders /\ p \in Workers
  BY DEF Alone, Workers
<1> QED
  BY <1>1, RequestFacts DEF SettleInv, BooksInv, InEscrow, Alone, Row

\* The steps of a handler that hold no money and write no order.
LEMMA ReadSettles ==
    ASSUME NEW o, NEW p, Alone(o, p), SettleInv(o, p), ~At(p, "idle"),
           \/ FindListing(p) \/ WriteListing(p) \/ CompleteEvent(p)
           \/ FindCheckout(p) \/ OpenCheckout(p)
    PROVE  BooksInv(o, p)'
<1> USE DEF dbVars, providerVars
<1>1. /\ rq[p].at \in LightSteps /\ p \in Workers /\ rq \in [Workers -> RequestState]
      /\ UNCHANGED <<ledger, reversals, transfers, order>>
  BY SettleFacts DEF FindListing, WriteListing, CompleteEvent, FindCheckout, OpenCheckout, At,
     LightSteps, SettleInv, TypeInv, TypeOK
<1>2. Ends(Idle) /\ Ends(Done(p)) /\ rq[p].next = "idle" /\ order[o].status \in Settling
  BY EscrowEnds DEF SettleInv, InEscrow
<1>4. \/ rq' = [rq EXCEPT ![p] = Idle]
      \/ rq' = [rq EXCEPT ![p] = Done(p)]
      \/ \E step \in LightSteps : rq' = [rq EXCEPT ![p].at = step]
  <2>1. {"list-write", "checkout", "save-session"} \subseteq LightSteps
    BY DEF LightSteps
  <2>2. FindCheckout(p) => Finish(p) \/ Goto(p, "checkout")
    BY <1>2, SettleFacts DEF FindCheckout, Settling, Confirmable
  <2> QED
    BY <1>2, <2>1, <2>2 DEF FindListing, WriteListing, CompleteEvent, OpenCheckout, Resume,
       Finish, Goto
<1>5. PICK r : rq'[p] = r /\ r.at \in LightSteps
  BY <1>1, <1>2, <1>4 DEF Ends, LightSteps, RequestState
<1>6. LightSteps \cap HoldingSteps = {}
  BY DEF LightSteps, HoldingSteps, SpendingSteps
<1> QED
  BY <1>1, <1>5, <1>6, LightIsDecided, BooksStand DEF SettleInv

\* The steps of a handler that write a status, or an older status, only.
LEMMA WriteSettles ==
    ASSUME NEW o, NEW p, Alone(o, p), SettleInv(o, p), ~At(p, "idle"),
           \/ SaveSession(p) \/ WriteRefundFailed(p) \/ WriteRefunded(p)
           \/ WriteShipped(p) \/ WritePinPending(p) \/ WriteDisputed(p)
    PROVE  BooksInv(o, p)'
<1> DEFINE old == order[o]
<1>1. /\ Row(p) = old /\ old \in OrderRow /\ rq[p].o = o
      /\ Decided(rq[p], old, Credited(o)) /\ rq[p].at \notin HoldingSteps
  BY SettleFacts DEF SaveSession, WriteRefundFailed, WriteRefunded, WriteShipped,
     WritePinPending, WriteDisputed, At, HoldingSteps, SpendingSteps
<1> DEFINE Keeps(row) ==
             /\ row.refundedBase = old.refundedBase /\ row.transfer = old.transfer
             /\ row.dispute = old.dispute
             /\ row.status \in Confirmable => old.status \in Confirmable
<1>2. \E row, next : UpdateOrder(p, row, next) /\ Ends(next) /\ Keeps(row)
  <2>1. /\ Ends(Idle) /\ Ends(Done(p))
        /\ Ends(ThenList(p, "published", "reserved", "idle"))
    BY EscrowEnds DEF SettleInv
  <2>2. ASSUME NEW s, s \in Confirmable => old.status \in Confirmable
        PROVE  Keeps([old EXCEPT !.status = s])
    BY <1>1, <2>2 DEF OrderRow
  <2>3. Keeps([old EXCEPT !.session = TRUE])
    BY <1>1 DEF OrderRow
  <2>4. Keeps([old EXCEPT !.status = "disputed"]) /\ Keeps([old EXCEPT !.status = "refunded"])
    BY <2>2 DEF Confirmable
  <2>5. WriteShipped(p) \/ WritePinPending(p)
          => /\ Keeps([old EXCEPT !.status = "shipped"])
             /\ Keeps([old EXCEPT !.status = "pin_pending"])
    BY <1>1, <2>2 DEF WriteShipped, WritePinPending, At, Decided, Confirmable
  <2>6. SaveSession(p) => UpdateOrder(p, [old EXCEPT !.session = TRUE], Idle)
    BY <1>1 DEF SaveSession
  <2>7. WriteRefundFailed(p) => UpdateOrder(p, [old EXCEPT !.status = "disputed"], Done(p))
    BY <1>1 DEF WriteRefundFailed
  <2>8. WriteDisputed(p) => UpdateOrder(p, [old EXCEPT !.status = "disputed"], Idle)
    BY <1>1 DEF WriteDisputed
  <2>9. WriteRefunded(p) => UpdateOrder(p, [old EXCEPT !.status = "refunded"],
                                        ThenList(p, "published", "reserved", "idle"))
    BY <1>1 DEF WriteRefunded
  <2>10. /\ WriteShipped(p) => UpdateOrder(p, [old EXCEPT !.status = "shipped"], Idle)
         /\ WritePinPending(p) => UpdateOrder(p, [old EXCEPT !.status = "pin_pending"], Idle)
    BY <1>1 DEF WriteShipped, WritePinPending
  <2> HIDE DEF Keeps, old
  <2> QED
    BY <2>1, <2>3, <2>4, <2>5, <2>6, <2>7, <2>8, <2>9, <2>10
<1>3. PICK row, next : UpdateOrder(p, row, next) /\ Ends(next) /\ Keeps(row)
  BY <1>2
<1>4. /\ order'[o] = row /\ rq'[p] = next /\ UNCHANGED <<ledger, reversals, transfers>>
      /\ next.at \in LightSteps
  BY <1>1, <1>3, UpdateAlone DEF SettleInv, Ends, LightSteps, providerVars
<1>5. /\ old.status \in Confirmable => old.dispute # "lost"
      /\ old.dispute = "lost" => old.transfer # "completed"
  BY SettleFacts DEF Leg
<1> HIDE DEF old
<1> QED
  BY <1>1, <1>3, <1>4, <1>5, BooksKeptByUpdate DEF SettleInv, old

\* The record of a dispute: of one whose funds were withdrawn or lost, only after the
\* transfer was recovered or when there is nothing to recover.
LEMMA ChargebackSettles ==
    ASSUME NEW o, NEW p, Alone(o, p), SettleInv(o, p), ~At(p, "idle"), WriteChargeback(p)
    PROVE  BooksInv(o, p)'
<1> DEFINE old == order[o]
           type == rq[p].evt.type
<1>1. /\ Row(p) = old /\ old \in OrderRow /\ rq[p].o = o /\ o \in Orders
      /\ Decided(rq[p], old, Credited(o))
      /\ Leg(rq[p], old, Paid(o), Claims(o), Reversed(o))
      /\ Booked(rq[p], old, RefundedBase(o), Credited(o))
  BY SettleFacts
<1>2. PICK row :
        /\ UpdateOrder(p, row, Done(p))
        /\ row.refundedBase = old.refundedBase
        /\ row.status = IF ChargebackStatus(type) \in {"won", "withdrawn"}
                        THEN old.status ELSE "disputed"
        /\ row.dispute = ChargebackStatus(type)
        /\ row.transfer = IF At(p, "recovered") THEN "reversed" ELSE old.transfer
  BY <1>1, ChargebackWrites
<1>3. /\ order'[o] = row /\ rq'[p] = Done(p) /\ UNCHANGED <<ledger, reversals, transfers>>
      /\ Done(p).at \in LightSteps
  BY <1>1, <1>2, UpdateAlone, EscrowEnds DEF SettleInv, Ends, LightSteps, providerVars
<1>4. row.status \in Confirmable => old.status \in Confirmable /\ row.dispute # "lost"
  BY <1>2 DEF Confirmable
<1>5. CASE At(p, "chargeback")
  <2>1. row.dispute = "lost" => row.transfer # "completed"
    BY <1>1, <1>2, <1>5 DEF Decided, At, ChargebackStatus
  <2>2. rq[p].at \notin HoldingSteps
    BY <1>5 DEF At, HoldingSteps, SpendingSteps
  <2> HIDE DEF old, type
  <2> QED
    BY <1>2, <1>3, <1>4, <1>5, <2>1, <2>2, BooksKeptByUpdate DEF SettleInv, At, old
<1>6. CASE At(p, "recovered")
  <2>1. row.status = "disputed" /\ row.transfer = "reversed"
    BY <1>1, <1>2, <1>6 DEF Decided, At, FundsLost, ChargebackStatus
  <2>2. Reversed(o) = SellerAmount
    BY <1>1, <1>6 DEF Leg, At
  <2> HIDE DEF old, type
  <2>3. Leg(Done(p), row, Paid(o), Claims(o), Reversed(o))
    BY <1>1, <1>3, <2>1, <2>2 DEF Leg, LightSteps, Confirmable, TakenSteps
  <2>4. Booked(Done(p), row, RefundedBase(o), Credited(o))
    BY <1>1, <1>2, <1>3, <1>6 DEF Booked, InFlight, LightSteps, SpendingSteps, At
  <2>5. Decided(Done(p), row, Credited(o))
    BY <1>3, LightIsDecided
  <2>6. /\ Credited(o)' = Credited(o) /\ RefundedBase(o)' = RefundedBase(o)
        /\ Paid(o)' = Paid(o) /\ Claims(o)' = Claims(o) /\ Reversed(o)' = Reversed(o)
    BY <1>3 DEF Credited, RefundedBase, Paid, Claims, Reversed
  <2> QED
    BY <1>1, <1>3, <2>3, <2>4, <2>5, <2>6 DEF BooksInv
<1> QED
  BY <1>5, <1>6 DEF WriteChargeback, At

\* The payout: the transfer is made while nothing was reversed, and then recorded.
LEMMA PayoutSettles ==
    ASSUME NEW o, NEW p, Alone(o, p), SettleInv(o, p), ~At(p, "idle"),
           ReleaseSellerFunds(p) \/ WriteCompleted(p)
    PROVE  BooksInv(o, p)'
<1> DEFINE old == order[o]
<1>1. /\ Row(p) = old /\ old \in OrderRow /\ rq[p].o = o /\ o \in Orders /\ p \in Workers
      /\ rq[p] \in RequestState /\ Decided(rq[p], old, Credited(o))
      /\ Leg(rq[p], old, Paid(o), Claims(o), Reversed(o))
      /\ Booked(rq[p], old, RefundedBase(o), Credited(o))
      /\ old.paymentIntent
  BY SettleFacts
<1>2. rq[p].at \in {"release", "completed"}
  BY DEF ReleaseSellerFunds, WriteCompleted, At
<1>3. /\ rq[p].row = old /\ old.status \in Confirmable /\ old.dispute # "lost"
      /\ old.transfer = "pending" /\ Reversed(o) = 0
  BY <1>1, <1>2 DEF Decided, Leg
<1>4. CASE ReleaseSellerFunds(p)
  <2>1. Goto(p, "completed") /\ UNCHANGED <<ledger, reversals, order>>
    BY <1>1, <1>3, <1>4 DEF ReleaseSellerFunds, dbVars
  <2> DEFINE r == [rq[p] EXCEPT !.at = "completed"]
  <2>2. rq'[p] = r /\ r.at = "completed" /\ r.row = old /\ rq[p].at = "release"
    BY <1>1, <1>3, <1>4, <2>1 DEF Goto, RequestState, ReleaseSellerFunds, At, SettleInv,
       TypeInv, TypeOK
  <2> HIDE DEF r, old
  <2>3. /\ Credited(o)' = Credited(o) /\ RefundedBase(o)' = RefundedBase(o)
        /\ Claims(o)' = Claims(o) /\ Reversed(o)' = Reversed(o)
    BY <2>1 DEF Credited, RefundedBase, Claims, Reversed
  <2>4. Decided(r, old, Credited(o))
    BY <1>3, <2>2 DEF Decided, RefundSteps
  <2>5. Booked(r, old, RefundedBase(o), Credited(o))
    BY <1>1, <2>2 DEF Booked, InFlight, SpendingSteps
  <2>6. ASSUME NEW paid
        PROVE  Leg(r, old, paid, Claims(o), Reversed(o))
    BY <1>1, <1>3, <2>2 DEF Leg, InFlight, TakenSteps
  <2> QED
    BY <2>1, <2>2, <2>3, <2>4, <2>5, <2>6 DEF BooksInv, old
<1>5. CASE WriteCompleted(p)
  <2> DEFINE row == [old EXCEPT !.status = "completed", !.transfer = "completed"]
             next == ThenList(p, "sold", None, "idle")
  <2>1. /\ order'[o] = row /\ rq'[p] = next /\ UNCHANGED <<ledger, reversals, transfers>>
        /\ next.at \in LightSteps
    BY <1>1, <1>5, UpdateAlone, EscrowEnds
       DEF WriteCompleted, SettleInv, Ends, LightSteps, providerVars
  <2>2. /\ row.status = "completed" /\ row.transfer = "completed"
        /\ row.dispute = old.dispute /\ row.refundedBase = old.refundedBase
    BY <1>1 DEF OrderRow
  <2> HIDE DEF row, next, old
  <2>3. /\ Credited(o)' = Credited(o) /\ RefundedBase(o)' = RefundedBase(o)
        /\ Paid(o)' = Paid(o) /\ Claims(o)' = Claims(o) /\ Reversed(o)' = Reversed(o)
    BY <2>1 DEF Credited, RefundedBase, Paid, Claims, Reversed
  <2>4. /\ InFlight(next, SpendingSteps) = InFlight(rq[p], SpendingSteps)
        /\ InFlight(next, TakenSteps) = InFlight(rq[p], TakenSteps)
    BY <1>2, <2>1 DEF InFlight, LightSteps, SpendingSteps, TakenSteps
  <2>5. /\ old.refundedBase \in Nat /\ old.refundedBase <= ItemAmount /\ ItemAmount \in Nat
        /\ InFlight(rq[p], TakenSteps) = 0 /\ InFlight(rq[p], SpendingSteps) = 0
    BY <1>1, <1>2, OrdersAssumption
       DEF InFlight, SpendingSteps, TakenSteps, Booked, OrderRow, old
  <2>6. Proportional(row.refundedBase + InFlight(next, TakenSteps)) \in Nat
    BY <2>2, <2>4, <2>5, ProportionalGrows
  <2>7. Leg(next, row, Paid(o), Claims(o), Reversed(o))
    BY <1>1, <1>3, <2>1, <2>2, <2>4, <2>6 DEF Leg, LightSteps, Confirmable
  <2>8. Booked(next, row, RefundedBase(o), Credited(o))
    BY <1>1, <2>2, <2>4 DEF Booked
  <2> QED
    BY <1>1, <2>1, <2>3, <2>7, <2>8, LightIsDecided DEF BooksInv
<1> QED
  BY <1>4, <1>5

\* A reversal adds its amount to what was reversed, once for its key.
LEMMA ReversalAdds ==
    ASSUME TypeInv, NEW o \in Orders, NEW k \in ReversalKeys, NEW amount \in Nat,
           Reverse(o, k, amount)
    PROVE  /\ Reversed(o) \in Nat /\ reversals[o][k] <= Reversed(o) /\ reversals[o][k] \in Nat
           /\ Reversed(o)' = IF reversals[o][k] = 0 THEN Reversed(o) + amount ELSE Reversed(o)
<1>1. IsFiniteSet(ReversalKeys) /\ reversals \in [Orders -> [ReversalKeys -> Nat]]
  BY OrdersAssumption, FS_AddElement DEF ReversalKeys, TypeInv, TypeOK
<1> DEFINE f == reversals[o]
           h == reversals'[o]
<1>2. /\ f \in [ReversalKeys -> Nat] /\ h \in [ReversalKeys -> Nat]
      /\ h[k] = IF f[k] = 0 THEN amount ELSE f[k]
      /\ \A j \in ReversalKeys \ {k} : h[j] = f[j]
  BY <1>1 DEF Reverse
<1> HIDE DEF f, h
<1>3. SumFunction(h) = SumFunction(f) - f[k] + h[k]
  BY <1>1, <1>2, SumUpdate
<1>4. SumFunction(f) \in Nat /\ f[k] <= SumFunction(f) /\ f[k] \in Nat
  BY <1>1, <1>2, SumNat
<1> QED
  BY <1>2, <1>3, <1>4 DEF Reversed, f, h

\* The recovery of the seller leg, before anything else was reversed.
LEMMA RecoverSettles ==
    ASSUME NEW o, NEW p, Alone(o, p), SettleInv(o, p), ~At(p, "idle"), RecoverSellerLeg(p)
    PROVE  BooksInv(o, p)'
<1> DEFINE old == order[o]
<1>1. /\ old \in OrderRow /\ rq[p].o = o /\ o \in Orders /\ p \in Workers
      /\ rq[p] \in RequestState /\ Decided(rq[p], old, Credited(o))
      /\ Leg(rq[p], old, Paid(o), Claims(o), Reversed(o))
      /\ Booked(rq[p], old, RefundedBase(o), Credited(o))
  BY SettleFacts
<1>2. /\ rq[p].at = "recover" /\ old.transfer = "completed" /\ old.status \notin Confirmable
      /\ old.dispute # "lost" /\ FundsLost(rq[p].evt.type) /\ Reversed(o) = 0
  BY <1>1 DEF RecoverSellerLeg, At, Decided, Leg, TakenSteps
<1>3. /\ UNCHANGED <<order, ledger, transfers>> /\ rq \in [Workers -> RequestState]
      /\ rq[p].at \notin HoldingSteps
  BY <1>2 DEF RecoverSellerLeg, dbVars, HoldingSteps, SpendingSteps, SettleInv, TypeInv, TypeOK
<1>4. CASE MayReverse(o, "chargeback", SellerAmount)
  <2> DEFINE r == [rq[p] EXCEPT !.at = "recovered"]
  <2>1. Reverse(o, "chargeback", SellerAmount) /\ rq'[p] = r
    BY <1>1, <1>3, <1>4 DEF RecoverSellerLeg, Goto
  <2>2. r.at = "recovered" /\ r.evt = rq[p].evt /\ r.amount = rq[p].amount
    BY <1>1 DEF RequestState
  <2> HIDE DEF r, old
  <2>3. Reversed(o)' = SellerAmount
    <3>1. "chargeback" \in ReversalKeys /\ SellerAmount \in Nat
      BY OrdersAssumption DEF ReversalKeys
    <3> QED
      BY <1>1, <1>2, <2>1, <3>1, ReversalAdds DEF SettleInv
  <2>4. /\ Credited(o)' = Credited(o) /\ RefundedBase(o)' = RefundedBase(o)
        /\ Paid(o)' = Paid(o) /\ Claims(o)' = Claims(o)
    BY <1>3 DEF Credited, RefundedBase, Paid, Claims
  <2>5. /\ InFlight(r, SpendingSteps) = 0 /\ InFlight(rq[p], SpendingSteps) = 0
    BY <1>2, <2>2 DEF InFlight, SpendingSteps
  <2>6. Booked(r, old, RefundedBase(o), Credited(o))
    BY <1>1, <2>5 DEF Booked
  <2>7. Decided(r, old, Credited(o))
    BY <1>2, <2>2 DEF Decided, RefundSteps
  <2>8. Leg(r, old, Paid(o), Claims(o), SellerAmount)
    BY <1>2, <2>2 DEF Leg
  <2> QED
    BY <1>3, <2>1, <2>3, <2>4, <2>6, <2>7, <2>8 DEF BooksInv, old
<1>5. CASE ~MayReverse(o, "chargeback", SellerAmount)
  <2>1. rq'[p] = Idle /\ UNCHANGED reversals
    BY <1>1, <1>3, <1>5 DEF RecoverSellerLeg, Throw, Finish
  <2>2. Idle.at \in LightSteps /\ Idle.at \notin HoldingSteps
    BY DEF Idle, LightSteps, HoldingSteps, SpendingSteps
  <2> QED
    BY <1>3, <2>1, <2>2, LightIsDecided, BooksStand DEF SettleInv
<1> QED
  BY <1>4, <1>5

-----------------------------------------------------------------------------
(* The steps of the one refund that is under way.                          *)

\* What a refund has read, and that nothing changed since.
LEMMA RefundFacts ==
    ASSUME NEW o, NEW p, Alone(o, p), SettleInv(o, p), rq[p].at \in RefundSteps
    PROVE  /\ o \in Orders /\ p \in Workers /\ rq[p].o = o /\ rq[p].key \in RefundKeys
           /\ rq[p] \in RequestState /\ order[o] \in OrderRow /\ rq[p].row = order[o]
           /\ rq \in [Workers -> RequestState]
           /\ Row(p) = order[o] /\ order[o].paymentIntent
           /\ rq[p].amount \in Nat \ {0} /\ order[o].refundedBase \in Nat
           /\ order[o].refundedBase + rq[p].amount <= ItemAmount /\ ItemAmount \in Nat \ {0}
           /\ TotalCharged \in Nat /\ ItemAmount <= TotalCharged
           /\ IsFull(p) <=> order[o].refundedBase + rq[p].amount = ItemAmount
           /\ RefundedBase(o) \in Nat /\ Credited(o) \in Nat /\ Reversed(o) \in Nat
<1>1. ~At(p, "idle")
  BY DEF At, RefundSteps
<1>2. /\ o \in Orders /\ p \in Workers /\ rq[p].o = o
      /\ rq[p] \in RequestState /\ order[o] \in OrderRow /\ Row(p) = order[o]
      /\ Decided(rq[p], order[o], Credited(o)) /\ order[o].paymentIntent
  BY <1>1, SettleFacts
<1>3. /\ rq[p].row = order[o] /\ rq[p].amount \in Nat \ {0}
      /\ order[o].refundedBase + rq[p].amount <= ItemAmount
  BY <1>2 DEF Decided
<1>4. rq[p].key \in RefundKeys /\ rq \in [Workers -> RequestState]
  BY <1>2 DEF SettleInv, TypeInv, TypeOK, WellFormed
<1>5. /\ RefundedBase(o) \in Nat /\ Credited(o) \in Nat /\ Reversed(o) \in Nat
      /\ order[o].refundedBase \in Nat
  BY <1>2, LedgerSums, ReversedType DEF SettleInv, OrderRow
<1>6. /\ ItemAmount \in Nat \ {0} /\ TotalCharged \in Nat /\ ItemAmount <= TotalCharged
  BY OrdersAssumption DEF TotalCharged
<1> QED
  BY <1>2, <1>3, <1>4, <1>5, <1>6 DEF IsFull

\* The amount due is the share of the transfer that the refund adds.
LEMMA DueIsShare ==
    ASSUME NEW o, NEW p, Alone(o, p), SettleInv(o, p), rq[p].at \in RefundSteps
    PROVE  LET before == Proportional(order[o].refundedBase)
               after  == Proportional(order[o].refundedBase + rq[p].amount)
           IN  /\ ReversalDue(p) = Due(order[o], rq[p].amount)
               /\ before \in Nat /\ after \in Nat /\ before <= after /\ after <= SellerAmount
<1> DEFINE base == order[o].refundedBase
           amount == rq[p].amount
<1>1. /\ base \in 0 .. ItemAmount /\ base + amount \in 0 .. ItemAmount
      /\ base <= base + amount /\ ItemAmount \in 0 .. ItemAmount
  BY RefundFacts
<1>2. /\ Proportional(base) \in Nat /\ Proportional(base + amount) \in Nat
      /\ Proportional(base) <= Proportional(base + amount)
      /\ Proportional(ItemAmount) = SellerAmount
      /\ Proportional(base + amount) <= Proportional(ItemAmount)
  BY <1>1, ProportionalGrows
<1>3. ReversalDue(p) = Due(order[o], amount)
  BY <1>2, RefundFacts DEF ReversalDue, Due
<1> QED
  BY <1>2, <1>3

\* A quote holds what the claim relies on.
LEMMA QuoteSettles ==
    ASSUME NEW o, NEW p, Alone(o, p), SettleInv(o, p), QuoteRefund(p)
    PROVE  BooksInv(o, p)'
<1>1. rq[p].at = "quote" /\ rq[p].at \in RefundSteps /\ rq[p].at \notin HoldingSteps
  BY DEF QuoteRefund, At, RefundSteps, HoldingSteps, SpendingSteps
<1>2. /\ rq[p].o = o /\ p \in Workers /\ rq \in [Workers -> RequestState]
      /\ rq[p] \in RequestState /\ rq[p].row = order[o]
      /\ IsFull(p) <=> order[o].refundedBase + rq[p].amount = ItemAmount
      /\ rq[p].amount \in Nat \ {0} /\ order[o].refundedBase + rq[p].amount <= ItemAmount
  BY <1>1, RefundFacts
<1>3. UNCHANGED <<ledger, reversals, transfers, order>>
  BY DEF QuoteRefund, dbVars, providerVars
<1> DEFINE credit == IF IsFull(p) THEN TotalCharged - Credited(o) ELSE rq[p].amount
           r == [rq[p] EXCEPT !.at = "claim", !.credit = credit]
<1>4. rq'[p] \in {r, Idle}
  BY <1>2 DEF QuoteRefund
<1>5. /\ r.at = "claim" /\ r.row = order[o] /\ r.amount = rq[p].amount
      /\ r.credit = IF order[o].refundedBase + rq[p].amount = ItemAmount
                    THEN TotalCharged - Credited(o) ELSE rq[p].amount
  BY <1>2 DEF RequestState
<1> HIDE DEF r
<1>6. Decided(r, order[o], Credited(o)) /\ r.at \notin HoldingSteps
  BY <1>2, <1>5 DEF Decided, RefundSteps, HoldingSteps, SpendingSteps
<1>7. Idle.at \in LightSteps /\ Idle.at \notin HoldingSteps
  BY DEF Idle, LightSteps, HoldingSteps, SpendingSteps
<1>8. Decided(Idle, order[o], Credited(o))
  BY <1>7, LightIsDecided
<1> QED
  BY <1>1, <1>3, <1>4, <1>6, <1>7, <1>8, BooksStand DEF SettleInv

\* A claim enters the books with what the order's running total will add.
LEMMA ClaimSettles ==
    ASSUME NEW o, NEW p, Alone(o, p), SettleInv(o, p), ClaimRefund(p)
    PROVE  BooksInv(o, p)'
<1> DEFINE k == rq[p].key
           entry == [base |-> rq[p].amount, credited |-> rq[p].credit,
                     full |-> IsFull(p), status |-> "pending"]
           r == [rq[p] EXCEPT !.at = "reverse"]
<1>1. /\ rq[p].at = "claim" /\ rq[p].at \in RefundSteps /\ rq[p].at \notin HoldingSteps
      /\ ~At(p, "idle")
  BY DEF ClaimRefund, At, RefundSteps, HoldingSteps, SpendingSteps
<1>2. /\ rq[p].o = o /\ o \in Orders /\ p \in Workers /\ rq \in [Workers -> RequestState]
      /\ rq[p] \in RequestState /\ rq[p].row = order[o] /\ k \in RefundKeys
      /\ rq[p].amount \in Nat \ {0} /\ order[o].refundedBase + rq[p].amount <= ItemAmount
      /\ order[o].refundedBase \in Nat /\ order[o].paymentIntent
      /\ RefundedBase(o) \in Nat /\ Credited(o) \in Nat /\ Reversed(o) \in Nat
      /\ ItemAmount \in Nat \ {0} /\ TotalCharged \in Nat
  BY <1>1, RefundFacts
<1>3. /\ Decided(rq[p], order[o], Credited(o))
      /\ Booked(rq[p], order[o], RefundedBase(o), Credited(o))
      /\ Leg(rq[p], order[o], Paid(o), Claims(o), Reversed(o))
  BY <1>1, SettleFacts
<1>4. UNCHANGED <<order, reversals, transfers>>
  BY DEF ClaimRefund, providerVars
<1>5. CASE ledger[o][k] # None
  <2>1. rq'[p] = Idle /\ UNCHANGED ledger
    BY <1>2, <1>5 DEF ClaimRefund, Finish
  <2>2. Idle.at \in LightSteps /\ Idle.at \notin HoldingSteps
    BY DEF Idle, LightSteps, HoldingSteps, SpendingSteps
  <2> QED
    BY <1>1, <1>4, <2>1, <2>2, LightIsDecided, BooksStand DEF SettleInv
<1>6. CASE ledger[o][k] = None
  <2>1. ledger' = [ledger EXCEPT ![o][k] = entry] /\ rq'[p] = r
    BY <1>2, <1>6 DEF ClaimRefund, Goto
  <2>2. entry \in LedgerRow /\ entry.base = rq[p].amount /\ entry.credited = rq[p].credit
    <3>1. rq[p].credit \in Nat \ {0} /\ IsFull(p) \in BOOLEAN
      BY <1>1, <1>2 DEF SettleInv, TypeInv, WellFormed, RequestState, IsFull
    <3> QED
      BY <1>2, <3>1 DEF LedgerRow
  <2>3. /\ r.at = "reverse" /\ r.row = order[o] /\ r.amount = rq[p].amount
    BY <1>2 DEF RequestState
  <2> HIDE DEF entry, r, k
  <2>4. /\ RefundedBase(o)' = RefundedBase(o) + rq[p].amount
        /\ Credited(o)' = Credited(o) + rq[p].credit
    <3>1. TypeInv /\ o \in Orders /\ k \in RefundKeys /\ ledger' = [ledger EXCEPT ![o][k] = entry]
      BY <1>2, <2>1 DEF SettleInv
    <3>2. /\ RefundedBase(o)' = RefundedBase(o) - BaseOf(ledger[o][k]) + entry.base
          /\ Credited(o)' = Credited(o) - CreditedOf(ledger[o][k]) + entry.credited
      BY <2>2, <3>1, LedgerWrite
    <3>3. BaseOf(ledger[o][k]) = 0 /\ CreditedOf(ledger[o][k]) = 0
      BY <1>6 DEF BaseOf, CreditedOf
    <3> QED
      BY <1>2, <2>2, <3>2, <3>3
  <2>5. /\ RefundedBase(o) = order[o].refundedBase
        /\ Credited(o) = IF RefundedBase(o) = ItemAmount THEN TotalCharged ELSE RefundedBase(o)
        /\ rq[p].credit = IF order[o].refundedBase + rq[p].amount = ItemAmount
                          THEN TotalCharged - Credited(o) ELSE rq[p].amount
    BY <1>1, <1>2, <1>3 DEF Booked, InFlight, Decided, SpendingSteps
  <2>6. Booked(r, order[o], RefundedBase(o)', Credited(o)')
    <3>1. InFlight(r, SpendingSteps) = rq[p].amount
      BY <2>3 DEF InFlight, SpendingSteps
    <3> QED
      BY <1>2, <2>4, <2>5, <3>1 DEF Booked
  <2>7. Decided(r, order[o], Credited(o)')
    BY <1>2, <2>3 DEF Decided, RefundSteps
  <2>8. Claims(o) \subseteq Claims(o)' /\ Paid(o)' = Paid(o) /\ Reversed(o)' = Reversed(o)
    <3>1. entry # None
      BY <2>2, RowAssumption
    <3> QED
      BY <1>2, <1>4, <2>1, <3>1 DEF Claims, Paid, Reversed, SettleInv, TypeInv, TypeOK
  <2>9. Leg(r, order[o], Paid(o), Claims(o)', Reversed(o))
    <3>1. InFlight(r, TakenSteps) = 0 /\ InFlight(rq[p], TakenSteps) = 0
      BY <1>1, <2>3 DEF InFlight, TakenSteps
    <3> QED
      BY <1>1, <1>3, <2>3, <2>8, <3>1 DEF Leg, TakenSteps
  <2> QED
    BY <1>4, <2>1, <2>6, <2>7, <2>8, <2>9 DEF BooksInv
<1> QED
  BY <1>5, <1>6

\* The reversal is made or not due, and is never refused.
LEMMA ReverseSettles ==
    ASSUME NEW o, NEW p, Alone(o, p), SettleInv(o, p), ReverseTransfer(p)
    PROVE  BooksInv(o, p)'
<1> DEFINE old == order[o]
           due == ReversalDue(p)
           r == [rq[p] EXCEPT !.at = "refund"]
           before == Proportional(old.refundedBase)
           after == Proportional(old.refundedBase + rq[p].amount)
<1>1. /\ rq[p].at = "reverse" /\ rq[p].at \in RefundSteps /\ ~At(p, "idle")
  BY DEF ReverseTransfer, At, RefundSteps
<1>2. /\ rq[p].o = o /\ o \in Orders /\ p \in Workers /\ rq \in [Workers -> RequestState]
      /\ rq[p] \in RequestState /\ rq[p].row = old /\ rq[p].key \in ReversalKeys
      /\ rq[p].amount \in Nat \ {0} /\ old.refundedBase + rq[p].amount <= ItemAmount
      /\ old.refundedBase \in Nat /\ Reversed(o) \in Nat
  BY <1>1, RefundFacts DEF ReversalKeys
<1>3. /\ Decided(rq[p], old, Credited(o))
      /\ Booked(rq[p], old, RefundedBase(o), Credited(o))
      /\ Leg(rq[p], old, Paid(o), Claims(o), Reversed(o))
  BY <1>1, SettleFacts
<1>4. UNCHANGED <<order, ledger, transfers>>
  BY DEF ReverseTransfer, dbVars
<1>5. /\ due = Due(old, rq[p].amount) /\ before \in Nat /\ after \in Nat
      /\ before <= after /\ after <= SellerAmount /\ SellerAmount \in Nat
  BY <1>1, DueIsShare, OrdersAssumption
<1>6. /\ r.at = "refund" /\ r.row = old /\ r.amount = rq[p].amount
  BY <1>2 DEF RequestState
<1> HIDE DEF due, r, before, after, old
<1>7. /\ old.transfer \in {"completed", "partially_reversed"} => Reversed(o) <= before
      /\ old.transfer = "completed" => Reversed(o) = 0
  <2>1. InFlight(rq[p], TakenSteps) = 0
    BY <1>1 DEF InFlight, TakenSteps
  <2> QED
    BY <1>1, <1>2, <1>3, <2>1 DEF Leg, TakenSteps, before
<1>8. /\ InFlight(r, SpendingSteps) = rq[p].amount
      /\ InFlight(rq[p], SpendingSteps) = rq[p].amount
      /\ InFlight(r, TakenSteps) = rq[p].amount
  BY <1>1, <1>6 DEF InFlight, SpendingSteps, TakenSteps
<1>9. Booked(r, old, RefundedBase(o), Credited(o)) /\ Decided(r, old, Credited(o))
  BY <1>2, <1>3, <1>6, <1>8 DEF Booked, Decided, RefundSteps
<1>10. /\ Credited(o)' = Credited(o) /\ RefundedBase(o)' = RefundedBase(o)
       /\ Paid(o)' = Paid(o) /\ Claims(o)' = Claims(o)
  BY <1>4 DEF Credited, RefundedBase, Paid, Claims
<1>11. ASSUME rq'[p] = r, Leg(r, old, Paid(o), Claims(o), Reversed(o)') PROVE BooksInv(o, p)'
  BY <1>4, <1>9, <1>10, <1>11 DEF BooksInv, old
<1>12. CASE due <= 0
  <2>1. rq'[p] = r /\ UNCHANGED reversals
    BY <1>2, <1>12 DEF ReverseTransfer, Goto, due, r
  <2>2. Reversed(o)' = Reversed(o)
    BY <2>1 DEF Reversed
  <2>3. Leg(r, old, Paid(o), Claims(o), Reversed(o))
    BY <1>1, <1>2, <1>3, <1>5, <1>6, <1>7, <1>8 DEF Leg, after
  <2> QED
    BY <1>11, <2>1, <2>2, <2>3
<1>13. CASE ~(due <= 0)
  <2>1. old.transfer \in {"completed", "partially_reversed"} /\ due = after - before
    BY <1>5, <1>13 DEF Due, before, after
  <2>2. Reversed(o) + due <= after /\ due \in Nat
    BY <1>2, <1>5, <1>7, <1>13, <2>1
  <2>3. \E t \in transfers : t.o = o
    BY <1>2, <2>1 DEF SettleInv, MoneyInv, TablesBacked, RowBacked, PaidOut, old
  <2>4. MayReverse(o, rq[p].key, due)
    BY <1>2, <1>5, <2>2, <2>3 DEF MayReverse
  <2>5. Reverse(o, rq[p].key, due) /\ rq'[p] = r
    BY <1>2, <1>13, <2>4 DEF ReverseTransfer, Goto, due, r
  <2>6. Reversed(o)' \in Nat /\ Reversed(o)' <= after
    BY <1>2, <1>5, <2>2, <2>5, ReversalAdds DEF SettleInv
  <2>7. Leg(r, old, Paid(o), Claims(o), Reversed(o)')
    BY <1>1, <1>3, <1>5, <1>6, <1>8, <1>13, <2>1, <2>6 DEF Leg, after, TakenSteps
  <2> QED
    BY <1>11, <2>5, <2>7
<1> QED
  BY <1>12, <1>13

\* The provider never refuses the refund: what it refunded and what the request is
\* about to are both in the ledger.
LEMMA RefundIsWithinCharge ==
    ASSUME NEW o, NEW p, Alone(o, p), SettleInv(o, p), rq[p].at = "refund"
    PROVE  RefundedAtProvider(o) + rq[p].credit <= TotalCharged
<1> DEFINE k == rq[p].key
           f == [j \in RefundKeys |->
                   IF refunds[o][j] \in {"pending", "succeeded"} THEN ledger[o][j].credited ELSE 0]
           g == [f EXCEPT ![k] = rq[p].credit]
           h == [j \in RefundKeys |->
                   IF ledger[o][j] = None THEN 0 ELSE ledger[o][j].credited]
<1>1. rq[p].at \in RefundSteps /\ ~At(p, "idle")
  BY DEF RefundSteps, At
<1>2. /\ rq[p].o = o /\ o \in Orders /\ p \in Workers /\ k \in RefundKeys
      /\ rq[p] \in RequestState
      /\ Credited(o) \in Nat /\ RefundedBase(o) \in Nat
      /\ ItemAmount \in Nat \ {0} /\ TotalCharged \in Nat /\ ItemAmount <= TotalCharged
  BY <1>1, RefundFacts
<1>3. Credited(o) <= TotalCharged
  <2>1. Booked(rq[p], order[o], RefundedBase(o), Credited(o))
    BY <1>1, SettleFacts
  <2> QED
    BY <1>2, <2>1 DEF Booked
<1>4. /\ ledger[o] \in [RefundKeys -> LedgerRow \cup {None}] /\ IsFiniteSet(RefundKeys)
      /\ \A j \in RefundKeys : refunds[o][j] # "none" => ledger[o][j] # None
  BY <1>2, OrdersAssumption DEF SettleInv, TypeInv, TypeOK, MoneyInv, RefundsBacked
<1>5. /\ refunds[o][k] = "none" /\ ledger[o][k] # None
      /\ ledger[o][k].credited = rq[p].credit /\ rq[p].credit \in Nat
  BY <1>2 DEF SettleInv, ClaimInv, Unspent, UnspentSteps, TypeInv, Claimed, ClaimedSteps,
     RequestState
<1>6. /\ f \in [RefundKeys -> Nat] /\ g \in [RefundKeys -> Nat] /\ h \in [RefundKeys -> Nat]
      /\ \A j \in RefundKeys : g[j] <= h[j]
      /\ \A j \in RefundKeys \ {k} : g[j] = f[j]
      /\ f[k] = 0 /\ g[k] = rq[p].credit
  <2>1. \A j \in RefundKeys : f[j] \in Nat /\ h[j] \in Nat /\ f[j] <= h[j]
    BY <1>4 DEF LedgerRow
  <2>2. f \in [RefundKeys -> Nat] /\ h \in [RefundKeys -> Nat]
    BY <2>1
  <2>3. f[k] = 0 /\ h[k] = rq[p].credit
    BY <1>2, <1>5
  <2> HIDE DEF f, h
  <2> QED
    BY <1>2, <1>5, <2>1, <2>2, <2>3
<1> HIDE DEF f, g, h
<1>7. SumFunction(g) = SumFunction(f) - f[k] + g[k]
  BY <1>2, <1>4, <1>6, SumUpdate
<1>8. SumFunction(g) <= SumFunction(h)
  BY <1>4, <1>6, SumGrows
<1>9. SumFunction(f) \in Nat /\ SumFunction(h) \in Nat
  BY <1>4, <1>6, SumNat
<1>10. SumFunction(f) = RefundedAtProvider(o) /\ SumFunction(h) = Credited(o)
  BY DEF RefundedAtProvider, Credited, f, h
<1> QED
  BY <1>2, <1>3, <1>5, <1>6, <1>7, <1>8, <1>9, <1>10

\* The refund moves on at the provider and in the ledger, where the status of its row
\* changes and nothing that the books count.
LEMMA RefundMovesOn ==
    ASSUME NEW o, NEW p, Alone(o, p), SettleInv(o, p), rq[p].at \in TakenSteps,
           UNCHANGED <<order, reversals, transfers>>,
           Credited(o)' = Credited(o), RefundedBase(o)' = RefundedBase(o),
           Claims(o)' = Claims(o),
           NEW r, rq'[p] = r, r.at \in TakenSteps, r.row = rq[p].row, r.amount = rq[p].amount
    PROVE  BooksInv(o, p)'
<1>1. rq[p].at \in RefundSteps /\ ~At(p, "idle") /\ rq[p].row = order[o]
  <2>1. rq[p].at \in RefundSteps /\ ~At(p, "idle")
    BY DEF TakenSteps, RefundSteps, At
  <2> QED
    BY <2>1, RefundFacts
<1>2. /\ Decided(rq[p], order[o], Credited(o))
      /\ Booked(rq[p], order[o], RefundedBase(o), Credited(o))
      /\ Leg(rq[p], order[o], Paid(o), Claims(o), Reversed(o))
  BY <1>1, SettleFacts
<1>3. /\ InFlight(r, SpendingSteps) = InFlight(rq[p], SpendingSteps)
      /\ InFlight(r, TakenSteps) = InFlight(rq[p], TakenSteps)
  BY DEF InFlight, SpendingSteps, TakenSteps
<1>4. Paid(o)' = Paid(o) /\ Reversed(o)' = Reversed(o)
  BY DEF Paid, Reversed
<1>5. Decided(r, order[o], Credited(o))
  BY <1>1, <1>2 DEF Decided, TakenSteps, RefundSteps
<1>6. Booked(r, order[o], RefundedBase(o), Credited(o))
  BY <1>2, <1>3 DEF Booked
<1>7. Leg(r, order[o], Paid(o), Claims(o), Reversed(o))
  BY <1>2, <1>3 DEF Leg, TakenSteps
<1> QED
  BY <1>4, <1>5, <1>6, <1>7 DEF BooksInv

\* The provider makes the refund that was claimed.
LEMMA CreateSettles ==
    ASSUME NEW o, NEW p, Alone(o, p), SettleInv(o, p), CreateRefund(p)
    PROVE  BooksInv(o, p)'
<1>1. /\ rq[p].at = "refund" /\ rq[p].at \in RefundSteps /\ rq[p].at \in TakenSteps
  BY DEF CreateRefund, At, RefundSteps, TakenSteps
<1>2. rq[p].o = o /\ p \in Workers /\ rq \in [Workers -> RequestState] /\ rq[p] \in RequestState
  BY <1>1, RefundFacts
<1>3. PICK s : rq' = [rq EXCEPT ![p].at = "ledger", ![p].outcome = s]
  BY <1>1, <1>2, RefundIsWithinCharge DEF CreateRefund
<1> DEFINE r == [rq[p] EXCEPT !.at = "ledger", !.outcome = s]
<1>4. /\ rq'[p] = r /\ r.at = "ledger" /\ r.row = rq[p].row /\ r.amount = rq[p].amount
  BY <1>2, <1>3 DEF RequestState
<1> HIDE DEF r
<1>5. UNCHANGED <<ledger, order, reversals, transfers>>
  BY DEF CreateRefund, dbVars
<1>6. /\ Credited(o)' = Credited(o) /\ RefundedBase(o)' = RefundedBase(o)
      /\ Claims(o)' = Claims(o)
  BY <1>5 DEF Credited, RefundedBase, Claims
<1>7. r.at \in TakenSteps
  BY <1>4 DEF TakenSteps
<1> QED
  BY <1>1, <1>4, <1>5, <1>6, <1>7, RefundMovesOn

\* The row of the ledger takes the status the provider answered.
LEMMA UpdateRefundSettles ==
    ASSUME NEW o, NEW p, Alone(o, p), SettleInv(o, p), UpdateRefund(p)
    PROVE  BooksInv(o, p)'
<1> DEFINE k == rq[p].key
           entry == [ledger[o][k] EXCEPT !.status = rq[p].outcome]
           r == [rq[p] EXCEPT !.at = "record"]
<1>1. /\ rq[p].at = "ledger" /\ rq[p].at \in RefundSteps /\ rq[p].at \in TakenSteps
  BY DEF UpdateRefund, At, RefundSteps, TakenSteps
<1>2. /\ rq[p].o = o /\ o \in Orders /\ p \in Workers /\ rq \in [Workers -> RequestState]
      /\ rq[p] \in RequestState /\ k \in RefundKeys
      /\ Credited(o) \in Nat /\ RefundedBase(o) \in Nat
  BY <1>1, RefundFacts
<1>3. /\ ledger[o][k] # None /\ ledger[o][k] \in LedgerRow
      /\ ledger \in [Orders -> [RefundKeys -> LedgerRow \cup {None}]]
      /\ rq[p].outcome \in {"pending", "succeeded"}
  BY <1>1, <1>2 DEF SettleInv, Claimed, ClaimedSteps, TypeInv, TypeOK, WellFormed
<1>4. /\ ledger' = [ledger EXCEPT ![o][k] = entry] /\ UNCHANGED <<order, reversals, transfers>>
      /\ rq'[p] = r
  BY <1>2, <1>3 DEF UpdateRefund, Goto, providerVars
<1>5. /\ r.at = "record" /\ r.row = rq[p].row /\ r.amount = rq[p].amount /\ r.at \in TakenSteps
  BY <1>2 DEF RequestState, TakenSteps
<1>6. /\ entry \in LedgerRow /\ entry.base = ledger[o][k].base
      /\ entry.credited = ledger[o][k].credited /\ entry # None
      /\ ledger[o][k].base \in Nat /\ ledger[o][k].credited \in Nat
  BY <1>3, RowAssumption DEF LedgerRow
<1> HIDE DEF entry, r, k
<1>7. Claims(o)' = Claims(o)
  BY <1>2, <1>3, <1>4, <1>6 DEF Claims
<1>8. Credited(o)' = Credited(o) /\ RefundedBase(o)' = RefundedBase(o)
  <2>1. /\ RefundedBase(o)' = RefundedBase(o) - BaseOf(ledger[o][k]) + entry.base
        /\ Credited(o)' = Credited(o) - CreditedOf(ledger[o][k]) + entry.credited
    BY <1>2, <1>4, <1>6, LedgerWrite DEF SettleInv
  <2>2. BaseOf(ledger[o][k]) = entry.base /\ CreditedOf(ledger[o][k]) = entry.credited
    BY <1>3, <1>6 DEF BaseOf, CreditedOf
  <2> QED
    BY <1>2, <1>6, <2>1, <2>2
<1> QED
  BY <1>1, <1>4, <1>5, <1>7, <1>8, RefundMovesOn

\* The record moves the amount from the request to the running total.
LEMMA RecordSettles ==
    ASSUME NEW o, NEW p, Alone(o, p), SettleInv(o, p), RecordRefund(p)
    PROVE  BooksInv(o, p)'
<1> DEFINE old == order[o]
           amount == rq[p].amount
           due == ReversalDue(p)
<1>1. /\ rq[p].at = "record" /\ rq[p].at \in RefundSteps /\ ~At(p, "idle")
  BY DEF RecordRefund, At, RefundSteps
<1>2. /\ rq[p].o = o /\ o \in Orders /\ p \in Workers /\ rq[p].row = old /\ Row(p) = old
      /\ old \in OrderRow /\ rq[p].key \in RefundKeys
      /\ amount \in Nat \ {0} /\ old.refundedBase + amount <= ItemAmount
      /\ old.refundedBase \in Nat /\ RefundedBase(o) \in Nat /\ Reversed(o) \in Nat
      /\ ItemAmount \in Nat \ {0}
  BY <1>1, RefundFacts
<1>3. /\ Booked(rq[p], old, RefundedBase(o), Credited(o))
      /\ Leg(rq[p], old, Paid(o), Claims(o), Reversed(o))
  BY <1>1, SettleFacts
<1>4. PICK row, next :
        /\ UpdateOrder(p, row, next)
        /\ next \in {[Idle EXCEPT !.at = "refunded", !.o = rq[p].o], Idle}
        /\ row.dispute = old.dispute
        /\ row.status = IF IsFull(p) THEN "refund_pending" ELSE old.status
        /\ row.refundedBase = old.refundedBase + amount
        /\ due <= 0 => row.transfer = old.transfer
        /\ ~(due <= 0) => row.transfer \in {"reversed", "partially_reversed"}
  BY <1>2, RecordWrites
<1>5. /\ order'[o] = row /\ rq'[p] = next /\ UNCHANGED <<ledger, reversals, transfers>>
      /\ next.at \in {"idle", "refunded"} /\ next.at \in LightSteps
  <2>1. next.at \in {"idle", "refunded"}
    <3>1. /\ [Idle EXCEPT !.at = "refunded", !.o = rq[p].o].at = "refunded"
          /\ Idle.at = "idle"
      BY DEF Idle
    <3> QED
      BY <1>4, <3>1
  <2> QED
    BY <1>2, <1>4, <2>1, UpdateAlone DEF SettleInv, LightSteps, providerVars
<1>6. due = Due(old, amount)
  BY <1>1, DueIsShare
<1> HIDE DEF due, amount, old
<1>7. /\ Credited(o)' = Credited(o) /\ RefundedBase(o)' = RefundedBase(o)
      /\ Paid(o)' = Paid(o) /\ Claims(o)' = Claims(o) /\ Reversed(o)' = Reversed(o)
  BY <1>5 DEF Credited, RefundedBase, Paid, Claims, Reversed
<1>8. /\ InFlight(rq[p], SpendingSteps) = amount /\ InFlight(rq[p], TakenSteps) = amount
      /\ InFlight(next, SpendingSteps) = 0 /\ InFlight(next, TakenSteps) = 0
  BY <1>1, <1>5 DEF InFlight, SpendingSteps, TakenSteps, amount
<1>9. Claims(o) # {}
  <2>1. RefundedBase(o) = old.refundedBase + amount /\ TypeInv
    BY <1>3, <1>8 DEF Booked, SettleInv
  <2> QED
    BY <1>2, <2>1, LedgerSums DEF Claims
<1>10. Booked(next, row, RefundedBase(o), Credited(o))
  BY <1>2, <1>3, <1>4, <1>8 DEF Booked
<1>11. Leg(next, row, Paid(o), Claims(o), Reversed(o))
  <2>1. row.refundedBase + InFlight(next, TakenSteps) = old.refundedBase + InFlight(rq[p], TakenSteps)
    BY <1>2, <1>4, <1>8
  <2>2. row.status \in Confirmable => old.status \in Confirmable
    BY <1>4 DEF Confirmable
  <2>3. old.transfer \notin {"completed", "partially_reversed"} => due <= 0
    BY <1>6 DEF Due
  <2>4. row.transfer = "pending" => old.transfer = "pending"
    BY <1>4
  <2>5. old.status \in Confirmable => row.transfer = "pending"
    BY <1>3, <1>4, <2>3 DEF Leg
  <2>6. row.transfer = "completed" => old.transfer = "completed" /\ Due(old, amount) <= 0
    BY <1>4, <1>6
  <2>7. row.transfer \in {"completed", "partially_reversed"}
          => old.transfer \in {"completed", "partially_reversed"}
    BY <1>4, <2>3
  <2>8. row.transfer = "completed" => Reversed(o) = 0
    BY <1>1, <1>3, <2>6 DEF Leg, amount
  <2> QED
    BY <1>1, <1>3, <1>4, <1>5, <1>9, <2>1, <2>2, <2>4, <2>5, <2>6, <2>7, <2>8 DEF Leg, TakenSteps
<1> QED
  BY <1>5, <1>7, <1>10, <1>11, LightIsDecided DEF BooksInv

\* A request that comes in has read the order as it is.
LEMMA RequestSettles ==
    ASSUME NEW o, NEW p, Alone(o, p), SettleInv(o, p), Request(p, o)
    PROVE  BooksInv(o, p)'
<1> USE DEF dbVars, providerVars
<1>1. /\ p \in Workers /\ o \in Orders /\ rq \in [Workers -> RequestState]
      /\ order[o] \in OrderRow /\ order[o].refundedBase \in Nat /\ ItemAmount \in Nat
  BY OrdersAssumption DEF Alone, Workers, SettleInv, TypeInv, TypeOK, OrderRow
<1>2. /\ rq[p].at = "idle" /\ rq[p].at \notin HoldingSteps
      /\ UNCHANGED <<ledger, reversals, transfers, order>>
  <2>1. rq[p].at = "idle" /\ UNCHANGED <<ledger, reversals, transfers, order>>
    BY DEF Request, BeginCheckout, CancelUnpaid, MarkShipped, IssueHandoverCode, Confirm,
       OpenDispute, RefundOrder, Free, At
  <2> QED
    BY <2>1 DEF HoldingSteps, SpendingSteps
<1>3. ASSUME NEW r, rq'[p] = r, r.at \notin HoldingSteps, Decided(r, order[o], Credited(o))
      PROVE  BooksInv(o, p)'
  BY <1>2, <1>3, BooksStand DEF SettleInv
<1>4. ASSUME NEW step \in {"find", "dispute", "ship", "issue"}, Begin(p, step, o),
             step = "ship" => order[o].status = "escrow_funded",
             step = "issue" => order[o].status \in {"escrow_funded", "pin_pending"}
      PROVE  BooksInv(o, p)'
  <2> DEFINE r == [Idle EXCEPT !.at = step, !.o = o]
  <2>1. rq'[p] = r /\ r.at = step
    BY <1>1, <1>4 DEF Begin, Idle
  <2> HIDE DEF r
  <2>2. Decided(r, order[o], Credited(o)) /\ r.at \notin HoldingSteps
    BY <1>4, <2>1 DEF Decided, RefundSteps, HoldingSteps, SpendingSteps
  <2> QED
    BY <1>3, <2>1, <2>2
<1>5. CASE Confirm(p, o)
  <2> DEFINE r == [Idle EXCEPT !.at = "release", !.o = o, !.row = order[o]]
  <2>1. rq'[p] = r /\ r.at = "release" /\ r.row = order[o] /\ order[o].status \in Confirmable
    BY <1>1, <1>5 DEF Confirm, Idle, Confirmable
  <2> HIDE DEF r
  <2>2. Decided(r, order[o], Credited(o)) /\ r.at \notin HoldingSteps
    BY <2>1 DEF Decided, RefundSteps, HoldingSteps, SpendingSteps
  <2> QED
    BY <1>3, <2>1, <2>2
<1>6. ASSUME NEW k \in RefundKeys, NEW base \in 1 .. ItemAmount, RefundOrder(p, o, k, base)
      PROVE  BooksInv(o, p)'
  <2> DEFINE r == [Idle EXCEPT !.at = "quote", !.o = o, !.row = order[o], !.key = k,
                               !.amount = base]
  <2>1. rq'[p] = r /\ r.at = "quote" /\ r.row = order[o] /\ r.amount = base
    BY <1>1, <1>6 DEF RefundOrder, Idle
  <2>2. base \in Nat \ {0} /\ order[o].refundedBase + base <= ItemAmount
    BY <1>1, <1>6 DEF RefundOrder
  <2> HIDE DEF r
  <2>3. Decided(r, order[o], Credited(o)) /\ r.at \notin HoldingSteps
    BY <2>1, <2>2 DEF Decided, RefundSteps, HoldingSteps, SpendingSteps
  <2> QED
    BY <1>3, <2>1, <2>3
<1>7. ~CancelUnpaid(p, o)
  BY DEF CancelUnpaid, SettleInv, InEscrow, Settling, Confirmable, Unpaid
<1> QED
  BY <1>4, <1>5, <1>6, <1>7 DEF Request, BeginCheckout, MarkShipped, IssueHandoverCode,
     OpenDispute

\* An event that is taken decides on the order as it is whether to recover.
LEMMA TakeEventSettles ==
    ASSUME NEW o, NEW p, Alone(o, p), SettleInv(o, p), NEW e \in events, TakeEvent(p, e)
    PROVE  BooksInv(o, p)'
<1>1. /\ p \in Workers /\ rq \in [Workers -> RequestState] /\ e.o = o
      /\ e.type \in SettlingEvents /\ rq[p].at = "idle"
      /\ UNCHANGED <<ledger, reversals, transfers, order>>
  BY DEF Alone, Workers, SettleInv, TypeInv, TypeOK, InEscrow, Event, TakeEvent, Free, At,
     dbVars, providerVars
<1>2. rq[p].at \notin HoldingSteps /\ rq[p].at \in LightSteps
  BY <1>1 DEF HoldingSteps, SpendingSteps, LightSteps
<1>3. CASE Refused(e)
  <2>1. rq'[p] = rq[p]
    BY <1>3 DEF TakeEvent
  <2> QED
    BY <1>1, <1>2, <2>1, LightIsDecided, BooksStand DEF SettleInv
<1>4. CASE ~Refused(e)
  <2> DEFINE r == [Idle EXCEPT !.at = FirstStep(e), !.o = e.o, !.evt = e]
  <2>1. rq'[p] = r /\ r.at = FirstStep(e) /\ r.evt = e
    BY <1>1, <1>4 DEF TakeEvent, Idle
  <2> HIDE DEF r
  <2>2. CASE r.at \in {"refunded", "refund-failed"}
    <3>1. r.at \in LightSteps /\ r.at \notin HoldingSteps
      BY <2>2 DEF LightSteps, HoldingSteps, SpendingSteps
    <3> QED
      BY <1>1, <1>2, <2>1, <3>1, LightIsDecided, BooksStand DEF SettleInv
  <2>3. CASE r.at \notin {"refunded", "refund-failed"}
    <3>1. r.at = IF FundsLost(e.type) /\ order[o].transfer = "completed" THEN "recover"
                 ELSE "chargeback"
      BY <1>1, <2>1, <2>3 DEF FirstStep, EventStep, SettlingEvents, DisputeTypes
    <3>2. Decided(r, order[o], Credited(o)) /\ r.at \notin HoldingSteps
      BY <2>1, <3>1 DEF Decided, RefundSteps, HoldingSteps, SpendingSteps, FundsLost
    <3> QED
      BY <1>1, <1>2, <2>1, <3>2, BooksStand DEF SettleInv
  <2> QED
    BY <2>2, <2>3
<1> QED
  BY <1>3, <1>4

\* The provider and the network leave the books alone.
LEMMA ProviderSettles ==
    ASSUME NEW o, NEW p, Alone(o, p), SettleInv(o, p),
           (\E i \in Orders : Provider(i)) \/ UNCHANGED vars
    PROVE  BooksInv(o, p)'
<1>1. UNCHANGED <<order, ledger, reversals, transfers, rq>>
  BY DEF Provider, CustomerPays, SessionExpires, PaysLater, AsyncSettles, SessionEnds,
     NetworkDisputes, RefundSettles, vars, dbVars
<1> QED
  BY <1>1 DEF SettleInv, BooksInv, Credited, RefundedBase, Paid, Claims, Reversed

\* Every step of the settlement keeps the books.
LEMMA BooksInvInductive ==
    ASSUME NEW o, NEW p, Alone(o, p), SettleInv(o, p), [Next]_vars
    PROVE  BooksInv(o, p)'
<1>1. ASSUME NEW q \in Workers, Step(q) \/ Fail(q) PROVE BooksInv(o, p)'
  <2>1. Step(p) /\ ~At(p, "idle") /\ InEscrow(o, p)
    BY <1>1, OnlyTheRequest DEF SettleInv
  <2>2. /\ ~InsertOrder(p) /\ ~ExpireSession(p) /\ ~WriteCancelled(p) /\ ~Fund(p)
        /\ ~WritePaymentPending(p) /\ ~RetrieveCheckout(p) /\ ~RecheckUnpaid(p)
    BY <2>1 DEF InsertOrder, ExpireSession, WriteCancelled, Fund, WritePaymentPending,
       RetrieveCheckout, RecheckUnpaid, At, InEscrow, SettlingSteps, RefundSteps
  <2> QED
    BY <2>1, <2>2, ReadSettles, WriteSettles, ChargebackSettles, PayoutSettles,
       RecoverSettles, QuoteSettles, ClaimSettles, ReverseSettles, CreateSettles,
       UpdateRefundSettles, RecordSettles DEF Step
<1>2. \A i \in Orders : ~ReconcileOrder(i)
  BY DEF ReconcileOrder, Alone, SettleInv, InEscrow, Settling, Confirmable, Unpaid
<1> QED
  BY <1>1, <1>2, RequestSettles, TakeEventSettles, ProviderSettles DEF Next, Alone

\* The invariant of a settlement is inductive.
LEMMA SettleInvInductive ==
    ASSUME NEW o, NEW p, Alone(o, p), SettleInv(o, p), [Next]_vars
    PROVE  SettleInv(o, p)'
<1>1. TypeInv' /\ MoneyInv' /\ ClaimInv'
  BY TypeInvInductive, MoneyInvInductive, ClaimInvInductive DEF SettleInv
<1>2. BooksInv(o, p)'
  BY BooksInvInductive
<1>3. TypeInv /\ InEscrow(o, p)
  BY DEF SettleInv
<1>4. InEscrow(o, p)'
  BY <1>3, OnlyTheRequest, StepStaysInEscrow, OthersStayInEscrow DEF Next
<1> QED
  BY <1>1, <1>2, <1>4 DEF SettleInv

\* An order in escrow, with empty books.
LEMMA SettleInvInitially ==
    ASSUME NEW o, NEW p, Alone(o, p), EscrowInit
    PROVE  SettleInv(o, p)
<1>1. TypeInv
  <2>1. \A q \in Workers : rq[q] = Idle
    BY DEF EscrowInit
  <2>2. Idle.at \notin ClaimedSteps
    BY DEF Idle, ClaimedSteps
  <2>3. rq \in [Workers -> RequestState] /\ (\A q \in Workers : WellFormed(rq[q])) /\ Claimed
    BY <2>1, <2>2, IdleType DEF EscrowInit, Claimed
  <2>4. order \in [Orders -> OrderRow]
    <3>1. [NoOrder EXCEPT !.status = "escrow_funded", !.session = TRUE, !.paymentIntent = TRUE]
             \in OrderRow
      BY IdleType DEF OrderRow, OrderStatus, Active
    <3> QED
      BY <3>1 DEF EscrowInit
  <2> QED
    BY <2>3, <2>4, OrdersAssumption DEF EscrowInit, TypeInv, TypeOK, ListingStatus
<1>2. /\ order[o].status = "escrow_funded" /\ order[o].paymentIntent
      /\ order[o].transfer = "pending" /\ order[o].refundedBase = 0
      /\ order[o].dispute = "none" /\ o \in Orders /\ p \in Workers
      /\ \A q \in Workers : rq[q] = Idle
  BY DEF Alone, Workers, EscrowInit, NoOrder
<1>3. MoneyInv
  <2>1. Backed(Idle, Collected, PaidOut)
    BY DEF Idle, NoOrder, Backed
  <2>2. RowBacked(order[o], o, Collected, PaidOut) /\ Collected = Orders
    BY <1>2 DEF RowBacked, Collected, EscrowInit
  <2> QED
    BY <1>2, <2>1, <2>2 DEF Alone, EscrowInit, MoneyInv, TablesBacked, RequestsBacked,
       EventsBacked, TransfersBacked, RefundsBacked
<1>4. ClaimInv
  BY DEF EscrowInit, Idle, ClaimInv, Quoted, Unspent, Exclusive, QuotedSteps, UnspentSteps
<1>5. InEscrow(o, p)
  BY <1>2, OrdersAssumption
     DEF Alone, Workers, EscrowInit, InEscrow, Settling, Confirmable, SettlingSteps, Idle
<1>6. RefundedBase(o) = 0 /\ Credited(o) = 0 /\ Reversed(o) = 0
  <2>1. IsFiniteSet(RefundKeys) /\ IsFiniteSet(ReversalKeys)
    BY OrdersAssumption, FS_AddElement DEF ReversalKeys
  <2>2. ASSUME NEW S, IsFiniteSet(S) PROVE SumFunction([x \in S |-> 0]) = 0
    BY <2>2, SumNat
  <2>3. [k \in RefundKeys |-> IF ledger[o][k] = None THEN 0 ELSE ledger[o][k].base]
          = [k \in RefundKeys |-> 0]
    BY <1>2 DEF EscrowInit
  <2>4. [k \in RefundKeys |-> IF ledger[o][k] = None THEN 0 ELSE ledger[o][k].credited]
          = [k \in RefundKeys |-> 0]
    BY <1>2 DEF EscrowInit
  <2>5. reversals[o] = [k \in ReversalKeys |-> 0]
    BY <1>2 DEF EscrowInit
  <2> QED
    BY <2>1, <2>2, <2>3, <2>4, <2>5 DEF RefundedBase, Credited, Reversed
<1>7. Paid(o) = {} /\ Claims(o) = {}
  BY <1>2 DEF Paid, Claims, EscrowInit
<1>8. Idle.at = "idle" /\ InFlight(Idle, SpendingSteps) = 0
  BY DEF Idle, InFlight, SpendingSteps
<1>9. BooksInv(o, p)
  <2>1. Decided(Idle, order[o], 0)
    BY <1>8, LightIsDecided DEF LightSteps
  <2>2. Booked(Idle, order[o], 0, 0)
    BY <1>2, <1>8, OrdersAssumption DEF Booked
  <2>3. Leg(Idle, order[o], {}, {}, 0)
    BY <1>2, <1>8 DEF Leg
  <2> QED
    BY <1>2, <1>6, <1>7, <2>1, <2>2, <2>3 DEF BooksInv
<1> QED
  BY <1>1, <1>3, <1>4, <1>5, <1>9 DEF SettleInv

\* What the ledger claims was asked of the provider, except for the claim in flight.
Given(o, p) ==
    \A k \in RefundKeys :
        ledger[o][k] # None /\ refunds[o][k] = "none"
            => rq[p].at \in {"reverse", "refund"} /\ rq[p].key = k

\* The steps that claim a refund, or that may leave a claim behind.
ClaimSteps(p) == ClaimRefund(p) \/ ReverseTransfer(p) \/ CreateRefund(p) \/ UpdateRefund(p)

\* A step that writes neither the ledger nor a refund, of a request that holds no claim.
LEMMA GivenStands ==
    ASSUME NEW o, NEW p, Given(o, p), UNCHANGED <<ledger, refunds>>,
           \/ rq[p].at \notin {"reverse", "refund"} \/ rq'[p] = rq[p]
    PROVE  Given(o, p)'
BY DEF Given

\* A claim is handed on to the provider, since neither the reversal nor the refund is
\* refused: a request that gave up would leave the books without their part in flight.
LEMMA ClaimIsGiven ==
    ASSUME NEW o, NEW p, Alone(o, p), SettleInv(o, p), SettleInv(o, p)', Given(o, p),
           ~At(p, "idle"), ClaimSteps(p)
    PROVE  Given(o, p)'
<1>1. /\ o \in Orders /\ p \in Workers /\ rq[p].o = o
      /\ rq[p] \in RequestState /\ rq \in [Workers -> RequestState]
      /\ ledger \in [Orders -> [RefundKeys -> LedgerRow \cup {None}]]
      /\ refunds \in [Orders -> [RefundKeys -> {"none", "pending", "succeeded", "failed"}]]
      /\ Decided(rq[p], order[o], Credited(o))
      /\ Booked(rq[p], order[o], RefundedBase(o), Credited(o))
      /\ order[o].paymentIntent
  BY SettleFacts DEF SettleInv, TypeInv, TypeOK
<1>2. CASE ClaimRefund(p)
  <2>1. rq[p].at \in RefundSteps /\ rq[p].row = order[o] /\ rq[p].at = "claim"
    BY <1>1, <1>2 DEF ClaimRefund, At, Decided, RefundSteps
  <2>2. UNCHANGED refunds
    BY <1>2 DEF ClaimRefund, providerVars
  <2>3. CASE UNCHANGED ledger
    BY <2>1, <2>2, <2>3, GivenStands
  <2>4. CASE /\ \A k \in RefundKeys : k # rq[p].key => ledger'[o][k] = ledger[o][k]
             /\ rq'[p].at = "reverse" /\ rq'[p].key = rq[p].key
    BY <2>1, <2>2, <2>4 DEF Given
  <2> QED
    BY <1>1, <1>2, <2>1, <2>3, <2>4 DEF ClaimRefund, Goto, RequestState
<1>3. CASE ReverseTransfer(p)
  <2>1. UNCHANGED <<ledger, refunds, order>> /\ rq[p].at = "reverse"
    BY <1>3 DEF ReverseTransfer, dbVars, At
  <2>2. (rq'[p].at = "refund" /\ rq'[p].key = rq[p].key) \/ rq'[p] = Idle
    BY <1>1, <1>3 DEF ReverseTransfer, Goto, Throw, Finish, RequestState
  <2>3. rq'[p] # Idle
    <3>1. rq[p].amount \in Nat \ {0} /\ order[o].refundedBase \in Nat
      BY <1>1, <2>1 DEF Decided, RefundSteps, SettleInv, TypeInv, TypeOK, OrderRow
    <3>2. RefundedBase(o) = order[o].refundedBase + rq[p].amount
      BY <1>1, <2>1 DEF Booked, InFlight, SpendingSteps
    <3>3. Booked(rq'[p], order[o], RefundedBase(o), Credited(o))
      BY <2>1 DEF SettleInv, BooksInv, RefundedBase, Credited
    <3>4. InFlight(Idle, SpendingSteps) = 0
      BY DEF InFlight, Idle, SpendingSteps
    <3> QED
      BY <3>1, <3>2, <3>3, <3>4 DEF Booked
  <2> QED
    BY <2>1, <2>2, <2>3 DEF Given
<1>4. CASE CreateRefund(p)
  <2>1. rq[p].at = "refund" /\ UNCHANGED ledger
    BY <1>4 DEF CreateRefund, At, dbVars
  <2>2. PICK s \in {"pending", "succeeded"} : refunds' = [refunds EXCEPT ![o][rq[p].key] = s]
    BY <1>1, <1>4, <2>1, RefundIsWithinCharge DEF CreateRefund
  <2> QED
    BY <1>1, <2>1, <2>2 DEF Given
<1>5. CASE UpdateRefund(p)
  <2>1. rq[p].at = "ledger" /\ UNCHANGED refunds
    BY <1>5 DEF UpdateRefund, At, providerVars
  <2>2. ledger' = [ledger EXCEPT ![o][rq[p].key].status = rq[p].outcome]
    BY <1>1, <1>5 DEF UpdateRefund
  <2>3. ledger[o][rq[p].key] # None
    BY <1>1, <2>1 DEF SettleInv, TypeInv, Claimed, ClaimedSteps
  <2> QED
    BY <1>1, <2>1, <2>2, <2>3 DEF Given
<1> QED
  BY <1>2, <1>3, <1>4, <1>5 DEF ClaimSteps

\* Every step of the settlement keeps the claims given.
LEMMA GivenInductive ==
    ASSUME NEW o, NEW p, Alone(o, p), SettleInv(o, p), SettleInv(o, p)', Given(o, p),
           [Next]_vars
    PROVE  Given(o, p)'
<1> USE DEF dbVars, providerVars
<1>1. ASSUME NEW q \in Workers, Step(q) \/ Fail(q) PROVE Given(o, p)'
  <2>1. q = p /\ Step(p) /\ ~At(p, "idle") /\ p \in Workers
    BY <1>1, OnlyTheRequest DEF SettleInv
  <2>2. CASE ClaimSteps(p)
    BY <2>1, <2>2, ClaimIsGiven
  <2>3. CASE QuoteRefund(p)
    BY <2>3, GivenStands DEF QuoteRefund, At
  <2>4. CASE ~ClaimSteps(p) /\ ~QuoteRefund(p)
    <3>1. ~RefundStep(p) /\ TypeInv
      BY <2>4 DEF RefundStep, ClaimSteps, SettleInv
    <3>2. UNCHANGED <<ledger, refunds>>
      BY <2>1, <3>1, OtherStepsLeaveClaims
    <3>3. ~At(p, "reverse") /\ ~At(p, "refund")
      BY <2>1, <2>4 DEF ClaimSteps, Step, At, FindListing, WriteListing, CompleteEvent,
         FindCheckout, InsertOrder, OpenCheckout, SaveSession, ExpireSession, WriteCancelled,
         Fund, WritePaymentPending, WriteRefundFailed, WriteRefunded, RecoverSellerLeg,
         WriteChargeback, RetrieveCheckout, RecheckUnpaid, WriteShipped, WritePinPending,
         WriteDisputed, ReleaseSellerFunds, WriteCompleted, RecordRefund
    <3> QED
      BY <3>2, <3>3, GivenStands DEF At
  <2> QED
    BY <2>2, <2>3, <2>4
<1>2. ASSUME NEW q \in Requests, NEW e \in events, TakeEvent(q, e) PROVE Given(o, p)'
  BY <1>2, GivenStands DEF TakeEvent, Free, At, Alone
<1>3. ASSUME Provider(o) PROVE Given(o, p)'
  <2>1. UNCHANGED <<ledger, rq>>
    BY <1>3 DEF Provider, CustomerPays, SessionExpires, PaysLater, AsyncSettles, SessionEnds,
       NetworkDisputes, RefundSettles
  <2>2. \A k \in RefundKeys : refunds'[o][k] = "none" => refunds[o][k] = "none"
    <3>1. o \in Orders
          /\ refunds \in [Orders -> [RefundKeys -> {"none", "pending", "succeeded", "failed"}]]
      BY DEF Alone, SettleInv, TypeInv, TypeOK
    <3>2. ASSUME NEW k \in RefundKeys, RefundSettles(o, k)
          PROVE  \A j \in RefundKeys : refunds'[o][j] = "none" => refunds[o][j] = "none"
      BY <3>1, <3>2 DEF RefundSettles
    <3> QED
      BY <1>3, <3>2 DEF Provider, CustomerPays, SessionExpires, PaysLater, AsyncSettles,
         SessionEnds, NetworkDisputes
  <2> QED
    BY <2>1, <2>2 DEF Given
<1>4. \A i \in Orders : ~ReconcileOrder(i)
  BY DEF ReconcileOrder, Alone, SettleInv, InEscrow, Settling, Confirmable, Unpaid
<1>5. ASSUME NEW q \in Requests, NEW i \in Orders, Request(q, i) PROVE Given(o, p)'
  <2>1. rq[q].at = "idle" /\ UNCHANGED <<ledger, refunds>>
    BY <1>5 DEF Request, BeginCheckout, CancelUnpaid, MarkShipped, IssueHandoverCode, Confirm,
       OpenDispute, RefundOrder, Free, At
  <2> QED
    BY <2>1, GivenStands DEF Alone
<1>6. ASSUME UNCHANGED vars PROVE Given(o, p)'
  BY <1>6 DEF Given, vars
<1> QED
  BY <1>1, <1>2, <1>3, <1>4, <1>5, <1>6 DEF Next, Alone

\* With one order in escrow and one request at a time, refunds and chargebacks in any
\* order keep the running total and the ledger together, for any amounts and keys, and
\* where no refund failed the closing one has given the whole charge back.
THEOREM TheBooksBalance ==
    ASSUME NEW o, NEW p, Alone(o, p)
    PROVE  EscrowSpec => []RunningTotalMatchesLedger
<1>1. SettleInv(o, p) /\ Given(o, p) => RunningTotalMatchesLedger
  <2> SUFFICES ASSUME SettleInv(o, p), Given(o, p)
               PROVE  /\ Credited(o) <= TotalCharged
                      /\ Quiet => order[o].refundedBase = RefundedBase(o)
                      /\ Quiet /\ order[o].refundedBase = ItemAmount
                           /\ (\A k \in RefundKeys : refunds[o][k] # "failed")
                           => RefundedAtProvider(o) = TotalCharged
    BY DEF RunningTotalMatchesLedger, Alone
  <2>1. Booked(rq[p], order[o], RefundedBase(o), Credited(o)) /\ o \in Orders /\ p \in Workers
    BY DEF SettleInv, BooksInv, Alone, Workers
  <2>2. /\ RefundedBase(o) \in Nat /\ order[o].refundedBase \in Nat
        /\ ItemAmount \in Nat /\ TotalCharged \in Nat /\ ItemAmount <= TotalCharged
    BY <2>1, LedgerSums, OrdersAssumption
       DEF SettleInv, TypeInv, TypeOK, OrderRow, TotalCharged
  <2>3. Quiet => rq[p].at = "idle"
    BY <2>1 DEF Quiet, At
  <2>4. Quiet => InFlight(rq[p], SpendingSteps) = 0
    BY <2>3 DEF InFlight, SpendingSteps
  <2>5. Quiet /\ order[o].refundedBase = ItemAmount => Credited(o) = TotalCharged
    BY <2>1, <2>2, <2>4 DEF Booked
  <2>6. ASSUME Quiet, \A k \in RefundKeys : refunds[o][k] # "failed"
        PROVE  RefundedAtProvider(o) = Credited(o)
    <3>1. /\ refunds \in [Orders -> [RefundKeys -> {"none", "pending", "succeeded", "failed"}]]
          /\ \A k \in RefundKeys : refunds[o][k] # "none" => ledger[o][k] # None
      BY <2>1 DEF SettleInv, TypeInv, TypeOK, MoneyInv, RefundsBacked
    <3>2. \A k \in RefundKeys :
             refunds[o][k] \in {"pending", "succeeded"} <=> ledger[o][k] # None
      BY <2>1, <2>3, <2>6, <3>1 DEF Given
    <3>3. [k \in RefundKeys |->
             IF refunds[o][k] \in {"pending", "succeeded"} THEN ledger[o][k].credited ELSE 0]
          = [k \in RefundKeys |-> IF ledger[o][k] = None THEN 0 ELSE ledger[o][k].credited]
      BY <3>2
    <3> QED
      BY <3>3 DEF RefundedAtProvider, Credited
  <2> QED
    BY <2>1, <2>2, <2>4, <2>5, <2>6 DEF Booked
<1>2. EscrowInit => Given(o, p)
  BY DEF EscrowInit, Given, Alone
<1>3. SettleInv(o, p) /\ Given(o, p) /\ [Next]_vars => SettleInv(o, p)' /\ Given(o, p)'
  BY SettleInvInductive, GivenInductive
<1>4. EscrowInit => SettleInv(o, p)
  BY SettleInvInitially
<1> QED
  BY <1>1, <1>2, <1>3, <1>4, PTL DEF EscrowSpec

\* With one order in escrow and one request at a time, a lost chargeback of an order
\* that nothing was refunded of has recovered the whole transfer, in any order of
\* confirmations, disputes and dispute events.
THEOREM LostChargebacksAreRecovered ==
    ASSUME NEW o, NEW p, Alone(o, p)
    PROVE  EscrowSpec => []LostChargebackRecoversSellerLeg
<1>1. SettleInv(o, p) => LostChargebackRecoversSellerLeg
  <2> SUFFICES ASSUME SettleInv(o, p), Quiet, order[o].dispute = "lost",
                      \E t \in transfers : t.o = o,
                      \A k \in RefundKeys : ledger[o][k] = None
               PROVE  Reversed(o) = SellerAmount
    BY DEF LostChargebackRecoversSellerLeg, Alone
  <2>1. Leg(rq[p], order[o], Paid(o), Claims(o), Reversed(o)) /\ order[o].transfer \in TransferStatus
    BY DEF SettleInv, BooksInv, Alone, TypeInv, TypeOK, OrderRow
  <2>2. Paid(o) # {} /\ Claims(o) = {} /\ rq[p].at = "idle"
    BY DEF Paid, Claims, Quiet, At, Alone, Workers
  <2> QED
    BY <2>1, <2>2 DEF Leg, TransferStatus
<1> QED
  BY <1>1, SettleInvInitially, SettleInvInductive, PTL DEF EscrowSpec

-----------------------------------------------------------------------------
(* Cancellation.  One request at a time beside the job, and no failure.    *)

\* Whose checkout has ended unpaid for good, and which orders were made.
Ended == {o \in Orders : session[o] \in {"expired", "failed"}}
Made  == {o \in Orders : order[o].status # "none"}

\* A request that has made or found an order and will save its session.
Opening(r, o) ==
    /\ r.o = o
    /\ \/ r.at \in {"checkout", "save-session"}
       \/ r.at \in {"list", "list-write"} /\ r.next = "checkout"

\* An event is about an order that was made, and tells the truth about its checkout.
EventStands(e, ended, made) == e.o \in made /\ (e.type = "expired" => e.o \in ended)

\* Who is about to cancel an order knows that its checkout has ended.
Ready(r, ended, made) ==
    /\ r.at \in {"recheck", "cancel"} => r.o \in ended
    /\ r.at \notin {"idle", "find", "insert"} => r.o \in made
    /\ r.evt # None => EventStands(r.evt, ended, made)

\* The job works for no event and opens no checkout.
JobRequest(r) ==
    /\ r.at \in {"idle", "retrieve", "recheck", "fund", "pend", "cancel", "list", "list-write"}
    /\ r.next = "idle" /\ r.evt = None

CheckoutInv ==
    /\ \A o \in Orders : order[o].status = "cancelled" => o \in Ended
    /\ \A o \in Made : order[o].session \/ \E p \in Requests : Opening(rq[p], o)
    /\ \A o \in Orders : session[o] # "none" => o \in Made
    /\ \A q \in Workers : Ready(rq[q], Ended, Made)
    /\ \A e \in events : EventStands(e, Ended, Made)
    /\ JobRequest(rq[Reconciler])

\* A step of one worker: what it has to keep.
LEMMA CheckoutMoves ==
    ASSUME TypeInv, CheckoutInv, NEW q \in Workers, NEW r,
           rq' = [rq EXCEPT ![q] = r] \/ (rq' = rq /\ r = rq[q]),
           Ended \subseteq Ended', Made \subseteq Made', Ready(r, Ended', Made'),
           q = Reconciler => JobRequest(r),
           \A e \in events' : e \in events \/ (e = rq[q].evt /\ e # None)
             \/ EventStands(e, Ended', Made'),
           \A o \in Orders : order'[o].status = "cancelled"
             => order[o].status = "cancelled" \/ o \in Ended',
           \A o \in Orders : session'[o] # "none" => session[o] # "none" \/ o \in Made',
           \A o \in Made' : \/ order'[o].session
                            \/ q \in Requests /\ Opening(r, o)
                            \/ /\ o \in Made /\ ~order[o].session
                               /\ Opening(rq[q], o) => Opening(r, o)
    PROVE  CheckoutInv'
<1>1. /\ rq'[q] = r /\ \A w \in Workers \ {q} : rq'[w] = rq[w]
      /\ Reconciler \in Workers /\ Requests \subseteq Workers
  BY DEF TypeInv, TypeOK, Workers
<1>2. \A w \in Workers : Ready(rq'[w], Ended', Made')
  BY <1>1 DEF CheckoutInv, Ready, EventStands
<1>3. JobRequest(rq'[Reconciler])
  BY <1>1 DEF CheckoutInv
<1>4. \A e \in events' : EventStands(e, Ended', Made')
  BY DEF CheckoutInv, Ready, EventStands
<1>5. ASSUME NEW o \in Made', ~order'[o].session
      PROVE  \E p \in Requests : Opening(rq'[p], o)
  <2>1. CASE q \in Requests /\ Opening(r, o)
    BY <1>1, <2>1
  <2>2. CASE /\ o \in Made /\ ~order[o].session
             /\ Opening(rq[q], o) => Opening(r, o)
    <3>1. PICK p \in Requests : Opening(rq[p], o)
      BY <2>2 DEF CheckoutInv
    <3> QED
      BY <1>1, <2>2, <3>1
  <2> QED
    BY <1>5, <2>1, <2>2
<1> QED
  BY <1>2, <1>3, <1>4, <1>5 DEF CheckoutInv

\* A handler goes on, or ends, and touches neither the orders nor their sessions.
LEMMA CheckoutGoesOn ==
    ASSUME TypeInv, CheckoutInv, NEW q \in Workers, NEW r, rq' = [rq EXCEPT ![q] = r],
           UNCHANGED <<order, session>>, Ready(r, Ended, Made),
           q = Reconciler => JobRequest(r),
           \A e \in events' : e \in events \/ (e = rq[q].evt /\ e # None),
           \A o \in Made : order[o].session \/ (Opening(rq[q], o) => Opening(r, o))
    PROVE  CheckoutInv'
<1>1. Ended' = Ended /\ Made' = Made
  BY DEF Ended, Made
<1>2. /\ \A o \in Orders : order'[o].status = "cancelled"
           => order[o].status = "cancelled" \/ o \in Ended'
      /\ \A o \in Orders : session'[o] # "none" => session[o] # "none" \/ o \in Made'
      /\ Ready(r, Ended', Made')
  BY <1>1
<1>3. \A o \in Made' : \/ order'[o].session
                       \/ q \in Requests /\ Opening(r, o)
                       \/ /\ o \in Made /\ ~order[o].session
                          /\ Opening(rq[q], o) => Opening(r, o)
  BY <1>1
<1>4. \A e \in events' : e \in events \/ (e = rq[q].evt /\ e # None)
         \/ EventStands(e, Ended', Made')
  OBVIOUS
<1> QED
  BY <1>1, <1>2, <1>3, <1>4, CheckoutMoves

\* An order is updated, and its session is not forgotten.
LEMMA CheckoutUpdated ==
    ASSUME TypeInv, CheckoutInv, NEW q \in Workers, NEW row, NEW next,
           UpdateOrder(q, row, next),
           rq[q].at \notin {"idle", "find", "insert"},
           row.status # "none", Row(q).session => row.session,
           row.status = "cancelled" => Row(q).status = "cancelled" \/ rq[q].o \in Ended,
           Ready(next, Ended, Made), q = Reconciler => JobRequest(next),
           Opening(rq[q], rq[q].o) => IndexAllows(rq[q].o, row.status) /\ row.session
    PROVE  CheckoutInv'
<1> DEFINE o == rq[q].o
<1>1. o \in Orders /\ order \in [Orders -> OrderRow] /\ o \in Made
  BY DEF TypeInv, TypeOK, WellFormed, CheckoutInv, Ready
<1>2. UNCHANGED session /\ Ended' = Ended
  BY DEF UpdateOrder, providerVars, Ended
<1>3. CASE /\ IndexAllows(o, row.status) /\ order' = [order EXCEPT ![o] = row]
           /\ rq' = [rq EXCEPT ![q] = next] /\ UNCHANGED events
  <2>1. /\ order'[o] = row /\ \A i \in Orders \ {o} : order'[i] = order[i]
        /\ Made' = Made
    BY <1>1, <1>3 DEF Made
  <2>2. ASSUME NEW i \in Made', ~order'[i].session
        PROVE  i \in Made /\ ~order[i].session /\ ~Opening(rq[q], i)
    <3>1. i \in Made /\ ~order[i].session
      BY <2>1, <2>2 DEF Row, Made
    <3>2. ~Opening(rq[q], i)
      BY <2>1, <2>2, <3>1 DEF Opening
    <3> QED
      BY <3>1, <3>2
  <2>3. \A i \in Orders : order'[i].status = "cancelled"
          => order[i].status = "cancelled" \/ i \in Ended'
    BY <1>2, <2>1 DEF Row
  <2>4. /\ \A i \in Orders : session'[i] # "none" => session[i] # "none" \/ i \in Made'
        /\ Ready(next, Ended', Made')
    BY <1>2, <2>1
  <2>5. \A e \in events' : e \in events \/ (e = rq[q].evt /\ e # None)
           \/ EventStands(e, Ended', Made')
    BY <1>3
  <2>6. \A i \in Made' : \/ order'[i].session
                         \/ q \in Requests /\ Opening(next, i)
                         \/ /\ i \in Made /\ ~order[i].session
                            /\ Opening(rq[q], i) => Opening(next, i)
    BY <2>2
  <2> QED
    BY <1>2, <1>3, <2>1, <2>3, <2>4, <2>5, <2>6, CheckoutMoves
<1>4. CASE ~IndexAllows(o, row.status) /\ Throw(q) /\ UNCHANGED order
  <2>1. Ready(Idle, Ended, Made) /\ JobRequest(Idle)
    BY DEF Idle, Ready, JobRequest
  <2>2. \A i : ~Opening(rq[q], i)
    BY <1>4 DEF Opening
  <2>3. rq' = [rq EXCEPT ![q] = Idle]
    BY <1>4 DEF Throw, Finish
  <2>4. \A e \in events' : e \in events \/ (e = rq[q].evt /\ e # None)
    BY <1>4 DEF Throw
  <2> QED
    BY <1>2, <1>4, <2>1, <2>2, <2>3, <2>4, CheckoutGoesOn
<1> QED
  BY <1>3, <1>4 DEF UpdateOrder

\* What a worker may rely on at a step, and where it may end.
LEMMA CheckoutFacts ==
    ASSUME TypeInv, CheckoutInv, NEW q \in Workers, ~At(q, "idle")
    PROVE  /\ rq[q].o \in Orders /\ rq[q] \in RequestState /\ Row(q) \in OrderRow
           /\ rq \in [Workers -> RequestState]
           /\ Ready(rq[q], Ended, Made)
           /\ q = Reconciler => JobRequest(rq[q])
           /\ q # Reconciler => q \in Requests
           /\ Ready(Idle, Ended, Made) /\ JobRequest(Idle)
           /\ rq[q].at \notin {"find", "insert"} => Ready(Done(q), Ended, Made)
           /\ q = Reconciler => JobRequest(Done(q))
           /\ rq[q].at \notin {"find", "insert"} => Row(q).status # "none"
<1>1. /\ rq[q].o \in Orders /\ rq[q] \in RequestState /\ Row(q) \in OrderRow
      /\ rq \in [Workers -> RequestState]
  BY RequestFacts DEF TypeInv, TypeOK
<1>2. Ready(rq[q], Ended, Made) /\ (q = Reconciler => JobRequest(rq[q]))
  BY DEF CheckoutInv
<1>3. Ready(Idle, Ended, Made) /\ JobRequest(Idle)
  BY DEF Idle, Ready, JobRequest
<1>4. ASSUME rq[q].at \notin {"find", "insert"} PROVE Ready(Done(q), Ended, Made)
  <2>1. CASE rq[q].evt = None
    BY <1>3, <2>1 DEF Done
  <2>2. CASE rq[q].evt # None
    <3>1. EventStands(rq[q].evt, Ended, Made)
      BY <1>2, <2>2 DEF Ready
    <3>2. rq[q].o \in Made
      BY <1>2, <1>4 DEF Ready, At
    <3>3. rq[q].evt \in Event
      BY <1>1, <2>2 DEF RequestState
    <3> QED
      BY <2>2, <3>1, <3>2 DEF Done, Idle, Ready
  <2> QED
    BY <2>1, <2>2
<1>5. q = Reconciler => JobRequest(Done(q))
  BY <1>2, <1>3 DEF Done, JobRequest
<1>6. rq[q].at \notin {"find", "insert"} => Row(q).status # "none"
  BY <1>2 DEF Ready, Made, Row, At
<1> QED
  BY <1>1, <1>2, <1>3, <1>4, <1>5, <1>6 DEF Workers

\* The steps of the reconcile-order-checkouts job.
JobSteps == {"idle", "retrieve", "recheck", "fund", "pend", "cancel", "list", "list-write"}

\* A handler that is not opening a checkout ends, and its event may come back.
LEMMA CheckoutEnds ==
    ASSUME TypeInv, CheckoutInv, NEW q \in Workers, ~At(q, "idle"),
           rq[q].at \notin {"checkout", "save-session", "list", "list-write"},
           Throw(q) \/ (Finish(q) /\ UNCHANGED events), UNCHANGED <<order, session>>
    PROVE  CheckoutInv'
<1>1. rq' = [rq EXCEPT ![q] = Idle]
  BY DEF Throw, Finish
<1>2. Ready(Idle, Ended, Made) /\ JobRequest(Idle)
  BY CheckoutFacts
<1>3. \A o : ~Opening(rq[q], o)
  BY DEF Opening
<1>4. \A e \in events' : e \in events \/ (e = rq[q].evt /\ e # None)
  BY DEF Throw
<1> QED
  BY <1>1, <1>2, <1>3, <1>4, CheckoutGoesOn

\* A handler goes to its next step and touches neither the orders nor their sessions.
LEMMA CheckoutGoto ==
    ASSUME TypeInv, CheckoutInv, NEW q \in Workers, ~At(q, "idle"), NEW step, Goto(q, step),
           UNCHANGED <<order, session, events>>,
           step \in {"recheck", "cancel"} => rq[q].o \in Ended,
           At(q, "find") => Row(q).status # "none" \/ step = "insert",
           ~At(q, "insert"),
           q = Reconciler => step \in JobSteps,
           \/ rq[q].at \notin {"checkout", "save-session", "list", "list-write"}
           \/ At(q, "checkout") /\ step = "save-session"
           \/ At(q, "list") /\ step = "list-write"
    PROVE  CheckoutInv'
<1> DEFINE r == [rq[q] EXCEPT !.at = step]
<1>1. /\ rq[q] \in RequestState /\ rq[q].o \in Orders /\ Ready(rq[q], Ended, Made)
      /\ q = Reconciler => JobRequest(rq[q])
  BY CheckoutFacts
<1>2. r.at = step /\ r.o = rq[q].o /\ r.evt = rq[q].evt /\ r.next = rq[q].next
  BY <1>1 DEF RequestState
<1>3. rq' = [rq EXCEPT ![q] = r]
  BY DEF Goto
<1>4. Row(q).status # "none" => rq[q].o \in Made
  BY <1>1 DEF Row, Made
<1> HIDE DEF r
<1>5. Ready(r, Ended, Made)
  BY <1>1, <1>2, <1>4 DEF Ready, At
<1>6. q = Reconciler => JobRequest(r)
  BY <1>1, <1>2 DEF JobRequest, JobSteps
<1>7. \A o : Opening(rq[q], o) => Opening(r, o)
  BY <1>2 DEF Opening, At
<1>8. \A e \in events' : e \in events \/ (e = rq[q].evt /\ e # None)
  OBVIOUS
<1> QED
  BY <1>3, <1>5, <1>6, <1>7, <1>8, CheckoutGoesOn

\* setListingStatus: a request that opens a checkout goes on to it.
LEMMA ListingKeepsCheckout ==
    ASSUME TypeInv, CheckoutInv, NEW q \in Workers, FindListing(q) \/ WriteListing(q)
    PROVE  CheckoutInv'
<1>1. ~At(q, "idle") /\ rq[q].at \in {"list", "list-write"}
  BY DEF FindListing, WriteListing, At
<1>2. UNCHANGED <<order, session, events>>
  BY DEF FindListing, WriteListing, dbVars, providerVars
<1>3. /\ rq[q] \in RequestState /\ Ready(rq[q], Ended, Made) /\ Ready(Idle, Ended, Made)
      /\ Ready(Done(q), Ended, Made) /\ rq[q].o \in Orders
      /\ q = Reconciler => JobRequest(rq[q]) /\ JobRequest(Done(q))
  BY <1>1, CheckoutFacts
<1>4. \A e \in events' : e \in events \/ (e = rq[q].evt /\ e # None)
  BY <1>2
<1>5. CASE Resume(q)
  <2>1. CASE rq[q].next = "idle"
    <3>1. rq' = [rq EXCEPT ![q] = Done(q)] /\ \A o : ~Opening(rq[q], o)
      BY <1>1, <1>5, <2>1 DEF Resume, Opening
    <3> QED
      BY <1>2, <1>3, <1>4, <3>1, CheckoutGoesOn
  <2>2. CASE rq[q].next = "checkout"
    <3> DEFINE r == [Idle EXCEPT !.at = rq[q].next, !.o = rq[q].o]
    <3>1. r.at = "checkout" /\ r.o = rq[q].o /\ r.evt = None
      BY <2>2 DEF Idle
    <3>2. rq' = [rq EXCEPT ![q] = r]
      BY <1>5, <2>2 DEF Resume
    <3> HIDE DEF r
    <3>3. Ready(r, Ended, Made)
      BY <1>1, <1>3, <3>1 DEF Ready
    <3>4. \A o : Opening(rq[q], o) => Opening(r, o)
      BY <3>1 DEF Opening
    <3>5. q # Reconciler
      BY <1>3, <2>2 DEF JobRequest
    <3> QED
      BY <1>2, <1>4, <3>2, <3>3, <3>4, <3>5, CheckoutGoesOn
  <2> QED
    BY <1>3, <2>1, <2>2 DEF RequestState
<1>6. CASE At(q, "list") /\ Goto(q, "list-write")
  BY <1>1, <1>2, <1>6, CheckoutGoto DEF At, JobSteps
<1> QED
  BY <1>5, <1>6 DEF FindListing, WriteListing

\* Handlers that decide on what they read; a checkout that has expired has ended.
LEMMA ReadKeepsCheckout ==
    ASSUME TypeInv, CheckoutInv, NEW q \in Workers,
           CompleteEvent(q) \/ FindCheckout(q) \/ RetrieveCheckout(q) \/ RecheckUnpaid(q)
           \/ ReleaseSellerFunds(q)
    PROVE  CheckoutInv'
<1>1. /\ ~At(q, "idle")
      /\ rq[q].at \notin {"checkout", "save-session", "list", "list-write", "insert"}
  BY DEF CompleteEvent, FindCheckout, RetrieveCheckout, RecheckUnpaid, ReleaseSellerFunds, At
<1>2. UNCHANGED <<order, session, events>>
  BY DEF CompleteEvent, FindCheckout, RetrieveCheckout, RecheckUnpaid, ReleaseSellerFunds,
         dbVars, providerVars
<1>3. /\ rq[q].o \in Orders /\ Ready(rq[q], Ended, Made)
      /\ q = Reconciler => JobRequest(rq[q])
  BY <1>1, CheckoutFacts
<1>4. Finish(q) => CheckoutInv'
  BY <1>1, <1>2, CheckoutEnds
<1>5. ~At(q, "insert")
  BY <1>1 DEF At
<1>6. CASE CompleteEvent(q)
  BY <1>4, <1>6 DEF CompleteEvent
<1>7. CASE FindCheckout(q)
  <2>1. q # Reconciler
    BY <1>3, <1>7 DEF FindCheckout, At, JobRequest
  <2>2. \/ Finish(q) \/ Goto(q, "insert")
        \/ Row(q).status # "none" /\ Goto(q, "checkout")
    BY <1>7 DEF FindCheckout
  <2>3. ASSUME Goto(q, "insert") PROVE CheckoutInv'
    BY <1>1, <1>2, <1>5, <2>1, <2>3, CheckoutGoto
  <2>4. ASSUME Row(q).status # "none", Goto(q, "checkout") PROVE CheckoutInv'
    BY <1>1, <1>2, <1>5, <2>1, <2>4, CheckoutGoto
  <2> QED
    BY <1>4, <2>2, <2>3, <2>4
<1>9. CASE RetrieveCheckout(q)
  <2>1. \/ Finish(q) \/ Goto(q, "fund") \/ Goto(q, "pend")
        \/ session[rq[q].o] = "expired" /\ Goto(q, "recheck")
    BY <1>9 DEF RetrieveCheckout
  <2>2. session[rq[q].o] = "expired" => rq[q].o \in Ended
    BY <1>3 DEF Ended
  <2>3. ~At(q, "find")
    BY <1>9 DEF RetrieveCheckout, At
  <2>4. ASSUME NEW step \in {"fund", "pend", "recheck"}, Goto(q, step),
               step = "recheck" => rq[q].o \in Ended
        PROVE  CheckoutInv'
    BY <1>1, <1>2, <1>5, <2>3, <2>4, CheckoutGoto DEF JobSteps
  <2> QED
    BY <1>4, <2>1, <2>2, <2>4
<1>10. CASE RecheckUnpaid(q)
  <2>1. Finish(q) \/ Goto(q, "cancel")
    BY <1>10 DEF RecheckUnpaid
  <2>2. rq[q].o \in Ended /\ ~At(q, "find")
    BY <1>3, <1>10 DEF RecheckUnpaid, Ready, At
  <2>3. ASSUME Goto(q, "cancel") PROVE CheckoutInv'
    BY <1>1, <1>2, <1>5, <2>2, <2>3, CheckoutGoto DEF JobSteps
  <2> QED
    BY <1>4, <2>1, <2>3
<1>11. CASE ReleaseSellerFunds(q)
  <2>1. Finish(q) \/ Goto(q, "completed")
    BY <1>11 DEF ReleaseSellerFunds
  <2>2. q # Reconciler /\ ~At(q, "find")
    BY <1>3, <1>11 DEF ReleaseSellerFunds, JobRequest, At
  <2>3. ASSUME Goto(q, "completed") PROVE CheckoutInv'
    BY <1>1, <1>2, <1>5, <2>2, <2>3, CheckoutGoto
  <2> QED
    BY <1>4, <2>1, <2>3
<1> QED
  BY <1>6, <1>7, <1>9, <1>10, <1>11

\* setListingStatus is the next step of a handler that has written its order.
LEMMA ThenListReady ==
    ASSUME TypeInv, CheckoutInv, NEW q \in Workers, ~At(q, "idle"),
           rq[q].at \notin {"find", "insert"}, NEW to, NEW from
    PROVE  /\ Ready(ThenList(q, to, from, "idle"), Ended, Made)
           /\ q = Reconciler => JobRequest(ThenList(q, to, from, "idle"))
<1> DEFINE r == ThenList(q, to, from, "idle")
<1>1. r.at = "list" /\ r.o = rq[q].o /\ r.evt = rq[q].evt /\ r.next = "idle"
  BY DEF ThenList, Idle
<1>2. Ready(rq[q], Ended, Made) /\ (q = Reconciler => JobRequest(rq[q]))
  BY CheckoutFacts
<1> HIDE DEF r
<1>3. Ready(r, Ended, Made) /\ (q = Reconciler => JobRequest(r))
  BY <1>1, <1>2 DEF Ready, JobRequest, At
<1> QED
  BY <1>3 DEF r

\* The updates of handlers that are past the checkout keep its session; only an
\* order whose checkout has ended is cancelled.
LEMMA WriteKeepsCheckout ==
    ASSUME TypeInv, CheckoutInv, NEW q \in Workers, ~At(q, "idle"),
           NEW row, NEW next, UpdateOrder(q, row, next),
           rq[q].at \notin {"find", "insert", "checkout", "save-session", "list", "list-write"},
           row.status # "none", Row(q).session => row.session,
           row.status = "cancelled" => Row(q).status = "cancelled" \/ rq[q].o \in Ended,
           Ready(next, Ended, Made), q = Reconciler => JobRequest(next)
    PROVE  CheckoutInv'
<1>1. rq[q].at \notin {"idle", "find", "insert"}
  BY DEF At
<1>2. ~Opening(rq[q], rq[q].o)
  BY DEF Opening
<1> QED
  BY <1>1, <1>2, CheckoutUpdated

\* Payments, handovers, payouts, disputes and refunds that are written.
LEMMA UpdateKeepsCheckout ==
    ASSUME TypeInv, CheckoutInv, NEW q \in Workers,
           \/ Fund(q) \/ WritePaymentPending(q) \/ WriteRefundFailed(q) \/ WriteRefunded(q)
           \/ WriteShipped(q) \/ WritePinPending(q) \/ WriteDisputed(q) \/ WriteCompleted(q)
           \/ WriteCancelled(q)
    PROVE  CheckoutInv'
<1>1. /\ rq[q].at \in {"fund", "pend", "refund-failed", "refunded", "ship", "issue", "dispute",
                       "completed", "cancel"}
      /\ ~At(q, "idle")
      /\ rq[q].at \notin {"find", "insert", "checkout", "save-session", "list", "list-write"}
      /\ rq[q].at \notin {"find", "insert"}
  BY DEF Fund, WritePaymentPending, WriteRefundFailed, WriteRefunded, WriteShipped,
         WritePinPending, WriteDisputed, WriteCompleted, WriteCancelled, At
<1>2. /\ Row(q) \in OrderRow /\ Ready(rq[q], Ended, Made)
      /\ q = Reconciler => JobRequest(rq[q])
      /\ Ready(Idle, Ended, Made) /\ JobRequest(Idle)
      /\ Ready(Done(q), Ended, Made) /\ (q = Reconciler => JobRequest(Done(q)))
  BY <1>1, CheckoutFacts
<1>3. ASSUME NEW to, NEW from
      PROVE  /\ Ready(ThenList(q, to, from, "idle"), Ended, Made)
             /\ q = Reconciler => JobRequest(ThenList(q, to, from, "idle"))
  BY <1>1, ThenListReady
<1>4. ASSUME NEW status, status # "none",
             status = "cancelled" => rq[q].o \in Ended,
             NEW next, Ready(next, Ended, Made), q = Reconciler => JobRequest(next),
             UpdateOrder(q, [Row(q) EXCEPT !.status = status], next)
      PROVE  CheckoutInv'
  <2> DEFINE row == [Row(q) EXCEPT !.status = status]
  <2>1. row.status = status /\ row.session = Row(q).session
    BY <1>2 DEF OrderRow
  <2> HIDE DEF row
  <2>2. UpdateOrder(q, row, next)
    BY <1>4 DEF row
  <2> QED
    BY <1>1, <1>4, <2>1, <2>2, WriteKeepsCheckout
<1>5. CASE Fund(q)
  <2> DEFINE row == [Row(q) EXCEPT !.status = "escrow_funded", !.paymentIntent = TRUE]
  <2>1. row.status = "escrow_funded" /\ row.session = Row(q).session
    BY <1>2 DEF OrderRow
  <2>2. UpdateOrder(q, row, ThenList(q, "reserved", None, "idle"))
    BY <1>5 DEF Fund
  <2> HIDE DEF row
  <2>3. /\ Ready(ThenList(q, "reserved", None, "idle"), Ended, Made)
        /\ q = Reconciler => JobRequest(ThenList(q, "reserved", None, "idle"))
    BY <1>3
  <2> QED
    BY <1>1, <2>1, <2>2, <2>3, WriteKeepsCheckout
<1>6. CASE WriteCompleted(q)
  <2> DEFINE row == [Row(q) EXCEPT !.status = "completed", !.transfer = "completed"]
  <2>1. row.status = "completed" /\ row.session = Row(q).session
    BY <1>2 DEF OrderRow
  <2>2. UpdateOrder(q, row, ThenList(q, "sold", None, "idle"))
    BY <1>6 DEF WriteCompleted
  <2> HIDE DEF row
  <2>3. /\ Ready(ThenList(q, "sold", None, "idle"), Ended, Made)
        /\ q = Reconciler => JobRequest(ThenList(q, "sold", None, "idle"))
    BY <1>3
  <2> QED
    BY <1>1, <2>1, <2>2, <2>3, WriteKeepsCheckout
<1>7. CASE WriteCancelled(q)
  <2>1. rq[q].o \in Ended
    BY <1>2, <1>7 DEF WriteCancelled, Ready, At
  <2> QED
    BY <1>3, <1>4, <1>7, <2>1 DEF WriteCancelled
<1>8. CASE WritePaymentPending(q)
  BY <1>2, <1>4, <1>8 DEF WritePaymentPending
<1>9. CASE WriteRefundFailed(q)
  BY <1>2, <1>4, <1>9 DEF WriteRefundFailed
<1>10. CASE WriteRefunded(q)
  BY <1>3, <1>4, <1>10 DEF WriteRefunded
<1>11. CASE WriteShipped(q)
  BY <1>2, <1>4, <1>11 DEF WriteShipped
<1>12. CASE WritePinPending(q)
  BY <1>2, <1>4, <1>12 DEF WritePinPending
<1>13. CASE WriteDisputed(q)
  BY <1>2, <1>4, <1>13 DEF WriteDisputed
<1> QED
  BY <1>5, <1>6, <1>7, <1>8, <1>9, <1>10, <1>11, <1>12, <1>13

\* A chargeback and a refund leave the status, or write one of an open order.
LEMMA RecordKeepsCheckout ==
    ASSUME TypeInv, CheckoutInv, NEW q \in Workers, WriteChargeback(q) \/ RecordRefund(q)
    PROVE  CheckoutInv'
<1>1. /\ rq[q].at \in {"chargeback", "recovered", "record"}
      /\ ~At(q, "idle")
      /\ rq[q].at \notin {"find", "insert", "checkout", "save-session", "list", "list-write"}
      /\ rq[q].at \notin {"find", "insert"}
  BY DEF WriteChargeback, RecordRefund, At
<1>2. /\ Row(q) \in OrderRow /\ Row(q).status # "none" /\ Ready(rq[q], Ended, Made)
      /\ Ready(Idle, Ended, Made)
      /\ q # Reconciler
      /\ Ready(Done(q), Ended, Made)
      /\ rq[q].o \in Made
  BY <1>1, CheckoutFacts DEF JobRequest, Ready
<1>3. ASSUME NEW row, NEW next, UpdateOrder(q, row, next), row.session = Row(q).session,
             row.status = Row(q).status \/ row.status \in {"disputed", "refund_pending"},
             Ready(next, Ended, Made)
      PROVE  CheckoutInv'
  BY <1>1, <1>2, <1>3, WriteKeepsCheckout
<1>4. CASE WriteChargeback(q)
  <2> DEFINE type == rq[q].evt.type
             row == [Row(q) EXCEPT
                       !.status    = IF ChargebackStatus(type) \in {"won", "withdrawn"}
                                     THEN @ ELSE "disputed",
                       !.dispute   = ChargebackStatus(type),
                       !.disputeId = DisputeId(type),
                       !.transfer  = IF At(q, "recovered") THEN "reversed" ELSE @]
  <2>1. /\ row.session = Row(q).session
        /\ row.status \in {Row(q).status, "disputed"}
    BY <1>2 DEF OrderRow
  <2>2. UpdateOrder(q, row, Done(q))
    BY <1>4 DEF WriteChargeback
  <2> HIDE DEF row, type
  <2> QED
    BY <1>2, <1>3, <2>1, <2>2
<1>5. CASE RecordRefund(q)
  <2> DEFINE row == [Row(q) EXCEPT
           !.status       = IF IsFull(q) THEN "refund_pending" ELSE @,
           !.refundKey    = rq[q].key,
           !.refundedBase = rq[q].row.refundedBase + rq[q].amount,
           !.transfer     = IF ReversalDue(q) <= 0 THEN @
                            ELSE IF IsFull(q) \/ Proportional(rq[q].row.refundedBase
                                                              + rq[q].amount) >= SellerAmount
                            THEN "reversed" ELSE "partially_reversed"]
             next == IF IsFull(q) /\ rq[q].outcome = "succeeded"
                     THEN [Idle EXCEPT !.at = "refunded", !.o = rq[q].o] ELSE Idle
  <2>1. /\ row.session = Row(q).session
        /\ row.status = IF IsFull(q) THEN "refund_pending" ELSE Row(q).status
    BY <1>2 DEF OrderRow
  <2>2. UpdateOrder(q, row, next)
    BY <1>5 DEF RecordRefund
  <2>3. next = Idle \/ (next.at = "refunded" /\ next.o = rq[q].o /\ next.evt = None)
    BY DEF Idle
  <2>4. Ready(next, Ended, Made)
    BY <1>2, <2>3 DEF Ready
  <2> HIDE DEF row, next
  <2> QED
    BY <1>3, <2>1, <2>2, <2>4
<1> QED
  BY <1>4, <1>5

\* Quotes, claims, reversals and refunds go on, or give up.
LEMMA MoneyKeepsCheckout ==
    ASSUME TypeInv, CheckoutInv, NEW q \in Workers,
           \/ QuoteRefund(q) \/ ClaimRefund(q) \/ ReverseTransfer(q) \/ CreateRefund(q)
           \/ UpdateRefund(q) \/ RecoverSellerLeg(q)
    PROVE  CheckoutInv'
<1>1. /\ rq[q].at \in {"quote", "claim", "reverse", "refund", "ledger", "recover"}
      /\ ~At(q, "idle") /\ ~At(q, "find") /\ ~At(q, "insert")
      /\ rq[q].at \notin {"checkout", "save-session", "list", "list-write"}
  BY DEF QuoteRefund, ClaimRefund, ReverseTransfer, CreateRefund, UpdateRefund,
         RecoverSellerLeg, At
<1>2. UNCHANGED <<order, session>>
  BY DEF QuoteRefund, ClaimRefund, ReverseTransfer, CreateRefund, UpdateRefund,
         RecoverSellerLeg, dbVars, providerVars
<1>3. /\ rq[q] \in RequestState /\ rq[q].o \in Orders /\ Ready(rq[q], Ended, Made)
      /\ q # Reconciler /\ rq \in [Workers -> RequestState]
  BY <1>1, CheckoutFacts DEF JobRequest
<1>4. ASSUME NEW step \in {"claim", "reverse", "refund", "ledger", "record", "recovered"},
             Goto(q, step), UNCHANGED events
      PROVE  CheckoutInv'
  BY <1>1, <1>2, <1>3, <1>4, CheckoutGoto
<1>5. Throw(q) \/ (Finish(q) /\ UNCHANGED events) => CheckoutInv'
  BY <1>1, <1>2, CheckoutEnds
<1>6. ASSUME NEW r, rq' = [rq EXCEPT ![q] = r], UNCHANGED events,
             r.o = rq[q].o, r.evt = rq[q].evt, r.at \in {"claim", "ledger"}
      PROVE  CheckoutInv'
  <2>1. Ready(r, Ended, Made)
    BY <1>1, <1>3, <1>6 DEF Ready
  <2>2. \A o : ~Opening(rq[q], o)
    BY <1>1 DEF Opening
  <2>3. \A e \in events' : e \in events \/ (e = rq[q].evt /\ e # None)
    BY <1>6
  <2> QED
    BY <1>2, <1>3, <1>6, <2>1, <2>2, <2>3, CheckoutGoesOn
<1>7. CASE QuoteRefund(q)
  <2> DEFINE credit == IF IsFull(q) THEN TotalCharged - Credited(rq[q].o) ELSE rq[q].amount
             r == [rq[q] EXCEPT !.at = "claim", !.credit = credit]
  <2>1. UNCHANGED events
    BY <1>7 DEF QuoteRefund
  <2>2. r.o = rq[q].o /\ r.evt = rq[q].evt /\ r.at = "claim"
    BY <1>3 DEF RequestState
  <2>3. rq' = [rq EXCEPT ![q] = r] \/ rq' = [rq EXCEPT ![q] = Idle]
    BY <1>7 DEF QuoteRefund
  <2> HIDE DEF r
  <2> QED
    BY <1>5, <1>6, <2>1, <2>2, <2>3 DEF Finish
<1>8. CASE CreateRefund(q)
  <2>1. UNCHANGED events
    BY <1>8 DEF CreateRefund
  <2>2. Finish(q) \/ \E s \in {"pending", "succeeded"} :
          rq' = [rq EXCEPT ![q].at = "ledger", ![q].outcome = s]
    BY <1>8 DEF CreateRefund
  <2>3. ASSUME NEW s \in {"pending", "succeeded"},
               rq' = [rq EXCEPT ![q].at = "ledger", ![q].outcome = s]
        PROVE  CheckoutInv'
    <3> DEFINE r == [rq[q] EXCEPT !.at = "ledger", !.outcome = s]
    <3>1. rq' = [rq EXCEPT ![q] = r]
      BY <1>3, <2>3
    <3>2. r.o = rq[q].o /\ r.evt = rq[q].evt /\ r.at = "ledger"
      BY <1>3 DEF RequestState
    <3> HIDE DEF r
    <3> QED
      BY <1>6, <2>1, <3>1, <3>2
  <2> QED
    BY <1>5, <2>1, <2>2, <2>3
<1>9. CASE ClaimRefund(q)
  <2>1. (Finish(q) \/ Goto(q, "reverse")) /\ UNCHANGED events
    BY <1>9 DEF ClaimRefund
  <2> QED
    BY <1>4, <1>5, <2>1
<1>10. CASE ReverseTransfer(q)
  <2>1. Throw(q) \/ (Goto(q, "refund") /\ UNCHANGED events)
    BY <1>10 DEF ReverseTransfer
  <2> QED
    BY <1>4, <1>5, <2>1
<1>11. CASE UpdateRefund(q)
  BY <1>4, <1>11 DEF UpdateRefund
<1>12. CASE RecoverSellerLeg(q)
  <2>1. Throw(q) \/ (Goto(q, "recovered") /\ UNCHANGED events)
    BY <1>12 DEF RecoverSellerLeg
  <2> QED
    BY <1>4, <1>5, <2>1
<1> QED
  BY <1>7, <1>8, <1>9, <1>10, <1>11, <1>12

\* Whoever inserts an order, or finds it inserted, goes on to open its checkout.
LEMMA InsertOpensCheckout ==
    ASSUME TypeInv, CheckoutInv, NEW q \in Workers, InsertOrder(q)
    PROVE  CheckoutInv'
<1> DEFINE o == rq[q].o
           r == ThenList(q, "reserved", None, "checkout")
<1>1. At(q, "insert") /\ ~At(q, "idle") /\ UNCHANGED <<session, events>>
  BY DEF InsertOrder, At, providerVars
<1>2. /\ o \in Orders /\ order \in [Orders -> OrderRow] /\ Ready(rq[q], Ended, Made)
      /\ q = Reconciler => JobRequest(rq[q])
      /\ q # Reconciler => q \in Requests
  BY <1>1, CheckoutFacts DEF TypeInv, TypeOK
<1>3. q # Reconciler /\ q \in Requests
  BY <1>1, <1>2 DEF JobRequest, At
<1>4. r.at = "list" /\ r.o = o /\ r.evt = rq[q].evt /\ r.next = "checkout"
  BY DEF ThenList, Idle
<1>5. Ended' = Ended
  BY <1>1 DEF Ended
<1>6. Opening(r, o)
  BY <1>4 DEF Opening
<1>7. \A i : ~Opening(rq[q], i)
  BY <1>1 DEF Opening, At
<1> HIDE DEF r
<1>8. CASE /\ Row(q).status = "none"
           /\ order' = [order EXCEPT ![o].status = "initiated"]
           /\ rq' = [rq EXCEPT ![q] = r]
  <2>1. /\ order'[o].status = "initiated"
        /\ \A i \in Orders \ {o} : order'[i] = order[i]
    BY <1>2, <1>8 DEF OrderRow
  <2>2. Made' = Made \cup {o}
    BY <1>2, <2>1 DEF Made
  <2>3. Ready(r, Ended', Made')
    BY <1>2, <1>4, <1>5, <2>2 DEF Ready, EventStands
  <2>4. \A i \in Made' : \/ order'[i].session
                         \/ q \in Requests /\ Opening(r, i)
                         \/ /\ i \in Made /\ ~order[i].session
                            /\ Opening(rq[q], i) => Opening(r, i)
    BY <1>3, <1>6, <1>7, <2>1, <2>2 DEF Made
  <2>5. \A i \in Orders : order'[i].status = "cancelled"
          => order[i].status = "cancelled" \/ i \in Ended'
    BY <2>1
  <2>6. \A e \in events' : e \in events \/ (e = rq[q].evt /\ e # None)
          \/ EventStands(e, Ended', Made')
    BY <1>1
  <2>7. /\ Ended \subseteq Ended' /\ Made \subseteq Made'
        /\ \A i \in Orders : session'[i] # "none" => session[i] # "none" \/ i \in Made'
    BY <1>1, <1>5, <2>2
  <2> QED
    BY <1>3, <1>8, <2>3, <2>4, <2>5, <2>6, <2>7, CheckoutMoves
<1>9. CASE /\ Row(q).status # "none" /\ UNCHANGED order
           /\ rq' = [rq EXCEPT ![q] = r]
  <2>1. o \in Made
    BY <1>2, <1>9 DEF Made, Row
  <2>2. Ready(r, Ended, Made)
    BY <1>2, <1>4, <2>1 DEF Ready
  <2>3. /\ \A e \in events' : e \in events \/ (e = rq[q].evt /\ e # None)
        /\ \A i \in Made : order[i].session \/ (Opening(rq[q], i) => Opening(r, i))
    BY <1>1, <1>7
  <2> QED
    BY <1>1, <1>3, <1>9, <2>2, <2>3, CheckoutGoesOn
<1>10. CASE Finish(q) /\ UNCHANGED order
  <2>1. rq[q].at \notin {"checkout", "save-session", "list", "list-write"}
    BY <1>1 DEF At
  <2> QED
    BY <1>1, <1>10, <2>1, CheckoutEnds
<1> QED
  BY <1>8, <1>9, <1>10 DEF InsertOrder, r

\* The session is opened at the provider, and then saved: the index has nothing to
\* refuse, since the status of the order does not change.
LEMMA SessionIsSaved ==
    ASSUME TypeInv, CheckoutInv, OneActiveOrder, NEW q \in Workers,
           OpenCheckout(q) \/ SaveSession(q)
    PROVE  CheckoutInv'
<1> DEFINE o == rq[q].o
<1>1. rq[q].at \in {"checkout", "save-session"} /\ ~At(q, "idle")
  BY DEF OpenCheckout, SaveSession, At
<1>2. /\ o \in Orders /\ Ready(rq[q], Ended, Made) /\ Ready(Idle, Ended, Made)
      /\ rq[q] \in RequestState /\ rq \in [Workers -> RequestState] /\ Row(q) \in OrderRow
      /\ q = Reconciler => JobRequest(rq[q])
      /\ Row(q).status # "none"
  BY <1>1, CheckoutFacts
<1>3. q # Reconciler /\ o \in Made
  BY <1>1, <1>2 DEF JobRequest, Ready
<1>4. CASE OpenCheckout(q)
  <2> DEFINE r == [rq[q] EXCEPT !.at = "save-session"]
  <2>1. r.at = "save-session" /\ r.o = o /\ r.evt = rq[q].evt
    BY <1>2 DEF RequestState
  <2>2. rq' = [rq EXCEPT ![q] = r] /\ UNCHANGED <<order, events>>
    BY <1>4 DEF OpenCheckout, Goto, dbVars
  <2> HIDE DEF r
  <2>3. /\ session' = [session EXCEPT ![o] = IF @ = "none" THEN "open" ELSE @]
        /\ session \in [Orders -> {"none", "open", "complete", "paid", "failed", "expired"}]
    BY <1>4 DEF OpenCheckout, TypeInv, TypeOK
  <2>4. Ended' = Ended /\ Made' = Made
    BY <1>2, <2>2, <2>3 DEF Ended, Made
  <2>5. Ready(r, Ended', Made')
    BY <1>2, <1>3, <2>1, <2>4 DEF Ready
  <2>6. /\ \A i \in Orders : order'[i].status = "cancelled"
             => order[i].status = "cancelled" \/ i \in Ended'
        /\ \A i \in Orders : session'[i] # "none" => session[i] # "none" \/ i \in Made'
    BY <1>2, <1>3, <2>2, <2>3, <2>4
  <2>7. \A i : Opening(rq[q], i) => Opening(r, i)
    BY <2>1 DEF Opening
  <2>8. \A i \in Made' : \/ order'[i].session
                         \/ q \in Requests /\ Opening(r, i)
                         \/ /\ i \in Made /\ ~order[i].session
                            /\ Opening(rq[q], i) => Opening(r, i)
    BY <2>2, <2>4, <2>7
  <2>9. \A e \in events' : e \in events \/ (e = rq[q].evt /\ e # None)
          \/ EventStands(e, Ended', Made')
    BY <2>2
  <2> QED
    BY <1>3, <2>2, <2>4, <2>5, <2>6, <2>8, <2>9, CheckoutMoves
<1>5. CASE SaveSession(q)
  <2> DEFINE row == [Row(q) EXCEPT !.session = TRUE]
  <2>1. row.session /\ row.status = Row(q).status
    BY <1>2 DEF OrderRow
  <2>2. UpdateOrder(q, row, Idle)
    BY <1>5 DEF SaveSession
  <2> HIDE DEF row
  <2>3. IndexAllows(o, row.status)
    BY <1>2, <2>1 DEF OneActiveOrder, IndexAllows, Row
  <2>4. row.status = "cancelled" => Row(q).status = "cancelled" \/ o \in Ended
    BY <2>1
  <2>5. rq[q].at \notin {"idle", "find", "insert"}
    BY <1>1
  <2> QED
    BY <1>2, <1>3, <2>1, <2>2, <2>3, <2>4, <2>5, CheckoutUpdated
<1> QED
  BY <1>4, <1>5

\* A checkout that is expired has ended before its order is cancelled.
LEMMA ExpiryKeepsCheckout ==
    ASSUME TypeInv, CheckoutInv, NEW q \in Workers, ExpireSession(q)
    PROVE  CheckoutInv'
<1> DEFINE o == rq[q].o
           r == [rq[q] EXCEPT !.at = "cancel"]
<1>1. /\ At(q, "expire") /\ ~At(q, "idle") /\ ~At(q, "find") /\ ~At(q, "insert")
      /\ rq[q].at \notin {"checkout", "save-session", "list", "list-write"}
      /\ UNCHANGED order
  BY DEF ExpireSession, At, dbVars
<1>2. /\ o \in Orders /\ Ready(rq[q], Ended, Made) /\ rq[q] \in RequestState
      /\ q = Reconciler => JobRequest(rq[q])
  BY <1>1, CheckoutFacts
<1>3. q # Reconciler /\ o \in Made
  BY <1>1, <1>2 DEF JobRequest, Ready, At
<1>4. CASE /\ session[o] = "open"
           /\ session' = [session EXCEPT ![o] = "expired"]
           /\ events' = events \cup {[type |-> "expired", o |-> o, key |-> None]}
           /\ Goto(q, "cancel")
  <2>1. r.at = "cancel" /\ r.o = o /\ r.evt = rq[q].evt
    BY <1>2 DEF RequestState
  <2>2. rq' = [rq EXCEPT ![q] = r]
    BY <1>4 DEF Goto
  <2> HIDE DEF r
  <2>3. session \in [Orders -> {"none", "open", "complete", "paid", "failed", "expired"}]
    BY DEF TypeInv, TypeOK
  <2>4. Ended' = Ended \cup {o} /\ Made' = Made
    BY <1>1, <1>2, <1>4, <2>3 DEF Ended, Made
  <2>5. Ready(r, Ended', Made')
    BY <1>2, <1>3, <2>1, <2>4 DEF Ready, EventStands
  <2>6. /\ \A i \in Orders : order'[i].status = "cancelled"
             => order[i].status = "cancelled" \/ i \in Ended'
        /\ \A i \in Orders : session'[i] # "none" => session[i] # "none" \/ i \in Made'
    BY <1>1, <1>2, <1>4, <2>3
  <2>7. \A i : ~Opening(rq[q], i)
    BY <1>1 DEF Opening
  <2>8. \A i \in Made' : \/ order'[i].session
                         \/ q \in Requests /\ Opening(r, i)
                         \/ /\ i \in Made /\ ~order[i].session
                            /\ Opening(rq[q], i) => Opening(r, i)
    BY <1>1, <2>4, <2>7
  <2>9. \A e \in events' : e \in events \/ (e = rq[q].evt /\ e # None)
          \/ EventStands(e, Ended', Made')
    BY <1>3, <1>4, <2>4 DEF EventStands
  <2>10. Ended \subseteq Ended' /\ Made \subseteq Made'
    BY <2>4
  <2> QED
    BY <1>3, <2>2, <2>5, <2>6, <2>8, <2>9, <2>10, CheckoutMoves
<1>5. CASE session[o] = "expired" /\ Goto(q, "cancel") /\ UNCHANGED <<session, events>>
  <2>1. o \in Ended
    BY <1>2, <1>5 DEF Ended
  <2> QED
    BY <1>1, <1>3, <1>5, <2>1, CheckoutGoto
<1>6. CASE Throw(q) /\ UNCHANGED session
  BY <1>1, <1>6, CheckoutEnds
<1> QED
  BY <1>4, <1>5, <1>6 DEF ExpireSession

\* Every step of a handler.
LEMMA StepKeepsCheckout ==
    ASSUME TypeInv, CheckoutInv, OneActiveOrder, NEW q \in Workers, Step(q)
    PROVE  CheckoutInv'
BY ListingKeepsCheckout, ReadKeepsCheckout, UpdateKeepsCheckout, RecordKeepsCheckout,
   MoneyKeepsCheckout, InsertOpensCheckout, SessionIsSaved, ExpiryKeepsCheckout DEF Step

\* What ends a session at the provider leaves an event behind that says so.
LEMMA ProviderKeepsCheckout ==
    ASSUME TypeInv, MoneyInv, CheckoutInv, NEW o \in Orders, Provider(o)
    PROVE  CheckoutInv'
<1>1. /\ session \in [Orders -> {"none", "open", "complete", "paid", "failed", "expired"}]
      /\ order \in [Orders -> OrderRow]
  BY DEF TypeInv, TypeOK
<1>2. ASSUME NEW type, NEW k, events' = events \cup {[type |-> type, o |-> o, key |-> k]},
             UNCHANGED <<order, rq>>, o \in Made, type = "expired" => o \in Ended',
             Ended \subseteq Ended',
             \A i \in Orders : session'[i] # "none" => session[i] # "none" \/ i \in Made
      PROVE  CheckoutInv'
  <2>1. Made' = Made
    BY <1>2 DEF Made
  <2>2. \A e \in events' : EventStands(e, Ended', Made')
    BY <1>2, <2>1 DEF CheckoutInv, EventStands
  <2>3. \A q \in Workers : Ready(rq'[q], Ended', Made')
    BY <1>2, <2>1 DEF CheckoutInv, Ready, EventStands
  <2>4. \A i \in Made' : order'[i].session \/ \E p \in Requests : Opening(rq'[p], i)
    BY <1>2, <2>1 DEF CheckoutInv
  <2>5. /\ \A i \in Orders : order'[i].status = "cancelled" => i \in Ended'
        /\ \A i \in Orders : session'[i] # "none" => i \in Made'
        /\ JobRequest(rq'[Reconciler])
    BY <1>2, <2>1 DEF CheckoutInv
  <2> QED
    BY <2>2, <2>3, <2>4, <2>5 DEF CheckoutInv
<1>3. ASSUME NEW from \in {"open", "complete"}, NEW to, NEW type, SessionEnds(o, from, to, type),
             type = "expired" => to \in {"expired", "failed"}
      PROVE  CheckoutInv'
  <2>1. /\ session[o] = from /\ session' = [session EXCEPT ![o] = to]
        /\ events' = events \cup {[type |-> type, o |-> o, key |-> None]}
        /\ UNCHANGED <<order, rq>>
    BY <1>3 DEF SessionEnds, Emit, dbVars
  <2>2. o \in Made
    BY <1>3, <2>1 DEF CheckoutInv
  <2>3. /\ session'[o] = to /\ \A i \in Orders \ {o} : session'[i] = session[i]
        /\ o \notin Ended
    BY <1>1, <1>3, <2>1 DEF Ended
  <2>4. /\ type = "expired" => o \in Ended'
        /\ Ended \subseteq Ended'
        /\ \A i \in Orders : session'[i] # "none" => session[i] # "none" \/ i \in Made
    BY <1>3, <2>2, <2>3 DEF Ended
  <2> QED
    BY <1>2, <2>1, <2>2, <2>4
<1>4. CASE CustomerPays(o) \/ SessionExpires(o) \/ PaysLater(o) \/ AsyncSettles(o)
  BY <1>3, <1>4 DEF CustomerPays, SessionExpires, PaysLater, AsyncSettles
<1>5. session[o] = "paid" => o \in Made
  BY DEF CheckoutInv
<1>6. ASSUME UNCHANGED session
      PROVE  /\ Ended \subseteq Ended'
             /\ \A i \in Orders : session'[i] # "none" => session[i] # "none" \/ i \in Made
  BY <1>6 DEF Ended
<1>7. CASE NetworkDisputes(o)
  <2>1. PICK move \in DisputeMoves : Emit(move[2], o, None)
    BY <1>7 DEF NetworkDisputes
  <2>2. move[2] # "expired"
    BY DEF DisputeMoves
  <2>3. UNCHANGED <<order, rq, session>> /\ session[o] = "paid"
    BY <1>7 DEF NetworkDisputes, dbVars
  <2>4. events' = events \cup {[type |-> move[2], o |-> o, key |-> None]}
    BY <2>1 DEF Emit
  <2> QED
    BY <1>2, <1>5, <1>6, <2>2, <2>3, <2>4
<1>8. ASSUME NEW k \in RefundKeys, RefundSettles(o, k) PROVE CheckoutInv'
  <2>1. UNCHANGED <<order, rq, session>> /\ refunds[o][k] = "pending"
    BY <1>8 DEF RefundSettles, dbVars
  <2>2. session[o] = "paid"
    BY <2>1 DEF MoneyInv, RefundsBacked, Collected
  <2>3. PICK s \in {"succeeded", "failed"} :
          Emit(IF s = "succeeded" THEN "refund_succeeded" ELSE "refund_failed", o, k)
    BY <1>8 DEF RefundSettles
  <2> DEFINE type == IF s = "succeeded" THEN "refund_succeeded" ELSE "refund_failed"
  <2>4. events' = events \cup {[type |-> type, o |-> o, key |-> k]} /\ type # "expired"
    BY <2>3 DEF Emit
  <2> HIDE DEF type
  <2> QED
    BY <1>2, <1>5, <1>6, <2>1, <2>2, <2>4
<1> QED
  BY <1>4, <1>7, <1>8 DEF Provider

\* A request comes in, or an event is taken: nothing is known of it but its order.
LEMMA BeginKeepsCheckout ==
    ASSUME TypeInv, CheckoutInv, NEW q \in Workers, At(q, "idle"), NEW r,
           rq' = [rq EXCEPT ![q] = r], UNCHANGED <<order, session>>, events' \subseteq events,
           r.at \in {"recheck", "cancel"} => r.o \in Ended,
           r.at \notin {"idle", "find", "insert"} => r.o \in Made,
           r.evt # None => r.evt \in events,
           q = Reconciler => JobRequest(r)
    PROVE  CheckoutInv'
<1>1. Ready(r, Ended, Made)
  BY DEF Ready, CheckoutInv
<1>2. \A o : ~Opening(rq[q], o)
  BY DEF Opening, At
<1> QED
  BY <1>1, <1>2, CheckoutGoesOn

\* An order is cancelled without asking for its session only when it has none; the
\* one request that could save a session is not under way then.
LEMMA RequestKeepsCheckout ==
    ASSUME TypeInv, CheckoutInv, NEW p \in Requests, Requests = {p}, NEW o \in Orders,
           Request(p, o)
    PROVE  CheckoutInv'
<1>1. p \in Workers /\ p # Reconciler
  BY OrdersAssumption DEF Workers
<1>2. /\ At(p, "idle") /\ UNCHANGED <<order, session, events>>
      /\ order \in [Orders -> OrderRow]
  BY DEF Request, BeginCheckout, CancelUnpaid, MarkShipped, IssueHandoverCode, Confirm,
         OpenDispute, RefundOrder, Free, dbVars, providerVars, TypeInv, TypeOK
<1>3. ASSUME NEW r, rq' = [rq EXCEPT ![p] = r], r.o = o, r.evt = None,
             r.at \notin {"recheck", "cancel"}, r.at = "find" \/ o \in Made
      PROVE  CheckoutInv'
  BY <1>1, <1>2, <1>3, BeginKeepsCheckout
<1>4. ASSUME NEW at, Begin(p, at, o), at \notin {"recheck", "cancel"}, at = "find" \/ o \in Made
      PROVE  CheckoutInv'
  <2> DEFINE r == [Idle EXCEPT !.at = at, !.o = o]
  <2>1. r.at = at /\ r.o = o /\ r.evt = None
    BY DEF Idle
  <2>2. rq' = [rq EXCEPT ![p] = r]
    BY <1>4 DEF Begin
  <2> HIDE DEF r
  <2> QED
    BY <1>3, <1>4, <2>1, <2>2
<1>5. order[o].status # "none" => o \in Made
  BY DEF Made
<1>6. CASE BeginCheckout(p, o)
  BY <1>4, <1>6 DEF BeginCheckout
<1>7. CASE CancelUnpaid(p, o)
  <2>1. o \in Made
    BY <1>5, <1>7 DEF CancelUnpaid, Unpaid
  <2>2. ~Opening(rq[p], o)
    BY <1>2 DEF Opening, At
  <2>3. order[o].session
    BY <2>1, <2>2 DEF CheckoutInv
  <2>4. Begin(p, "expire", o)
    BY <1>7, <2>3 DEF CancelUnpaid
  <2> QED
    BY <1>4, <2>1, <2>4
<1>8. CASE MarkShipped(p, o)
  BY <1>4, <1>5, <1>8 DEF MarkShipped
<1>9. CASE IssueHandoverCode(p, o)
  BY <1>4, <1>5, <1>9 DEF IssueHandoverCode
<1>10. CASE OpenDispute(p, o)
  BY <1>4, <1>5, <1>10 DEF OpenDispute
<1>11. CASE Confirm(p, o)
  <2> DEFINE r == [Idle EXCEPT !.at = "release", !.o = o, !.row = order[o]]
  <2>1. r.at = "release" /\ r.o = o /\ r.evt = None
    BY DEF Idle
  <2>2. rq' = [rq EXCEPT ![p] = r] /\ o \in Made
    BY <1>5, <1>11 DEF Confirm
  <2> HIDE DEF r
  <2> QED
    BY <1>3, <2>1, <2>2
<1>12. ASSUME NEW k \in RefundKeys, NEW base \in 1 .. ItemAmount, RefundOrder(p, o, k, base)
       PROVE  CheckoutInv'
  <2> DEFINE r == [Idle EXCEPT !.at = "quote", !.o = o, !.row = order[o],
                               !.key = k, !.amount = base]
  <2>1. r.at = "quote" /\ r.o = o /\ r.evt = None
    BY DEF Idle
  <2>2. rq' = [rq EXCEPT ![p] = r] /\ o \in Made
    BY <1>5, <1>12 DEF RefundOrder, Refundable
  <2> HIDE DEF r
  <2> QED
    BY <1>3, <2>1, <2>2
<1> QED
  BY <1>6, <1>7, <1>8, <1>9, <1>10, <1>11, <1>12 DEF Request

\* The job cancels an order that has no session only when no request is at work on it.
LEMMA ReconcileKeepsCheckout ==
    ASSUME TypeInv, CheckoutInv, NEW o \in Orders, ReconcileOrder(o)
    PROVE  CheckoutInv'
<1> DEFINE r == [Idle EXCEPT !.at = "retrieve", !.o = o]
<1>1. /\ At(Reconciler, "idle") /\ UNCHANGED <<order, session, events>>
      /\ Reconciler \in Workers
  BY DEF ReconcileOrder, dbVars, providerVars, Workers
<1>2. o \in Made
  BY DEF ReconcileOrder, Unpaid, Made
<1>3. order[o].session
  BY <1>2 DEF CheckoutInv, ReconcileOrder, Opening
<1>4. rq' = [rq EXCEPT ![Reconciler] = r]
  BY <1>3 DEF ReconcileOrder, Begin
<1>5. r.at = "retrieve" /\ r.o = o /\ r.evt = None /\ r.next = "idle"
  BY DEF Idle
<1> HIDE DEF r
<1>6. JobRequest(r)
  BY <1>5 DEF JobRequest
<1> QED
  BY <1>1, <1>2, <1>4, <1>5, <1>6, BeginKeepsCheckout

\* An event is taken by the request it wakes up, or refused.
LEMMA TakeEventKeepsCheckout ==
    ASSUME TypeInv, CheckoutInv, NEW p \in Requests, NEW e \in events, TakeEvent(p, e)
    PROVE  CheckoutInv'
<1> DEFINE r == [Idle EXCEPT !.at = FirstStep(e), !.o = e.o, !.evt = e]
<1>1. /\ p \in Workers /\ p # Reconciler /\ At(p, "idle")
      /\ UNCHANGED <<order, session>> /\ events' \subseteq events
      /\ Ready(Idle, Ended, Made)
  BY OrdersAssumption DEF TakeEvent, Free, dbVars, providerVars, Workers, Idle, Ready
<1>2. EventStands(e, Ended, Made)
  BY DEF CheckoutInv
<1>3. r.at = FirstStep(e) /\ r.o = e.o /\ r.evt = e
  BY DEF Idle
<1>4. FirstStep(e) \in {"fund", "cancel", "pend", "refunded", "refund-failed", "recover",
                        "chargeback"}
  BY DEF FirstStep, EventStep
<1>5. FirstStep(e) = "cancel" => e.type = "expired"
  BY DEF FirstStep, EventStep
<1> HIDE DEF r
<1>6. CASE rq' = [rq EXCEPT ![p] = r]
  BY <1>1, <1>2, <1>3, <1>4, <1>5, <1>6, BeginKeepsCheckout DEF EventStands
<1>7. CASE rq' = rq
  <2>1. Ended' = Ended /\ Made' = Made
    BY <1>1 DEF Ended, Made
  <2> QED
    BY <1>1, <1>7, <2>1 DEF CheckoutInv
<1> QED
  BY <1>6, <1>7 DEF TakeEvent, r

\* No step but a failure counts one.
LEMMA OnlyFailuresCount ==
    ASSUME Next, failures' # failures PROVE \E q \in Workers : Fail(q)
<1>1. ASSUME NEW q \in Workers, Step(q) PROVE failures' = failures
  BY <1>1 DEF Step, FindListing, WriteListing, CompleteEvent, FindCheckout, InsertOrder,
     OpenCheckout, SaveSession, ExpireSession, WriteCancelled, Fund, WritePaymentPending,
     WriteRefundFailed, WriteRefunded, RecoverSellerLeg, WriteChargeback, RetrieveCheckout,
     RecheckUnpaid, WriteShipped, WritePinPending, WriteDisputed, ReleaseSellerFunds,
     WriteCompleted, QuoteRefund, ClaimRefund, ReverseTransfer, CreateRefund, UpdateRefund,
     RecordRefund, UpdateOrder
<1>2. ASSUME NEW o \in Orders, Provider(o) \/ ReconcileOrder(o) PROVE failures' = failures
  BY <1>2 DEF Provider, CustomerPays, SessionExpires, PaysLater, AsyncSettles, SessionEnds,
     NetworkDisputes, RefundSettles, ReconcileOrder
<1>3. ASSUME NEW p \in Requests, NEW e \in events, TakeEvent(p, e) PROVE failures' = failures
  BY <1>3 DEF TakeEvent
<1>4. ASSUME NEW p \in Requests, NEW o \in Orders, Request(p, o) PROVE failures' = failures
  BY <1>4 DEF Request, BeginCheckout, CancelUnpaid, MarkShipped, IssueHandoverCode, Confirm,
     OpenDispute, RefundOrder
<1> QED
  BY <1>1, <1>2, <1>3, <1>4 DEF Next

\* What holds until something fails, with one request at a time beside the job.
CancelInv == TypeInv /\ MoneyInv /\ OneActiveOrder /\ (failures = 0 => CheckoutInv)

\* The cancellation invariant is inductive.  After a failure it says nothing of the
\* checkouts, and then only TypeInv, MoneyInv and OneActiveOrder are left to keep.
LEMMA CancelInvInductive ==
    ASSUME NEW p, Requests = {p}, CancelInv, [Next]_vars PROVE CancelInv'
<1>1. TypeInv' /\ MoneyInv' /\ OneActiveOrder'
  BY TypeInvInductive, MoneyInvInductive, OneActiveInductive DEF CancelInv, TypeInv
<1>2. failures \in Nat /\ failures' \in Nat
  BY <1>1, OrdersAssumption DEF CancelInv, TypeInv, TypeOK
<1>3. ASSUME failures' = 0 PROVE CheckoutInv'
  <2>1. CASE UNCHANGED vars
    <3>1. failures = 0 /\ Ended' = Ended /\ Made' = Made
      BY <1>3, <2>1 DEF vars, Ended, Made
    <3> QED
      BY <2>1, <3>1 DEF CancelInv, CheckoutInv, vars
  <2>2. ASSUME NEW q \in Workers, Fail(q) PROVE FALSE
    BY <1>2, <1>3, <2>2 DEF Fail
  <2>3. CASE Next
    <3>1. failures = 0
      BY <1>3, <2>2, <2>3, OnlyFailuresCount
    <3> QED
      BY <2>2, <2>3, <3>1, StepKeepsCheckout, ProviderKeepsCheckout, RequestKeepsCheckout,
         ReconcileKeepsCheckout, TakeEventKeepsCheckout DEF CancelInv, Next
  <2> QED
    BY <2>1, <2>3
<1> QED
  BY <1>1, <1>3 DEF CancelInv

\* Nothing is ordered, in flight or on its way at the start.
LEMMA CancelInvInitially == Init => CancelInv
<1> SUFFICES ASSUME Init PROVE CancelInv
  OBVIOUS
<1>1. TypeInv /\ MoneyInv
  BY TypeInvInitially, MoneyInvInitially
<1>2. Ready(Idle, Ended, Made) /\ JobRequest(Idle)
  BY DEF Idle, Ready, JobRequest
<1>3. \A o \in Orders : order[o].status = "none" /\ session[o] = "none"
  BY DEF Init, NoOrder
<1>4. OneActiveOrder
  BY <1>3 DEF OneActiveOrder, Active, Unpaid
<1>5. CheckoutInv
  BY <1>2, <1>3 DEF CheckoutInv, Init, Made, Ended, Workers
<1> QED
  BY <1>1, <1>4, <1>5 DEF CancelInv

\* A buyer never pays for an order that was cancelled, for any number of orders, with
\* one request at a time beside the job: neither handler looks at what the other wrote,
\* and each cancels only what it knows to have ended.
THEOREM CancelledOrdersAreNotPaid ==
    ASSUME NEW p, Requests = {p} PROVE Spec => []CancelledOrderIsNeverPaid
<1>1. CancelInv => CancelledOrderIsNeverPaid
  BY DEF CancelInv, CheckoutInv, Ended, CancelledOrderIsNeverPaid
<1>2. CancelInv /\ [Next]_vars => CancelInv'
  BY CancelInvInductive
<1> QED
  BY <1>1, <1>2, CancelInvInitially, PTL DEF Spec

=============================================================================
