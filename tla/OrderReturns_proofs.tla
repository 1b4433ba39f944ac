-------------------------- MODULE OrderReturns_proofs --------------------------
(***************************************************************************)
(* For any numbers of returns, operators and overlapping requests and any  *)
(* amounts: the tables keep their types and constraints, the money of a    *)
(* return moves after its item was received, a refunded return is paid,    *)
(* and the confirmations of one return make one refund.                    *)
(*                                                                         *)
(* The updates of a return look at nothing, so what holds of a status does *)
(* not last.  What lasts is that it was decided and received, that its key *)
(* was claimed, and that a refund made with the key succeeded.             *)
(***************************************************************************)
EXTENDS OrderReturns, FiniteSetTheorems, TLAPS

Outcomes == {"none", "pending", "succeeded", "failed"}
Refunding == {"provider", "ledger", "record"}
Confirmed == {"refund", "quote", "claim", "finalize", "settle"} \cup Refunding
Steps == Confirmed \cup {"idle", "insert", "update", "event"}

ReturnRow == [status: ReturnStatus \cup {"none"}, statutory: BOOLEAN, base: 0 .. ItemAmount,
              decided: BOOLEAN, received: BOOLEAN]
OrderRow == [status: {"held", "underway", "closed"}, refundedBase: 0 .. ItemAmount,
             refundKey: Keys \cup {None}]
RefundRow == [status: {"none", "pending", "succeeded"}, credited: 0 .. TotalCharged]
CallState == [at: Steps, key: Keys \cup {None}, row: ReturnRow, read: 0 .. ItemAmount,
              amount: 0 .. ItemAmount, credit: 0 .. TotalCharged, outcome: Outcomes]

Types ==
    /\ ret \in [Returns -> ReturnRow]
    /\ order \in OrderRow
    /\ events \subseteq Keys
    /\ ledger \in [Keys -> RefundRow]
    /\ refunds \in [Keys -> Outcomes]
    /\ call \in [Calls -> CallState]

Row(r) ==
    /\ DecisionCheck(r)
    /\ ret[r].received => ret[r].decided
    /\ ret[r].status = "none" => ~ret[r].decided
    /\ ret[r].status = "refunded" => refunds[r] = "succeeded"
    /\ ledger[r].status # "none" => ret[r].received

Key(k) ==
    /\ ledger[k].status = "none" => ledger[k] = NoRefund
    /\ refunds[k] # "none" => ledger[k].status # "none"
    /\ ledger[k].status = "succeeded" => refunds[k] = "succeeded"

\* What a request knows at each of its steps.
Knows(c) ==
    /\ c.at = "insert" => /\ c.key \in Returns /\ c.row.status = "requested"
                          /\ ~c.row.decided /\ ~c.row.received
    /\ c.at = "update" =>
         /\ c.key \in Returns /\ c.row.decided
         /\ c.row.status \in {"approved", "rejected", "shipped", "received"}
         /\ c.row.status = "received" => c.row.received
    /\ c.at \in Confirmed => c.key \in Keys
    /\ c.at \in Confirmed /\ c.key \in Returns => ret[c.key].received
    /\ c.at \in {"quote", "claim"} \cup Refunding => c.amount \in 1 .. ItemAmount - c.read
    /\ c.at \in Refunding => ledger[c.key].status # "none"
    /\ c.at = "provider" => refunds[c.key] = "none"
    /\ c.at \in {"ledger", "record", "finalize", "settle"} /\ c.outcome = "succeeded"
         => refunds[c.key] = "succeeded"
    /\ c.at \in {"ledger", "record"} => c.outcome \in {"pending", "succeeded"}
    /\ c.at = "settle" => c.key \in Returns

OneOpen == \A q, r \in Returns : ret[q].status \in Open /\ ret[r].status \in Open => q = r

OneRefunds ==
    \A x, y \in Calls :
        call[x].key = call[y].key /\ call[x].at \in Refunding /\ call[y].at \in Refunding
          => x = y

ReturnsInv ==
    /\ Types
    /\ \A r \in Returns : Row(r)
    /\ \A k \in Keys : Key(k)
    /\ \A x \in Calls : Knows(call[x])
    /\ OneOpen
    /\ OneRefunds

-----------------------------------------------------------------------------
(* Rows and requests.                                                      *)

LEMMA Amounts == /\ ItemAmount \in Nat /\ ItemAmount > 0 /\ TotalCharged \in Nat
                 /\ ItemAmount <= TotalCharged
  BY ReturnsAssumption DEF TotalCharged

LEMMA EmptyRows ==
    /\ NoReturn \in ReturnRow /\ NoReturn.status = "none" /\ ~NoReturn.decided
    /\ ~NoReturn.received
    /\ NoRefund \in RefundRow /\ NoRefund.status = "none"
    /\ Idle \in CallState /\ Idle.at = "idle"
<1>1. NoReturn \in ReturnRow /\ NoReturn.status = "none" /\ ~NoReturn.decided
      /\ ~NoReturn.received
  BY Amounts DEF NoReturn, ReturnRow
<1>2. NoRefund \in RefundRow /\ NoRefund.status = "none"
  BY Amounts DEF NoRefund, RefundRow, Outcomes
<1> HIDE DEF NoReturn
<1>3. 0 \in 0 .. ItemAmount /\ 0 \in 0 .. TotalCharged
  BY Amounts
<1>4. Idle \in CallState /\ Idle.at = "idle"
  BY <1>1, <1>3 DEF Idle, CallState, Steps, Outcomes
<1> QED
  BY <1>1, <1>2, <1>4

\* One open return, as the index counts.
LEMMA OpenReturns ==
    ASSUME OneOpen
    PROVE  Cardinality({r \in Returns : ret[r].status \in Open}) <= 1
<1> DEFINE S == {r \in Returns : ret[r].status \in Open}
<1>1. CASE S = {}
  BY <1>1, FS_EmptySet
<1>2. CASE S # {}
  <2>1. PICK r \in S : TRUE
    BY <1>2
  <2>2. S = {r}
    BY <2>1 DEF OneOpen
  <2>3. Cardinality({r}) = 1
    BY FS_Singleton
  <2> QED
    BY <2>2, <2>3
<1> QED
  BY <1>1, <1>2

\* A request that goes on without writing anything.
LEMMA RequestMoves ==
    ASSUME ReturnsInv, NEW x \in Calls, NEW c \in CallState, Knows(c),
           call' = [call EXCEPT ![x] = c],
           ret' = ret, order' = order, ledger' = ledger, refunds' = refunds,
           events' = events,
           c.at \in Refunding => call[x].at \in Refunding /\ call[x].key = c.key
    PROVE  ReturnsInv'
<1>1. /\ call' \in [Calls -> CallState] /\ call'[x] = c
      /\ \A y \in Calls \ {x} : call'[y] = call[y]
  BY DEF ReturnsInv, Types
<1>2. Types'
  BY <1>1 DEF ReturnsInv, Types
<1>3. (\A r \in Returns : Row(r)') /\ (\A k \in Keys : Key(k)') /\ OneOpen'
  BY DEF ReturnsInv, Row, DecisionCheck, Key, OneOpen
<1>4. ASSUME NEW y \in Calls PROVE Knows(call[y])'
  <2>1. Knows(call'[y])
    BY <1>1 DEF ReturnsInv
  <2> QED
    BY <2>1 DEF Knows
<1>5. OneRefunds'
  BY <1>1 DEF ReturnsInv, OneRefunds
<1> QED
  BY <1>2, <1>3, <1>4, <1>5 DEF ReturnsInv

LEMMA FinishKeepsInv ==
    ASSUME ReturnsInv, NEW x \in Calls, Finish(x), UNCHANGED <<ret, money>>
    PROVE  ReturnsInv'
<1>1. Knows(Idle)
  BY EmptyRows DEF Knows, Confirmed, Refunding
<1> QED
  BY <1>1, EmptyRows, RequestMoves DEF Finish, money, Refunding

\* A return is written and the others stay: what holds of requests needs only that
\* nothing that was received is taken back.
LEMMA ReturnIsWritten ==
    ASSUME ReturnsInv, NEW r \in Returns, NEW row \in ReturnRow, NEW x \in Calls,
           NEW c \in CallState,
           ret' = [ret EXCEPT ![r] = row], call' = [call EXCEPT ![x] = c],
           order' = order, ledger' = ledger, refunds' = refunds,
           events' = events,
           ret[r].received => row.received,
           row.received => row.decided,
           row.status # "none" /\ (row.decided <=> row.status \notin Undecided),
           row.status = "refunded" => refunds[r] = "succeeded",
           IndexAllows(r, row.status),
           Knows(c)', c.at \notin Refunding
    PROVE  ReturnsInv'
<1>1. /\ call' \in [Calls -> CallState] /\ call'[x] = c
      /\ \A y \in Calls \ {x} : call'[y] = call[y]
      /\ ret' \in [Returns -> ReturnRow] /\ ret'[r] = row
      /\ \A q \in Returns \ {r} : ret'[q] = ret[q]
  BY DEF ReturnsInv, Types
<1>2. Types'
  BY <1>1 DEF ReturnsInv, Types
<1>3. ASSUME NEW q \in Returns PROVE Row(q)'
  <2>1. CASE q = r
    BY <1>1, <2>1 DEF ReturnsInv, Row, DecisionCheck
  <2>2. CASE q # r
    BY <1>1, <2>2 DEF ReturnsInv, Row, DecisionCheck
  <2> QED
    BY <2>1, <2>2
<1>4. \A k \in Keys : Key(k)'
  BY DEF ReturnsInv, Key
<1>5. ASSUME NEW y \in Calls PROVE Knows(call[y])'
  <2>1. CASE y = x
    BY <1>1, <2>1
  <2>2. CASE y # x
    <3>1. call'[y] = call[y] /\ Knows(call[y])
      BY <1>1, <2>2 DEF ReturnsInv
    <3>2. \A q \in Returns : ret[q].received => ret'[q].received
      BY <1>1
    <3> QED
      BY <3>1, <3>2 DEF Knows
  <2> QED
    BY <2>1, <2>2
<1>6. OneOpen'
  BY <1>1 DEF ReturnsInv, OneOpen, IndexAllows
<1>7. OneRefunds'
  BY <1>1 DEF ReturnsInv, OneRefunds
<1> QED
  BY <1>2, <1>3, <1>4, <1>5, <1>6, <1>7 DEF ReturnsInv

-----------------------------------------------------------------------------
(* The steps of a return.                                                  *)

LEMMA RequestReturnKeepsInv ==
    ASSUME ReturnsInv, NEW x \in Calls, NEW r \in Returns, RequestReturn(x, r)
    PROVE  ReturnsInv'
<1>1. PICK statutory \in BOOLEAN :
        call' = [call EXCEPT ![x] =
                   [Idle EXCEPT !.at = "insert", !.key = r,
                       !.row = [NoReturn EXCEPT !.status = "requested",
                                   !.statutory = statutory,
                                   !.base = ItemAmount - order.refundedBase]]]
  BY DEF RequestReturn
<1>2. ItemAmount - order.refundedBase \in 0 .. ItemAmount
  BY Amounts DEF ReturnsInv, Types, OrderRow
<1> DEFINE base == ItemAmount - order.refundedBase
<1> HIDE DEF base
<1> DEFINE row == [NoReturn EXCEPT !.status = "requested", !.statutory = statutory,
                                   !.base = base]
<1>3. row \in ReturnRow /\ row.status = "requested" /\ ~row.decided /\ ~row.received
  BY <1>2 DEF base, NoReturn, ReturnRow, ReturnStatus, Open
<1> HIDE DEF row
<1> DEFINE c == [Idle EXCEPT !.at = "insert", !.key = r, !.row = row]
<1>4. c \in CallState /\ c.at = "insert" /\ c.key = r /\ c.row = row
  <2>1. Idle \in CallState
    BY EmptyRows
  <2> HIDE DEF Idle
  <2> QED
    BY <1>3, <2>1 DEF CallState, Steps, Keys
<1>5. call' = [call EXCEPT ![x] = c]
  BY <1>1 DEF row, base
<1> HIDE DEF c
<1>6. Knows(c)
  BY <1>3, <1>4 DEF Knows, Confirmed, Refunding
<1> QED
  BY <1>4, <1>5, <1>6, RequestMoves DEF RequestReturn, money, Refunding

\* What every handler reads and is going to write.
LEMMA WriteKeepsInv ==
    ASSUME ReturnsInv, NEW x \in Calls, NEW r \in Returns, NEW row \in ReturnRow,
           Write(x, r, row, "update"), row.decided,
           row.status \in {"approved", "rejected", "shipped", "received"},
           row.status = "received" => row.received
    PROVE  ReturnsInv'
<1> DEFINE c == [Idle EXCEPT !.at = "update", !.key = r, !.row = row,
                             !.read = order.refundedBase]
<1>1. call' = [call EXCEPT ![x] = c]
  BY DEF Write
<1>2. order.refundedBase \in 0 .. ItemAmount /\ Idle \in CallState
  BY EmptyRows DEF ReturnsInv, Types, OrderRow
<1>3. c \in CallState /\ c.at = "update" /\ c.key = r /\ c.row = row
  <2> HIDE DEF Idle
  <2> QED
    BY <1>2 DEF CallState, Steps, Keys
<1> HIDE DEF c
<1>4. Knows(c)
  BY <1>3 DEF Knows, Confirmed, Refunding
<1> QED
  BY <1>1, <1>3, <1>4, RequestMoves DEF Write, money, Refunding

LEMMA AnswersKeepInv ==
    ASSUME ReturnsInv, NEW x \in Calls, NEW r \in Returns,
           \/ \E approve \in BOOLEAN : DecideReturn(x, r, approve)
           \/ MarkReturnShipped(x, r)
           \/ ConfirmReturnReceived(x, r)
    PROVE  ReturnsInv'
<1>1. ret[r] \in ReturnRow /\ Row(r)
  BY DEF ReturnsInv, Types
<1>2. ASSUME NEW approve \in BOOLEAN, DecideReturn(x, r, approve) PROVE ReturnsInv'
  <2> DEFINE row == [ret[r] EXCEPT !.decided = TRUE,
                        !.status = IF approve THEN "approved" ELSE "rejected"]
  <2>1. row \in ReturnRow /\ row.decided /\ row.status \in {"approved", "rejected"}
    BY <1>1 DEF ReturnRow, ReturnStatus, Open
  <2>2. Write(x, r, row, "update")
    BY <1>2 DEF DecideReturn
  <2> HIDE DEF row
  <2> QED
    BY <2>1, <2>2, WriteKeepsInv
<1>3. CASE MarkReturnShipped(x, r)
  <2> DEFINE row == [ret[r] EXCEPT !.status = "shipped"]
  <2>1. row \in ReturnRow /\ row.decided /\ row.status = "shipped"
    BY <1>1, <1>3 DEF ReturnRow, ReturnStatus, Open, MarkReturnShipped, Row, DecisionCheck,
                      Undecided
  <2>2. Write(x, r, row, "update")
    BY <1>3 DEF MarkReturnShipped
  <2> HIDE DEF row
  <2> QED
    BY <2>1, <2>2, WriteKeepsInv
<1>4. CASE ConfirmReturnReceived(x, r)
  <2> DEFINE row == [ret[r] EXCEPT !.status = "received", !.received = TRUE]
  <2>1. row \in ReturnRow /\ row.decided /\ row.status = "received" /\ row.received
    BY <1>1, <1>4 DEF ReturnRow, ReturnStatus, Open, ConfirmReturnReceived, Row,
                      DecisionCheck, Undecided
  <2>2. Write(x, r, row, "update")
    BY <1>4 DEF ConfirmReturnReceived
  <2> HIDE DEF row
  <2> QED
    BY <2>1, <2>2, WriteKeepsInv
<1> QED
  BY <1>2, <1>3, <1>4

LEMMA InsertReturnKeepsInv ==
    ASSUME ReturnsInv, NEW x \in Calls, InsertReturn(x)
    PROVE  ReturnsInv'
<1> DEFINE r == call[x].key
<1>1. /\ call[x] \in CallState /\ r \in Returns /\ call[x].row \in ReturnRow
      /\ call[x].row.status = "requested"
      /\ ~call[x].row.decided /\ ~call[x].row.received
  BY DEF InsertReturn, At, ReturnsInv, Types, Knows, CallState
<1>2. Finish(x) /\ order' = order /\ ledger' = ledger
      /\ refunds' = refunds /\ events' = events
  BY DEF InsertReturn, money
<1>3. CASE ret[r] = NoReturn /\ IndexAllows(r, "requested")
  <2>1. ret' = [ret EXCEPT ![r] = call[x].row]
    BY <1>3 DEF InsertReturn
  <2>2. Knows(Idle)'
    BY EmptyRows DEF Knows, Confirmed, Refunding
  <2>3. call' = [call EXCEPT ![x] = Idle] /\ Idle \in CallState /\ Idle.at \notin Refunding
    BY <1>2, EmptyRows DEF Finish, Refunding
  <2>4. ~ret[r].received
    BY <1>3, EmptyRows
  <2> HIDE DEF Idle
  <2> QED
    BY <1>1, <1>2, <1>3, <2>1, <2>2, <2>3, <2>4, ReturnIsWritten DEF Undecided
<1>4. CASE ~(ret[r] = NoReturn /\ IndexAllows(r, "requested"))
  BY <1>2, <1>4, FinishKeepsInv DEF InsertReturn, money
<1> QED
  BY <1>3, <1>4

LEMMA UpdateReturnKeepsInv ==
    ASSUME ReturnsInv, NEW x \in Calls, UpdateReturn(x)
    PROVE  ReturnsInv'
<1> DEFINE r == call[x].key
<1> DEFINE row == call[x].row
<1>1. /\ call[x] \in CallState /\ r \in Returns /\ row \in ReturnRow
      /\ row.decided /\ row.status \in {"approved", "rejected", "shipped", "received"}
      /\ row.status = "received" => row.received
      /\ ret \in [Returns -> ReturnRow] /\ ret[r] \in ReturnRow /\ Row(r)
  BY DEF UpdateReturn, At, ReturnsInv, Types, Knows, CallState
<1>2. order' = order /\ ledger' = ledger /\ refunds' = refunds /\ events' = events
  BY DEF UpdateReturn, money
<1>3. CASE IndexAllows(r, row.status)
  <2> DEFINE new == [ret[r] EXCEPT !.status = row.status,
                                   !.decided = @ \/ row.decided,
                                   !.received = @ \/ row.received]
  <2>1. ret' = [ret EXCEPT ![r].status = row.status,
                           ![r].decided = @ \/ row.decided,
                           ![r].received = @ \/ row.received]
    BY <1>3 DEF UpdateReturn
  <2>2. ret' = [ret EXCEPT ![r] = new]
    BY <1>1, <2>1
  <2>3. /\ new \in ReturnRow /\ new.status = row.status /\ new.decided
        /\ new.received <=> ret[r].received \/ row.received
    BY <1>1 DEF ReturnRow
  <2> HIDE DEF new
  <2>4. PICK c \in CallState :
          /\ call' = [call EXCEPT ![x] = c] /\ c.at \in {"idle", "refund"}
          /\ c.at = "refund" => c.key = r /\ row.status = "received"
    <3>1. CASE row.status = "received"
      <4> DEFINE c == [call[x] EXCEPT !.at = "refund", !.row = NoReturn]
      <4>1. c \in CallState /\ c.at = "refund" /\ c.key = r
        <5> HIDE DEF NoReturn
        <5> QED
          BY <1>1, EmptyRows DEF CallState, Steps, Confirmed
      <4>2. call' = [call EXCEPT ![x] = c]
        BY <1>3, <3>1 DEF UpdateReturn
      <4> HIDE DEF c
      <4> QED
        BY <3>1, <4>1, <4>2
    <3>2. CASE row.status # "received"
      <4>1. call' = [call EXCEPT ![x] = Idle]
        BY <1>3, <3>2 DEF UpdateReturn
      <4> QED
        BY <4>1, EmptyRows
    <3> QED
      BY <3>1, <3>2
  <2>5. ret'[r].received <=> ret[r].received \/ row.received
    BY <1>1, <2>2, <2>3
  <2>6. Knows(c)' /\ c.at \notin Refunding
    BY <1>1, <2>4, <2>5 DEF Knows, Confirmed, Refunding, Keys
  <2> HIDE DEF row
  <2> QED
    BY <1>1, <1>2, <1>3, <2>2, <2>3, <2>4, <2>6, ReturnIsWritten DEF Undecided
<1>4. CASE ~IndexAllows(r, row.status)
  BY <1>2, <1>4, FinishKeepsInv DEF UpdateReturn, money
<1> QED
  BY <1>3, <1>4

LEMMA ExpireKeepsInv ==
    ASSUME ReturnsInv, ExpireStaleReturns
    PROVE  ReturnsInv'
<1>1. PICK r \in Returns : /\ ret[r].status = "requested"
                          /\ ret' = [ret EXCEPT ![r].status = "expired"]
  BY DEF ExpireStaleReturns
<1>2. /\ order' = order /\ ledger' = ledger /\ refunds' = refunds /\ events' = events
      /\ call' = call /\ ret \in [Returns -> ReturnRow]
  BY DEF ExpireStaleReturns, money, ReturnsInv, Types
<1> DEFINE row == [ret[r] EXCEPT !.status = "expired"]
<1>3. /\ row \in ReturnRow /\ row.status = "expired"
      /\ row.decided = ret[r].decided /\ row.received = ret[r].received
      /\ ret' = [ret EXCEPT ![r] = row]
  BY <1>1, <1>2 DEF ReturnRow, ReturnStatus, Undecided
<1> HIDE DEF row
<1>4. /\ ret' \in [Returns -> ReturnRow] /\ ret'[r] = row
      /\ \A q \in Returns \ {r} : ret'[q] = ret[q]
  BY <1>2, <1>3
<1>5. Types'
  BY <1>2, <1>4 DEF ReturnsInv, Types
<1>6. ASSUME NEW q \in Returns PROVE Row(q)'
  <2>1. Row(q) /\ Row(r)
    BY DEF ReturnsInv
  <2>2. CASE q = r
    BY <1>1, <1>2, <1>3, <1>4, <2>1, <2>2 DEF Row, DecisionCheck, Undecided
  <2>3. CASE q # r
    BY <1>2, <1>4, <2>1, <2>3 DEF Row, DecisionCheck
  <2> QED
    BY <2>2, <2>3
<1>7. \A k \in Keys : Key(k)'
  BY <1>2 DEF ReturnsInv, Key
<1>8. ASSUME NEW x \in Calls PROVE Knows(call[x])'
  <2>1. \A q \in Returns : ret'[q].received = ret[q].received
    BY <1>3, <1>4
  <2> QED
    BY <1>2, <2>1 DEF ReturnsInv, Knows
<1>9. OneOpen'
  BY <1>3, <1>4 DEF ReturnsInv, OneOpen, Open
<1>10. OneRefunds'
  BY <1>2 DEF ReturnsInv, OneRefunds
<1> QED
  BY <1>5, <1>6, <1>7, <1>8, <1>9, <1>10 DEF ReturnsInv

-----------------------------------------------------------------------------
(* The steps of a refund.                                                  *)

LEMMA OperatorRefundsKeepsInv ==
    ASSUME ReturnsInv, NEW x \in Calls, NEW k \in Operators, NEW base \in 1 .. ItemAmount,
           OperatorRefunds(x, k, base)
    PROVE  ReturnsInv'
<1> DEFINE c == [Idle EXCEPT !.at = "refund", !.key = k, !.amount = base]
<1>1. call' = [call EXCEPT ![x] = c] /\ UNCHANGED <<ret, order, ledger, refunds, events>>
  BY DEF OperatorRefunds, money
<1>2. c \in CallState /\ c.at = "refund" /\ c.key = k
  <2>1. Idle \in CallState /\ base \in 0 .. ItemAmount /\ k \in Keys
    BY EmptyRows, Amounts DEF Keys
  <2> HIDE DEF Idle
  <2> QED
    BY <2>1 DEF CallState, Steps, Confirmed
<1> HIDE DEF c
<1>3. k \in Keys /\ k \notin Returns
  BY ReturnsAssumption DEF Keys
<1>4. Knows(c)
  BY <1>2, <1>3 DEF Knows, Refunding
<1> QED
  BY <1>1, <1>2, <1>4, RequestMoves DEF Refunding

LEMMA ReadOrderKeepsInv ==
    ASSUME ReturnsInv, NEW x \in Calls, ReadOrder(x) \/ Quote(x)
    PROVE  ReturnsInv'
<1>1. /\ call[x] \in CallState /\ Knows(call[x]) /\ order.refundedBase \in 0 .. ItemAmount
      /\ call[x].at \in {"refund", "quote"}
      /\ UNCHANGED <<ret, money>> /\ UNCHANGED <<ret, order, ledger, refunds, events>>
  BY DEF ReturnsInv, Types, OrderRow, ReadOrder, Quote, At, money
<1>2. CASE ReadOrder(x) /\ ~Finish(x)
  <2> DEFINE amount == Asked(x)
  <2> DEFINE c == [call[x] EXCEPT !.at = "quote", !.amount = amount,
                                  !.read = order.refundedBase]
  <2>1. /\ call[x].at = "refund" /\ amount \in 1 .. ItemAmount - order.refundedBase
        /\ call' = [call EXCEPT ![x].at = "quote", ![x].amount = amount,
                                ![x].read = order.refundedBase]
    BY <1>2 DEF ReadOrder, At
  <2> HIDE DEF amount
  <2>2. amount \in 0 .. ItemAmount
    BY <1>1, <2>1, Amounts
  <2>3. call' = [call EXCEPT ![x] = c]
    BY <2>1 DEF ReturnsInv, Types
  <2>4. /\ c \in CallState /\ c.at = "quote" /\ c.key = call[x].key
        /\ c.amount = amount /\ c.read = order.refundedBase
    BY <1>1, <2>2 DEF CallState, Steps, Confirmed
  <2> HIDE DEF c
  <2>5. Knows(c)
    BY <1>1, <2>1, <2>4 DEF Knows, Confirmed, Refunding
  <2> QED
    BY <1>1, <2>3, <2>4, <2>5, RequestMoves DEF Refunding
<1>3. CASE Quote(x) /\ ~Finish(x)
  <2> DEFINE credit == IF IsFull(x) THEN TotalCharged - Credited ELSE call[x].amount
  <2>1. /\ call[x].at = "quote"
        /\ call' = [call EXCEPT ![x] = IF credit \in 1 .. TotalCharged
                                       THEN [@ EXCEPT !.at = "claim", !.credit = credit]
                                       ELSE Idle]
    BY <1>3 DEF Quote, At
  <2> HIDE DEF credit
  <2> DEFINE c == [call[x] EXCEPT !.at = "claim", !.credit = credit]
  <2>2. credit \in 1 .. TotalCharged /\ call' = [call EXCEPT ![x] = c]
    BY <1>3, <2>1 DEF Finish, ReturnsInv, Types
  <2>3. credit \in 0 .. TotalCharged
    BY <2>2, Amounts
  <2>4. /\ c \in CallState /\ c.at = "claim" /\ c.key = call[x].key
        /\ c.amount = call[x].amount /\ c.read = call[x].read
    BY <1>1, <2>3 DEF CallState, Steps, Confirmed
  <2> HIDE DEF c
  <2>5. Knows(c)
    BY <1>1, <2>1, <2>4 DEF Knows, Confirmed, Refunding
  <2> QED
    BY <1>1, <2>2, <2>4, <2>5, RequestMoves DEF Refunding
<1>4. CASE Finish(x)
  BY <1>1, <1>4, FinishKeepsInv
<1> QED
  BY <1>2, <1>3, <1>4

\* The state of the request after refundOrder, where the money has settled.
LEMMA RefundedMoves ==
    ASSUME ReturnsInv, NEW x \in Calls, NEW outcome \in Outcomes, Refunded(x, outcome),
           call[x].key \in Keys, call[x].key \in Returns => ret[call[x].key].received,
           outcome = "succeeded" => refunds[call[x].key] = "succeeded"
    PROVE  \E c \in CallState :
             /\ call' = [call EXCEPT ![x] = c] /\ c.at \in {"idle", "settle"} /\ Knows(c)
             /\ c.at = "settle" => c.key = call[x].key /\ c.outcome = outcome
                                   /\ c.key \in Returns /\ ret[c.key].received
<1>1. CASE call[x].key \in Operators
  <2>1. call' = [call EXCEPT ![x] = Idle]
    BY <1>1 DEF Refunded
  <2>2. Knows(Idle)
    BY EmptyRows DEF Knows, Confirmed, Refunding
  <2> HIDE DEF Idle
  <2> QED
    BY <2>1, <2>2, EmptyRows
<1>2. CASE call[x].key \notin Operators
  <2> DEFINE c == [Idle EXCEPT !.at = "settle", !.key = call[x].key, !.outcome = outcome]
  <2>1. call' = [call EXCEPT ![x] = c]
    BY <1>2 DEF Refunded
  <2>2. c \in CallState /\ c.at = "settle" /\ c.key = call[x].key /\ c.outcome = outcome
    <3>1. Idle \in CallState
      BY EmptyRows
    <3> HIDE DEF Idle
    <3> QED
      BY <3>1 DEF CallState, Steps, Confirmed
  <2> HIDE DEF c
  <2>3. Knows(c) /\ c.key \in Returns
    BY <1>2, <2>2 DEF Knows, Refunding, Keys
  <2> QED
    BY <2>1, <2>2, <2>3
<1> QED
  BY <1>1, <1>2

LEMMA ClaimKeepsInv ==
    ASSUME ReturnsInv, NEW x \in Calls, Claim(x)
    PROVE  ReturnsInv'
<1> DEFINE k == call[x].key
<1>1. /\ call[x] \in CallState /\ Knows(call[x]) /\ call[x].at = "claim" /\ k \in Keys
      /\ call[x].credit \in 0 .. TotalCharged
      /\ k \in Returns => ret[k].received
      /\ ret' = ret /\ order' = order /\ refunds' = refunds /\ events' = events
      /\ ledger \in [Keys -> RefundRow] /\ ledger[k] \in RefundRow /\ Key(k)
  BY DEF ReturnsInv, Types, Claim, At, Knows, CallState, Confirmed
<1>2. CASE ledger[k] # NoRefund
  <2>1. Refunded(x, ledger[k].status) /\ ledger' = ledger
    BY <1>2 DEF Claim
  <2>2. ledger[k].status \in Outcomes
        /\ (ledger[k].status = "succeeded" => refunds[k] = "succeeded")
    BY <1>1 DEF RefundRow, Key, Outcomes
  <2>3. PICK c \in CallState : call' = [call EXCEPT ![x] = c] /\ c.at \in {"idle", "settle"}
                               /\ Knows(c)
    BY <1>1, <2>1, <2>2, RefundedMoves
  <2> QED
    BY <1>1, <2>1, <2>3, RequestMoves DEF Refunding
<1>3. CASE ledger[k] = NoRefund
  <2> DEFINE row == [status |-> "pending", credited |-> call[x].credit]
  <2>1. ledger' = [ledger EXCEPT ![k] = row] /\ Goto(x, "provider")
    BY <1>3 DEF Claim
  <2>2. row \in RefundRow /\ row.status = "pending"
    BY <1>1 DEF RefundRow, Outcomes
  <2> HIDE DEF row
  <2>3. /\ ledger' \in [Keys -> RefundRow] /\ ledger'[k].status = "pending"
        /\ \A q \in Keys \ {k} : ledger'[q] = ledger[q]
    BY <1>1, <2>1, <2>2
  <2> DEFINE c == [call[x] EXCEPT !.at = "provider"]
  <2>4. call' = [call EXCEPT ![x] = c]
    BY <2>1 DEF Goto, ReturnsInv, Types
  <2>5. /\ c \in CallState /\ c.at = "provider" /\ c.key = k
        /\ c.amount = call[x].amount /\ c.read = call[x].read
    BY <1>1 DEF CallState, Steps, Confirmed, Refunding
  <2> HIDE DEF c
  <2>6. /\ call' \in [Calls -> CallState] /\ call'[x] = c
        /\ \A y \in Calls \ {x} : call'[y] = call[y]
    BY <2>4, <2>5 DEF ReturnsInv, Types
  <2>7. ledger[k].status = "none" /\ refunds[k] = "none"
    BY <1>1, <1>3, EmptyRows DEF Key, ReturnsInv, Types, Outcomes
  <2>8. Types'
    BY <1>1, <2>3, <2>6 DEF ReturnsInv, Types
  <2>9. \A r \in Returns : Row(r)'
    BY <1>1, <2>3 DEF ReturnsInv, Row, DecisionCheck, Keys
  <2>10. \A q \in Keys : Key(q)'
    BY <1>1, <2>3, <2>7 DEF ReturnsInv, Key
  <2>11. ASSUME NEW y \in Calls PROVE Knows(call[y])'
    <3>1. CASE y = x
      BY <1>1, <2>3, <2>5, <2>6, <2>7, <3>1 DEF Knows, Confirmed, Refunding
    <3>2. CASE y # x
      <4>1. call'[y] = call[y] /\ Knows(call[y])
        BY <2>6, <3>2 DEF ReturnsInv
      <4>2. \A q \in Keys : ledger[q].status # "none" => ledger'[q].status # "none"
        BY <2>3
      <4> QED
        BY <1>1, <4>1, <4>2 DEF Knows, Confirmed, Refunding
    <3> QED
      BY <3>1, <3>2
  <2>12. OneOpen'
    BY <1>1 DEF ReturnsInv, OneOpen
  <2>13. OneRefunds'
    <3>1. ASSUME NEW y \in Calls PROVE ~(call[y].key = k /\ call[y].at \in Refunding)
      BY <2>7 DEF ReturnsInv, Knows
    <3> QED
      BY <2>5, <2>6, <3>1 DEF ReturnsInv, OneRefunds
  <2> QED
    BY <2>8, <2>9, <2>10, <2>11, <2>12, <2>13 DEF ReturnsInv
<1> QED
  BY <1>2, <1>3

LEMMA CreateRefundKeepsInv ==
    ASSUME ReturnsInv, NEW x \in Calls, CreateRefund(x)
    PROVE  ReturnsInv'
<1> DEFINE k == call[x].key
<1>1. /\ call[x] \in CallState /\ Knows(call[x]) /\ call[x].at = "provider" /\ k \in Keys
      /\ ledger[k].status # "none" /\ refunds[k] = "none"
      /\ k \in Returns => ret[k].received
      /\ ret' = ret /\ order' = order /\ ledger' = ledger /\ events' = events
      /\ refunds \in [Keys -> Outcomes]
  BY DEF ReturnsInv, Types, CreateRefund, At, Knows, Confirmed, Refunding
<1>2. CASE Finish(x) /\ refunds' = refunds
  BY <1>1, <1>2, FinishKeepsInv DEF money
<1>3. ASSUME NEW s \in {"pending", "succeeded"},
             refunds' = [refunds EXCEPT ![k] = s],
             call' = [call EXCEPT ![x].at = "ledger", ![x].outcome = s]
      PROVE  ReturnsInv'
  <2> DEFINE c == [call[x] EXCEPT !.at = "ledger", !.outcome = s]
  <2>1. call' = [call EXCEPT ![x] = c]
    BY <1>3 DEF ReturnsInv, Types
  <2>2. /\ c \in CallState /\ c.at = "ledger" /\ c.key = k /\ c.outcome = s
        /\ c.amount = call[x].amount /\ c.read = call[x].read
    BY <1>1 DEF CallState, Steps, Confirmed, Refunding, Outcomes
  <2> HIDE DEF c
  <2>3. /\ call' \in [Calls -> CallState] /\ call'[x] = c
        /\ \A y \in Calls \ {x} : call'[y] = call[y]
    BY <2>1, <2>2 DEF ReturnsInv, Types
  <2>4. /\ refunds' \in [Keys -> Outcomes] /\ refunds'[k] = s
        /\ \A q \in Keys \ {k} : refunds'[q] = refunds[q]
    BY <1>1, <1>3 DEF Outcomes
  <2>5. Types'
    BY <1>1, <2>3, <2>4 DEF ReturnsInv, Types
  <2>6. \A r \in Returns : Row(r)'
    BY <1>1, <2>4 DEF ReturnsInv, Row, DecisionCheck, Keys
  <2>7. \A q \in Keys : Key(q)'
    BY <1>1, <2>4 DEF ReturnsInv, Key
  <2>8. ASSUME NEW y \in Calls PROVE Knows(call[y])'
    <3>1. CASE y = x
      BY <1>1, <2>2, <2>3, <2>4, <3>1 DEF Knows, Confirmed, Refunding
    <3>2. CASE y # x
      <4>1. call'[y] = call[y] /\ Knows(call[y])
        BY <2>3, <3>2 DEF ReturnsInv
      <4>2. call[y].at = "provider" => call[y].key # k
        BY <1>1, <3>2 DEF ReturnsInv, OneRefunds, Refunding
      <4>3. \A q \in Keys : refunds[q] = "succeeded" => refunds'[q] = "succeeded"
        BY <1>1, <2>4
      <4>4. call[y].at \in Confirmed => call[y].key \in Keys
        BY <4>1 DEF Knows
      <4> QED
        BY <1>1, <2>4, <4>1, <4>2, <4>3, <4>4 DEF Knows, Confirmed, Refunding
    <3> QED
      BY <3>1, <3>2
  <2>9. OneOpen'
    BY <1>1 DEF ReturnsInv, OneOpen
  <2>10. OneRefunds'
    BY <1>1, <2>2, <2>3 DEF ReturnsInv, OneRefunds, Refunding
  <2> QED
    BY <2>5, <2>6, <2>7, <2>8, <2>9, <2>10 DEF ReturnsInv
<1> QED
  BY <1>2, <1>3 DEF CreateRefund

\* The ledger follows the provider; the request goes on with its key.
LEMMA UpdateRefundKeepsInv ==
    ASSUME ReturnsInv, NEW x \in Calls, UpdateRefund(x)
    PROVE  ReturnsInv'
<1> DEFINE k == call[x].key
<1> DEFINE s == call[x].outcome
<1>1. /\ call[x] \in CallState /\ Knows(call[x]) /\ call[x].at = "ledger" /\ k \in Keys
      /\ ledger[k].status # "none" /\ s \in {"pending", "succeeded"}
      /\ s = "succeeded" => refunds[k] = "succeeded"
      /\ k \in Returns => ret[k].received
      /\ ret' = ret /\ order' = order /\ refunds' = refunds /\ events' = events
      /\ ledger \in [Keys -> RefundRow] /\ ledger[k] \in RefundRow
      /\ ledger' = [ledger EXCEPT ![k].status = s] /\ Goto(x, "record")
  BY DEF ReturnsInv, Types, UpdateRefund, At, Knows, Confirmed, Refunding
<1> DEFINE row == [ledger[k] EXCEPT !.status = s]
<1>2. row \in RefundRow /\ row.status = s /\ ledger' = [ledger EXCEPT ![k] = row]
  BY <1>1 DEF RefundRow, Outcomes
<1> HIDE DEF row
<1>3. /\ ledger' \in [Keys -> RefundRow] /\ ledger'[k].status = s
      /\ \A q \in Keys \ {k} : ledger'[q] = ledger[q]
  BY <1>1, <1>2
<1> DEFINE c == [call[x] EXCEPT !.at = "record"]
<1>4. call' = [call EXCEPT ![x] = c]
  BY <1>1 DEF Goto, ReturnsInv, Types
<1>5. /\ c \in CallState /\ c.at = "record" /\ c.key = k /\ c.outcome = s
      /\ c.amount = call[x].amount /\ c.read = call[x].read
  BY <1>1 DEF CallState, Steps, Confirmed, Refunding
<1> HIDE DEF c
<1>6. /\ call' \in [Calls -> CallState] /\ call'[x] = c
      /\ \A y \in Calls \ {x} : call'[y] = call[y]
  BY <1>4, <1>5 DEF ReturnsInv, Types
<1>7. Types'
  BY <1>1, <1>3, <1>6 DEF ReturnsInv, Types
<1>8. \A r \in Returns : Row(r)'
  BY <1>1, <1>3 DEF ReturnsInv, Row, DecisionCheck, Keys
<1>9. \A q \in Keys : Key(q)'
  BY <1>1, <1>3 DEF ReturnsInv, Key
<1>10. ASSUME NEW y \in Calls PROVE Knows(call[y])'
  <2>1. CASE y = x
    BY <1>1, <1>3, <1>5, <1>6, <2>1 DEF Knows, Confirmed, Refunding
  <2>2. CASE y # x
    <3>1. call'[y] = call[y] /\ Knows(call[y])
      BY <1>6, <2>2 DEF ReturnsInv
    <3>2. \A q \in Keys : ledger[q].status # "none" => ledger'[q].status # "none"
      BY <1>1, <1>3
    <3> QED
      BY <1>1, <3>1, <3>2 DEF Knows, Confirmed, Refunding
  <2> QED
    BY <2>1, <2>2
<1>11. OneOpen'
  BY <1>1 DEF ReturnsInv, OneOpen
<1>12. OneRefunds'
  BY <1>1, <1>5, <1>6 DEF ReturnsInv, OneRefunds, Refunding
<1> QED
  BY <1>7, <1>8, <1>9, <1>10, <1>11, <1>12 DEF ReturnsInv

\* The order changes and at most one request moves on, out of the refund.
LEMMA OrderIsWritten ==
    ASSUME ReturnsInv, NEW x \in Calls, NEW c \in CallState, Knows(c), c.at \notin Refunding,
           call' \in {call, [call EXCEPT ![x] = c]},
           order' \in OrderRow,
           events' \subseteq Keys, ret' = ret, ledger' = ledger, refunds' = refunds
    PROVE  ReturnsInv'
<1>1. /\ call' \in [Calls -> CallState] /\ call'[x] \in {c, call[x]}
      /\ \A y \in Calls \ {x} : call'[y] = call[y]
  BY DEF ReturnsInv, Types
<1>2. Types'
  BY <1>1 DEF ReturnsInv, Types
<1>3. (\A r \in Returns : Row(r)') /\ (\A k \in Keys : Key(k)') /\ OneOpen'
  BY DEF ReturnsInv, Row, DecisionCheck, Key, OneOpen
<1>4. ASSUME NEW y \in Calls PROVE Knows(call[y])'
  <2>1. Knows(call'[y])
    BY <1>1 DEF ReturnsInv
  <2> QED
    BY <2>1 DEF Knows
<1>5. OneRefunds'
  BY <1>1 DEF ReturnsInv, OneRefunds
<1> QED
  BY <1>2, <1>3, <1>4, <1>5 DEF ReturnsInv

LEMMA RecordRefundKeepsInv ==
    ASSUME ReturnsInv, NEW x \in Calls, RecordRefund(x) \/ FinalizeRefund(x)
    PROVE  ReturnsInv'
<1>1. /\ call[x] \in CallState /\ Knows(call[x]) /\ call[x].at \in {"record", "finalize"}
      /\ call[x].key \in Keys /\ call[x].outcome \in Outcomes
      /\ call[x].outcome = "succeeded" => refunds[call[x].key] = "succeeded"
      /\ call[x].key \in Returns => ret[call[x].key].received
      /\ call[x].read \in 0 .. ItemAmount
      /\ call[x].at = "record" => call[x].amount \in 1 .. ItemAmount - call[x].read
      /\ ret' = ret /\ ledger' = ledger /\ refunds' = refunds
      /\ events' = events /\ events \subseteq Keys /\ order \in OrderRow
  BY DEF ReturnsInv, Types, RecordRefund, FinalizeRefund, At, Knows, Confirmed, Refunding,
         CallState
<1>2. order' \in OrderRow
  <2>1. CASE RecordRefund(x)
    <3>1. call[x].read + call[x].amount \in 0 .. ItemAmount
      BY <1>1, <2>1, Amounts DEF RecordRefund, At
    <3> QED
      BY <1>1, <2>1, <3>1 DEF RecordRefund, OrderRow
  <2>2. CASE FinalizeRefund(x)
    BY <1>1, <2>2 DEF FinalizeRefund, OrderRow
  <2> QED
    BY <2>1, <2>2
<1>3. CASE Refunded(x, call[x].outcome)
  <2>1. PICK c \in CallState : call' = [call EXCEPT ![x] = c] /\ c.at \in {"idle", "settle"}
                               /\ Knows(c)
    BY <1>1, <1>3, RefundedMoves
  <2> QED
    BY <1>1, <1>2, <2>1, OrderIsWritten DEF Refunding
<1>4. CASE ~Refunded(x, call[x].outcome)
  <2> DEFINE c == [call[x] EXCEPT !.at = "finalize"]
  <2>1. call[x].at = "record" /\ call[x].outcome = "succeeded" /\ call' = [call EXCEPT ![x] = c]
    BY <1>4 DEF RecordRefund, FinalizeRefund, At, Goto, ReturnsInv, Types
  <2>2. /\ c \in CallState /\ c.at = "finalize" /\ c.key = call[x].key
        /\ c.outcome = call[x].outcome
    BY <1>1 DEF CallState, Steps, Confirmed
  <2> HIDE DEF c
  <2>3. Knows(c)
    BY <1>1, <2>1, <2>2 DEF Knows, Refunding
  <2> QED
    BY <1>1, <1>2, <2>1, <2>2, <2>3, OrderIsWritten DEF Refunding
<1> QED
  BY <1>3, <1>4

LEMMA SettleKeepsInv ==
    ASSUME ReturnsInv, NEW x \in Calls, Settle(x)
    PROVE  ReturnsInv'
<1> DEFINE r == call[x].key
<1> DEFINE s == IF call[x].outcome = "succeeded" THEN "refunded" ELSE "received"
<1>1. /\ call[x] \in CallState /\ Knows(call[x]) /\ call[x].at = "settle" /\ r \in Returns
      /\ ret[r].received /\ ret[r].decided /\ ret \in [Returns -> ReturnRow]
      /\ call[x].outcome = "succeeded" => refunds[r] = "succeeded"
      /\ order' = order /\ ledger' = ledger /\ refunds' = refunds /\ events' = events
      /\ Finish(x)
      /\ ret' = IF IndexAllows(r, s) THEN [ret EXCEPT ![r].status = s] ELSE ret
  BY DEF ReturnsInv, Types, Settle, At, Knows, Row, Confirmed, money
<1>2. CASE IndexAllows(r, s)
  <2> DEFINE row == [ret[r] EXCEPT !.status = s]
  <2>1. ret' = [ret EXCEPT ![r] = row]
    BY <1>1, <1>2
  <2>2. row \in ReturnRow /\ row.status = s /\ row.received /\ row.decided
    BY <1>1 DEF ReturnRow, ReturnStatus, Open
  <2> HIDE DEF row
  <2>3. s \in {"refunded", "received"} /\ (s = "refunded" => refunds[r] = "succeeded")
    BY <1>1
  <2> HIDE DEF s
  <2>4. Knows(Idle)' /\ call' = [call EXCEPT ![x] = Idle] /\ Idle \in CallState
        /\ Idle.at \notin Refunding
    BY <1>1, EmptyRows DEF Finish, Knows, Confirmed, Refunding
  <2> HIDE DEF Idle
  <2> QED
    BY <1>1, <1>2, <2>1, <2>2, <2>3, <2>4, ReturnIsWritten DEF Undecided
<1>3. CASE ~IndexAllows(r, s)
  BY <1>1, <1>3, FinishKeepsInv DEF money
<1> QED
  BY <1>2, <1>3

-----------------------------------------------------------------------------
(* The webhook, the provider and the rest of the order.                    *)

LEMMA RefundEventKeepsInv ==
    ASSUME ReturnsInv, NEW x \in Calls,
           WriteRefundEvent(x) \/ \E k \in Keys : TakeRefundEvent(x, k)
    PROVE  ReturnsInv'
<1>1. CASE WriteRefundEvent(x)
  <2>1. /\ order \in OrderRow /\ events \subseteq Keys
        /\ order' = [order EXCEPT !.status = IF refunds[call[x].key] = "succeeded"
                                             THEN "closed" ELSE "held"]
        /\ events' \subseteq events /\ call' = [call EXCEPT ![x] = Idle]
        /\ ret' = ret /\ ledger' = ledger /\ refunds' = refunds
    BY <1>1 DEF WriteRefundEvent, Finish, ReturnsInv, Types
  <2>2. order' \in OrderRow /\ events' \subseteq Keys
    BY <2>1 DEF OrderRow
  <2>3. Knows(Idle) /\ Idle \in CallState /\ Idle.at \notin Refunding
    BY EmptyRows DEF Knows, Confirmed, Refunding
  <2> HIDE DEF Idle
  <2> QED
    BY <2>1, <2>2, <2>3, OrderIsWritten
<1>2. ASSUME NEW k \in Keys, TakeRefundEvent(x, k) PROVE ReturnsInv'
  <2> DEFINE c == [Idle EXCEPT !.at = "event", !.key = k]
  <2>1. call' = [call EXCEPT ![x] = c] /\ UNCHANGED <<ret, order, ledger, refunds, events>>
    BY <1>2 DEF TakeRefundEvent, money
  <2>2. c \in CallState /\ c.at = "event"
    <3>1. Idle \in CallState
      BY EmptyRows
    <3> HIDE DEF Idle
    <3> QED
      BY <3>1 DEF CallState, Steps
  <2> HIDE DEF c
  <2>3. Knows(c)
    BY <2>2 DEF Knows, Confirmed, Refunding
  <2> QED
    BY <2>1, <2>2, <2>3, RequestMoves DEF Refunding
<1> QED
  BY <1>1, <1>2

LEMMA OrderMovesOnKeepsInv ==
    ASSUME ReturnsInv, OrderMovesOn
    PROVE  ReturnsInv'
<1>1. /\ order \in OrderRow
      /\ order' = [order EXCEPT !.status = IF @ = "held" THEN "underway" ELSE "held"]
      /\ ret' = ret /\ ledger' = ledger /\ refunds' = refunds /\ events' = events
      /\ call' = call
  BY DEF OrderMovesOn, ReturnsInv, Types
<1>2. order' \in OrderRow
  BY <1>1 DEF OrderRow
<1> QED
  BY <1>1, <1>2 DEF ReturnsInv, Types, Row, DecisionCheck, Key, Knows, OneOpen, OneRefunds

\* A refund that is decided was pending: no row of the ledger and no return says that
\* it succeeded.
LEMMA RefundSettlesKeepsInv ==
    ASSUME ReturnsInv, NEW k \in Keys, RefundSettles(k)
    PROVE  ReturnsInv'
<1>1. PICK s \in {"succeeded", "failed"} : refunds' = [refunds EXCEPT ![k] = s]
  BY DEF RefundSettles
<1>2. /\ refunds[k] = "pending" /\ refunds \in [Keys -> Outcomes]
      /\ ret' = ret /\ order' = order /\ ledger' = ledger /\ call' = call
      /\ events' = events \cup {k}
  BY DEF RefundSettles, ReturnsInv, Types
<1>3. /\ refunds' \in [Keys -> Outcomes] /\ refunds'[k] # "none"
      /\ \A q \in Keys : /\ refunds[q] = "succeeded" => refunds'[q] = "succeeded"
                         /\ refunds[q] = "none" <=> refunds'[q] = "none"
  BY <1>1, <1>2 DEF Outcomes
<1>4. Types'
  BY <1>2, <1>3 DEF ReturnsInv, Types
<1>5. \A r \in Returns : Row(r)'
  BY <1>2, <1>3 DEF ReturnsInv, Row, DecisionCheck, Keys
<1>6. \A q \in Keys : Key(q)'
  BY <1>2, <1>3 DEF ReturnsInv, Key
<1>7. ASSUME NEW y \in Calls PROVE Knows(call[y])'
  <2>1. call'[y] = call[y] /\ Knows(call[y])
    BY <1>2 DEF ReturnsInv
  <2>2. call[y].at \in Confirmed => call[y].key \in Keys
    BY <2>1 DEF Knows
  <2> QED
    BY <1>2, <1>3, <2>1, <2>2 DEF Knows, Confirmed, Refunding
<1>8. OneOpen' /\ OneRefunds'
  BY <1>2 DEF ReturnsInv, OneOpen, OneRefunds
<1> QED
  BY <1>4, <1>5, <1>6, <1>7, <1>8 DEF ReturnsInv

-----------------------------------------------------------------------------
(* The theorems.                                                           *)

LEMMA InitHolds == Init => ReturnsInv
<1> SUFFICES ASSUME Init PROVE ReturnsInv
  OBVIOUS
<1>1. /\ \A r \in Returns : ret[r] = NoReturn
      /\ \A k \in Keys : ledger[k] = NoRefund /\ refunds[k] = "none"
      /\ \A x \in Calls : call[x] = Idle
      /\ Returns \subseteq Keys
  BY DEF Init, Keys
<1>2. order \in OrderRow
  BY Amounts DEF Init, OrderRow
<1>3. Types
  BY <1>1, <1>2, EmptyRows DEF Init, Types, Outcomes
<1>4. \A r \in Returns : Row(r)
  BY <1>1, EmptyRows DEF Row, DecisionCheck
<1>5. \A k \in Keys : Key(k)
  BY <1>1, EmptyRows DEF Key
<1>6. \A x \in Calls : Knows(call[x])
  BY <1>1, EmptyRows DEF Knows, Confirmed, Refunding
<1>7. OneOpen /\ OneRefunds
  BY <1>1, EmptyRows DEF OneOpen, Open, OneRefunds, Refunding
<1> QED
  BY <1>3, <1>4, <1>5, <1>6, <1>7 DEF ReturnsInv

LEMMA NextKeepsInv ==
    ASSUME ReturnsInv, [Next]_vars
    PROVE  ReturnsInv'
<1>1. CASE UNCHANGED vars
  BY <1>1 DEF vars, ReturnsInv, Types, Row, DecisionCheck, Key, Knows, OneOpen, OneRefunds
<1>2. ASSUME NEW x \in Calls, NEW r \in Returns,
             \/ RequestReturn(x, r) \/ MarkReturnShipped(x, r)
             \/ ConfirmReturnReceived(x, r)
             \/ \E approve \in BOOLEAN : DecideReturn(x, r, approve)
      PROVE  ReturnsInv'
  BY <1>2, RequestReturnKeepsInv, AnswersKeepInv
<1>3. ASSUME NEW x \in Calls, NEW k \in Operators, NEW base \in 1 .. ItemAmount,
             OperatorRefunds(x, k, base)
      PROVE  ReturnsInv'
  BY <1>3, OperatorRefundsKeepsInv
<1>4. ASSUME NEW x \in Calls, Step(x) PROVE ReturnsInv'
  BY <1>4, InsertReturnKeepsInv, UpdateReturnKeepsInv, ReadOrderKeepsInv, ClaimKeepsInv,
     CreateRefundKeepsInv, UpdateRefundKeepsInv, RecordRefundKeepsInv, SettleKeepsInv,
     RefundEventKeepsInv DEF Step
<1>5. ASSUME NEW x \in Calls, Fail(x) PROVE ReturnsInv'
  BY <1>5, FinishKeepsInv DEF Fail
<1>6. CASE ExpireStaleReturns
  BY <1>6, ExpireKeepsInv
<1>7. CASE \E k \in Keys : RefundSettles(k)
  BY <1>7, RefundSettlesKeepsInv
<1>8. CASE OrderMovesOn
  BY <1>8, OrderMovesOnKeepsInv
<1>9. ASSUME NEW x \in Calls, NEW k \in Keys, TakeRefundEvent(x, k) PROVE ReturnsInv'
  BY <1>9, RefundEventKeepsInv
<1> QED
  BY <1>1, <1>2, <1>3, <1>4, <1>5, <1>6, <1>7, <1>8, <1>9 DEF Next

LEMMA InvHolds == Spec => []ReturnsInv
<1>1. ReturnsInv /\ [Next]_vars => ReturnsInv'
  BY NextKeepsInv
<1> QED
  BY <1>1, InitHolds, PTL DEF Spec

\* The tables keep their types, the decision of a return has a time exactly when its
\* status says so, whatever update lands on it, and one return at most is open.
THEOREM TypeCorrect == Spec => []TypeOK
<1>1. ReturnsInv => TypeOK
  BY OpenReturns DEF ReturnsInv, Types, TypeOK, Row, ReturnRow, RefundRow, OrderRow,
                     Outcomes
<1> QED
  BY <1>1, InvHolds, PTL

\* No refund is claimed with the key of a return before its item was received, and
\* a return is called refunded only after the provider's refund succeeded.
THEOREM RefundsFollowReceipts == Spec => []RefundFollowsReceipt
<1>1. ASSUME ReturnsInv, NEW r \in Returns
      PROVE  /\ ledger[r] # NoRefund => ret[r].received
             /\ ret[r].status = "refunded" => refunds[r] = "succeeded"
  BY <1>1 DEF ReturnsInv, Row, Key, Keys
<1>2. ReturnsInv => RefundFollowsReceipt
  BY <1>1 DEF RefundFollowsReceipt
<1> QED
  BY <1>2, InvHolds, PTL

\* The row of a key that was claimed keeps what it credits.
LEMMA ClaimsStay ==
    ASSUME ReturnsInv, [Next]_vars, NEW k \in Keys, ledger[k] # NoRefund
    PROVE  ledger'[k].credited = ledger[k].credited
<1>1. ledger \in [Keys -> RefundRow] /\ ledger[k] \in RefundRow
  BY DEF ReturnsInv, Types
<1>2. ASSUME NEW x \in Calls, Claim(x) PROVE ledger'[k] = ledger[k]
  BY <1>1, <1>2 DEF Claim
<1>3. ASSUME NEW x \in Calls, UpdateRefund(x) PROVE ledger'[k].credited = ledger[k].credited
  BY <1>1, <1>3 DEF UpdateRefund, RefundRow
<1>4. ASSUME NEW x \in Calls, Step(x), ~Claim(x), ~UpdateRefund(x) PROVE ledger' = ledger
  BY <1>4 DEF Step, InsertReturn, UpdateReturn, ReadOrder, Quote, CreateRefund,
              RecordRefund, FinalizeRefund, Settle, WriteRefundEvent, money
<1>5. CASE ledger' = ledger
  BY <1>5
<1>6. ASSUME ~ \E x \in Calls : Step(x) PROVE ledger' = ledger
  BY <1>6 DEF Next, vars, RequestReturn, MarkReturnShipped, ConfirmReturnReceived,
              DecideReturn, Write, OperatorRefunds, TakeRefundEvent, Fail,
              ExpireStaleReturns, RefundSettles, OrderMovesOn, money
<1> QED
  BY <1>2, <1>3, <1>4, <1>5, <1>6

\* However the confirmations of a return overlap or follow each other, what its key
\* was claimed for stays and the provider is asked for one refund with it.
THEOREM OneRefund == Spec => OneRefundPerReturn
<1>1. ASSUME ReturnsInv, [Next]_vars, NEW k \in Keys
      PROVE  /\ ledger[k] # NoRefund => ledger'[k].credited = ledger[k].credited
             /\ refunds[k] # "none" =>
                  \A x \in Calls : At(x, "provider") /\ call[x].key = k
                                    => call'[x].at # "ledger"
  <2>1. ledger[k] # NoRefund => ledger'[k].credited = ledger[k].credited
    BY <1>1, ClaimsStay
  <2>2. \A x \in Calls : At(x, "provider") /\ call[x].key = k => refunds[k] = "none"
    BY <1>1 DEF ReturnsInv, Knows, At
  <2> QED
    BY <2>1, <2>2
<1>2. ReturnsInv /\ [Next]_vars =>
        [\A k \in Keys :
          /\ ledger[k] # NoRefund => ledger'[k].credited = ledger[k].credited
          /\ refunds[k] # "none" =>
               \A x \in Calls : At(x, "provider") /\ call[x].key = k
                                 => call'[x].at # "ledger"]_vars
  BY <1>1
<1> QED
  BY <1>2, InvHolds, PTL DEF Spec, OneRefundPerReturn
=============================================================================
