--------------------- MODULE ProviderWebhookInbox_proofs ---------------------
(***************************************************************************)
(* For any numbers of events and workers and any durations: the rows keep  *)
(* their types, one worker at a time is inside the handler of an event, an *)
(* effect is repeated only after a failure, no event is dropped before     *)
(* one, and a settled receipt stays as it is.                              *)
(*                                                                         *)
(* The leases of receipts say nothing about who handles an event: workers  *)
(* outlive them.  It is the claim that does, and what the number of        *)
(* failures bounds is the claims that were abandoned.                      *)
(***************************************************************************)
EXTENDS ProviderWebhookInbox, FiniteSetTheorems, TLAPS

Steps == {"idle", "next", "dispatch", "apply", "applied", "succeeded", "failed"}
Inside == {"apply", "applied"}

WorkerType == [at: Steps, batch: SUBSET [e: Events, attempt: 0 .. MaxAttempts],
               e: Events \cup {None}, attempt: 0 .. MaxAttempts]

InboxTyped ==
    /\ inbox \in [Events -> Receipt \cup {None}]
    /\ \A e \in Events : Has(e) => (inbox[e].owner # None <=> inbox[e].status = "processing")

Types ==
    /\ InboxTyped
    /\ claim \in [Events -> Claim]
    /\ worker \in [Workers -> WorkerType]
    /\ applied \in [Events -> Nat]
    /\ failures \in 0 .. MaxFailures

\* A worker with an event in hand, and inside its handler a claim that fences the
\* others off.
InHand(w) ==
    /\ worker[w].at \notin {"idle", "next"} => worker[w].e \in Events
    /\ worker[w].at \in Inside =>
         claim[worker[w].e].state = "started" /\ claim[worker[w].e].fence > 0

OneInside ==
    \A v, w \in Workers :
        worker[v].e = worker[w].e /\ worker[v].at \in Inside /\ worker[w].at \in Inside
          => v = w

\* Each effect of an event beyond the first has a failure: that of an abandoned claim.
Counted(e) ==
    /\ claim[e].fence > 0 => claim[e].state = "started"
    /\ applied[e] <= 1 + failures
    /\ claim[e].state = "none" => applied[e] = 0
    /\ claim[e].state = "started" /\ (\A w \in Workers : worker[w].e = e => ~At(w, "applied"))
         => applied[e] <= failures

\* Before a failure every claim is being handled or had its effect.
NothingLost ==
    failures = 0 =>
        /\ \A e \in Events :
            /\ claim[e].state = "started" => Handling(e)
            /\ claim[e].state = "processed" => applied[e] > 0
            /\ Has(e) /\ inbox[e].status = "processed" => claim[e].state # "none"
        /\ \A w \in Workers :
            /\ ~At(w, "failed")
            /\ At(w, "succeeded") => claim[worker[w].e].state # "none"
            /\ At(w, "applied") => applied[worker[w].e] > 0

InboxInv ==
    /\ Types
    /\ \A w \in Workers : InHand(w)
    /\ OneInside
    /\ \A e \in Events : Counted(e)
    /\ NothingLost

-----------------------------------------------------------------------------
(* Numbers and records.                                                    *)

LEMMA PowersOfTwo ==
    ASSUME NEW k \in Nat
    PROVE  2 ^ k \in Nat
<1>1. IsFiniteSet(1 .. k) /\ Cardinality(1 .. k) = k
  BY FS_Interval
<1>2. IsFiniteSet(SUBSET (1 .. k)) /\ Cardinality(SUBSET (1 .. k)) = 2 ^ k
  BY <1>1, FS_SUBSET
<1> QED
  BY <1>2, FS_CardinalityType

LEMMA MinOfTwo ==
    ASSUME NEW a \in Int, NEW b \in Int
    PROVE  Min({a, b}) = IF a <= b THEN a ELSE b
  BY DEF Min

LEMMA MaxOfTwo ==
    ASSUME NEW a \in Int, NEW b \in Int
    PROVE  Max({a, b}) = IF a >= b THEN a ELSE b
  BY DEF Max

\* The delay of a retry is a time.
LEMMA RetryDelays ==
    ASSUME NEW n \in Nat
    PROVE  RetryAfter(n) \in Nat
<1> USE InboxAssumption
<1> DEFINE k == Min({n, ExponentCap})
<1>1. ExponentCap \in Nat /\ RetryBase \in Nat /\ RetryMaximum \in Nat
  OBVIOUS
<1>2. k \in Nat
  BY <1>1, MinOfTwo
<1>3. 2 ^ k \in Nat
  BY <1>2, PowersOfTwo
<1> HIDE DEF k
<1> DEFINE delay == RetryBase * 2 ^ k
<1>4. delay \in Nat
  BY <1>1, <1>3
<1> HIDE DEF delay
<1>5. Min({RetryMaximum, delay}) \in Nat
  BY <1>1, <1>4, MinOfTwo
<1> QED
  BY <1>5 DEF RetryAfter, delay, k

LEMMA NextAttempts ==
    ASSUME Types, NEW e \in Events, Has(e)
    PROVE  NextAttempt(e) \in 0 .. MaxAttempts
<1>1. inbox[e].attempts \in 0 .. MaxAttempts /\ MaxAttempts \in Nat
  BY InboxAssumption DEF Types, InboxTyped, Has, Receipt
<1> QED
  BY <1>1, MinOfTwo DEF NextAttempt

LEMMA GotoMoves ==
    ASSUME Types, NEW w \in Workers, NEW s \in Steps, Goto(w, s)
    PROVE  /\ worker' \in [Workers -> WorkerType]
           /\ worker'[w].at = s /\ worker'[w].e = worker[w].e
           /\ \A v \in Workers \ {w} : worker'[v] = worker[v]
<1> DEFINE r == [worker[w] EXCEPT !.at = s]
<1>1. worker \in [Workers -> WorkerType] /\ worker[w] \in WorkerType
  BY DEF Types
<1>2. r \in WorkerType /\ r.at = s /\ r.e = worker[w].e
  BY <1>1 DEF WorkerType
<1>3. worker' = [worker EXCEPT ![w] = r]
  BY <1>1 DEF Goto
<1> HIDE DEF r
<1> QED
  BY <1>1, <1>2, <1>3

LEMMA IdleMoves ==
    ASSUME Types, NEW w \in Workers, worker' = [worker EXCEPT ![w] = Idle]
    PROVE  /\ worker' \in [Workers -> WorkerType]
           /\ worker'[w].at = "idle"
           /\ \A v \in Workers \ {w} : worker'[v] = worker[v]
<1>1. Idle \in WorkerType /\ Idle.at = "idle"
  BY InboxAssumption DEF Idle, WorkerType, Steps
<1> QED
  BY <1>1 DEF Types

-----------------------------------------------------------------------------
(* Steps outside the handlers.                                             *)

\* A worker that stays outside the handlers, and rows that change, disturb nothing but
\* what a processed receipt says.
LEMMA OutsideKeepsInv ==
    ASSUME InboxInv, NEW w \in Workers, InboxTyped', UNCHANGED <<claim, applied, failures>>,
           worker' \in [Workers -> WorkerType],
           \A v \in Workers \ {w} : worker'[v] = worker[v],
           worker[w].at \notin Inside, worker'[w].at \notin Inside,
           worker'[w].at \notin {"idle", "next"} => worker'[w].e \in Events,
           failures = 0 =>
             /\ worker'[w].at # "failed"
             /\ worker'[w].at = "succeeded" => claim[worker'[w].e].state # "none"
             /\ \A e \in Events : Has(e)' /\ inbox'[e].status = "processed"
                  => claim[e].state # "none"
    PROVE  InboxInv'
<1>1. Types'
  BY DEF InboxInv, Types
<1>2. \A v \in Workers : InHand(v)'
  BY DEF InboxInv, InHand
<1>3. OneInside'
  BY DEF InboxInv, OneInside
<1>4. \A e \in Events : Counted(e)'
  BY DEF InboxInv, Counted, At, Inside
<1>5. \A e \in Events : Handling(e) => Handling(e)'
  BY DEF Handling, Inside
<1>6. NothingLost'
  BY <1>5 DEF InboxInv, NothingLost, At, Inside
<1> QED
  BY <1>1, <1>2, <1>3, <1>4, <1>6 DEF InboxInv

LEMMA RowsKeepInv ==
    ASSUME InboxInv, InboxTyped', UNCHANGED <<claim, worker, applied, failures>>,
           \A e \in Events : Has(e)' /\ inbox'[e].status = "processed"
             => Has(e) /\ inbox[e].status = "processed"
    PROVE  InboxInv'
<1>1. Types'
  BY DEF InboxInv, Types
<1>2. \A v \in Workers : InHand(v)'
  BY DEF InboxInv, InHand
<1>3. OneInside'
  BY DEF InboxInv, OneInside
<1>4. \A e \in Events : Counted(e)'
  BY DEF InboxInv, Counted, At
<1>5. NothingLost'
  BY DEF InboxInv, NothingLost, At, Handling
<1> QED
  BY <1>1, <1>2, <1>3, <1>4, <1>5 DEF InboxInv

LEMMA EnqueueKeepsInv ==
    ASSUME InboxInv, NEW e \in Events, Enqueue(e) \/ Purge(e)
    PROVE  InboxInv'
<1> USE InboxAssumption
<1>1. UNCHANGED <<claim, worker, applied, failures>> /\ InboxTyped
  BY DEF Enqueue, Purge, InboxInv, Types
<1>2. CASE Enqueue(e)
  <2> DEFINE r == [status |-> "received", attempts |-> 0, owner |-> None, left |-> 0]
  <2>1. inbox' = [inbox EXCEPT ![e] = r]
    BY <1>2 DEF Enqueue
  <2>2. r \in Receipt /\ r.status = "received" /\ r.owner = None
    BY DEF Receipt
  <2> HIDE DEF r
  <2>3. InboxTyped' /\ \A q \in Events : Has(q)' /\ inbox'[q].status = "processed"
                          => Has(q) /\ inbox[q].status = "processed"
    BY <1>1, <2>1, <2>2 DEF InboxTyped, Has
  <2> QED
    BY <1>1, <2>3, RowsKeepInv
<1>3. CASE Purge(e)
  <2>1. inbox' = [inbox EXCEPT ![e] = None]
    BY <1>3 DEF Purge
  <2>2. InboxTyped' /\ \A q \in Events : Has(q)' /\ inbox'[q].status = "processed"
                          => Has(q) /\ inbox[q].status = "processed"
    BY <1>1, <2>1 DEF InboxTyped, Has
  <2> QED
    BY <1>1, <2>2, RowsKeepInv
<1> QED
  BY <1>2, <1>3

LEMMA ClaimBatchKeepsInv ==
    ASSUME InboxInv, NEW w \in Workers, ClaimBatch(w)
    PROVE  InboxInv'
<1> USE InboxAssumption
<1>1. PICK batch \in SUBSET Claimable :
         /\ inbox' = [e \in Events |->
                        IF e \in batch
                        THEN [status |-> "processing", attempts |-> NextAttempt(e),
                              owner |-> w, left |-> Lease]
                        ELSE inbox[e]]
         /\ worker' = [worker EXCEPT ![w] = [Idle EXCEPT !.at = "next",
                !.batch = {[e |-> e, attempt |-> NextAttempt(e)] : e \in batch}]]
  BY DEF ClaimBatch
<1>2. At(w, "idle") /\ UNCHANGED <<claim, applied, failures>> /\ Types
  BY DEF ClaimBatch, InboxInv
<1>3. \A e \in batch : e \in Events /\ Has(e) /\ NextAttempt(e) \in 0 .. MaxAttempts
  BY <1>2, NextAttempts DEF Claimable
<1>4. \A e \in batch : [status |-> "processing", attempts |-> NextAttempt(e), owner |-> w,
                        left |-> Lease] \in Receipt
  BY <1>3 DEF Receipt
<1>5. InboxTyped'
  BY <1>1, <1>2, <1>4 DEF Types, InboxTyped, Has
<1> DEFINE r == [Idle EXCEPT !.at = "next",
                    !.batch = {[e |-> e, attempt |-> NextAttempt(e)] : e \in batch}]
<1> DEFINE rows == {[e |-> e, attempt |-> NextAttempt(e)] : e \in batch}
<1>10. rows \in SUBSET [e: Events, attempt: 0 .. MaxAttempts]
  BY <1>3
<1> HIDE DEF rows
<1>12. Idle \in WorkerType
  BY DEF Idle, WorkerType, Steps
<1> HIDE DEF Idle
<1>13. /\ [Idle EXCEPT !.at = "next", !.batch = rows] \in WorkerType
       /\ [Idle EXCEPT !.at = "next", !.batch = rows].at = "next"
  BY <1>10, <1>12 DEF WorkerType, Steps
<1>6. r \in WorkerType /\ r.at = "next"
  BY <1>13 DEF rows
<1> HIDE DEF r
<1>7. /\ worker' \in [Workers -> WorkerType] /\ worker'[w].at = "next"
      /\ \A v \in Workers \ {w} : worker'[v] = worker[v]
  BY <1>1, <1>2, <1>6 DEF Types, r
<1>8. \A e \in Events : Has(e)' /\ inbox'[e].status = "processed"
        => Has(e) /\ inbox[e].status = "processed"
  BY <1>1 DEF Has
<1>9. worker[w].at = "idle"
  BY <1>2 DEF At
<1> QED
  BY <1>2, <1>5, <1>7, <1>8, <1>9, OutsideKeepsInv DEF Inside, InboxInv, NothingLost

LEMMA NextReceiptKeepsInv ==
    ASSUME InboxInv, NEW w \in Workers, NextReceipt(w)
    PROVE  InboxInv'
<1>1. worker[w].at = "next" /\ UNCHANGED <<inbox, claim, applied, failures>> /\ Types
  BY DEF NextReceipt, At, InboxInv
<1>2. InboxTyped' /\ \A e \in Events : Has(e)' => Has(e)
  BY <1>1 DEF Types, InboxTyped, Has
<1>3. CASE worker[w].batch = {}
  <2>1. worker' = [worker EXCEPT ![w] = Idle]
    BY <1>3 DEF NextReceipt
  <2>2. /\ worker' \in [Workers -> WorkerType] /\ worker'[w].at = "idle"
        /\ \A v \in Workers \ {w} : worker'[v] = worker[v]
    BY <1>1, <2>1, IdleMoves
  <2>3. failures = 0 => \A q \in Events : Has(q)' /\ inbox'[q].status = "processed"
                           => claim[q].state # "none"
    BY <1>1 DEF InboxInv, NothingLost, Has
  <2> QED
    BY <1>1, <1>2, <2>2, <2>3, OutsideKeepsInv DEF Inside
<1>4. CASE worker[w].batch # {}
  <2>1. PICK receipt \in worker[w].batch :
          worker' = [worker EXCEPT ![w] =
                  [at |-> "dispatch", batch |-> @.batch \ {receipt},
                   e |-> receipt.e, attempt |-> receipt.attempt]]
    BY <1>4 DEF NextReceipt
  <2>2. worker[w] \in WorkerType
    BY <1>1 DEF Types
  <2>3. receipt \in [e: Events, attempt: 0 .. MaxAttempts]
    BY <2>2 DEF WorkerType
  <2> DEFINE r == [at |-> "dispatch", batch |-> worker[w].batch \ {receipt},
                   e |-> receipt.e, attempt |-> receipt.attempt]
  <2>4. r \in WorkerType /\ r.at = "dispatch" /\ r.e \in Events
    BY <2>2, <2>3 DEF WorkerType, Steps
  <2>5. worker' = [worker EXCEPT ![w] = r]
    BY <1>1, <2>1 DEF Types
  <2> HIDE DEF r
  <2>6. /\ worker' \in [Workers -> WorkerType] /\ worker'[w].at = "dispatch"
        /\ worker'[w].e \in Events
        /\ \A v \in Workers \ {w} : worker'[v] = worker[v]
    BY <1>1, <2>4, <2>5 DEF Types
  <2> QED
    BY <1>1, <1>2, <2>6, OutsideKeepsInv DEF Inside, InboxInv, NothingLost
<1> QED
  BY <1>3, <1>4

\* complete_provider_webhook with a receipt of its own type.
LEMMA CompleteKeepsInv ==
    ASSUME InboxInv, NEW w \in Workers, NEW receipt, Complete(w, receipt),
           worker[w].at \in {"succeeded", "failed"},
           Has(worker[w].e) => /\ receipt \in Receipt
                               /\ receipt.owner = None /\ receipt.status # "processing"
                               /\ receipt.status = "processed" => worker[w].at = "succeeded"
    PROVE  InboxInv'
<1> DEFINE e == worker[w].e
<1>1. e \in Events /\ Types /\ UNCHANGED <<claim, applied, failures>>
  BY DEF InboxInv, InHand, Complete
<1>2. CASE Has(e) /\ inbox[e].status = "processing" /\ inbox[e].owner = w
  <2>1. inbox' = [inbox EXCEPT ![e] = receipt] /\ Goto(w, "next")
    BY <1>2 DEF Complete
  <2>2. InboxTyped'
    BY <1>1, <1>2, <2>1 DEF Types, InboxTyped, Has
  <2>3. /\ worker' \in [Workers -> WorkerType] /\ worker'[w].at = "next"
        /\ \A v \in Workers \ {w} : worker'[v] = worker[v]
    BY <1>1, <2>1, GotoMoves DEF Steps
  <2>4. failures = 0 => \A q \in Events : Has(q)' /\ inbox'[q].status = "processed"
                           => claim[q].state # "none"
    BY <1>1, <1>2, <2>1 DEF InboxInv, NothingLost, Types, InboxTyped, Has, At
  <2> QED
    BY <1>1, <2>2, <2>3, <2>4, OutsideKeepsInv DEF Inside
<1>3. CASE ~(Has(e) /\ inbox[e].status = "processing" /\ inbox[e].owner = w)
  <2>1. worker' = [worker EXCEPT ![w] = Idle] /\ UNCHANGED inbox
    BY <1>3 DEF Complete
  <2>2. InboxTyped' /\ \A q \in Events : Has(q)' => Has(q)
    BY <1>1, <2>1 DEF Types, InboxTyped, Has
  <2>3. /\ worker' \in [Workers -> WorkerType] /\ worker'[w].at = "idle"
        /\ \A v \in Workers \ {w} : worker'[v] = worker[v]
    BY <1>1, <2>1, IdleMoves
  <2>4. failures = 0 => \A q \in Events : Has(q)' /\ inbox'[q].status = "processed"
                           => claim[q].state # "none"
    BY <2>1 DEF InboxInv, NothingLost, Has
  <2> QED
    BY <1>1, <2>2, <2>3, <2>4, OutsideKeepsInv DEF Inside
<1> QED
  BY <1>2, <1>3

LEMMA SettleKeepsInv ==
    ASSUME InboxInv, NEW w \in Workers, Succeed(w) \/ ReportError(w)
    PROVE  InboxInv'
<1> USE InboxAssumption
<1> DEFINE e == worker[w].e
<1>1. Types /\ worker[w] \in WorkerType /\ worker[w].attempt \in Nat
  BY DEF InboxInv, Types, WorkerType
<1>2. worker[w].at \in {"succeeded", "failed"} /\ e \in Events
  BY DEF Succeed, ReportError, At, InboxInv, InHand
<1>3. Has(e) => inbox[e] \in Receipt
  BY <1>1, <1>2 DEF Types, InboxTyped, Has
<1>4. ASSUME NEW status \in {"processed", "failed", "dead_letter"}, NEW left \in Nat, Has(e)
      PROVE  /\ Settled(e, status, left) \in Receipt
             /\ Settled(e, status, left).owner = None
             /\ Settled(e, status, left).status = status
  BY <1>3, <1>4 DEF Settled, Receipt
<1>5. CASE Succeed(w)
  BY <1>2, <1>4, <1>5, CompleteKeepsInv DEF Succeed, At
<1>6. CASE ReportError(w)
  <2>1. RetryAfter(worker[w].attempt) \in Nat /\ At(w, "failed")
    BY <1>1, <1>6, RetryDelays DEF ReportError
  <2>2. CASE inbox[e].attempts >= MaxAttempts
    BY <1>2, <1>4, <1>6, <2>1, <2>2, CompleteKeepsInv DEF ReportError
  <2>3. CASE ~(inbox[e].attempts >= MaxAttempts)
    BY <1>2, <1>4, <1>6, <2>1, <2>3, CompleteKeepsInv DEF ReportError
  <2> QED
    BY <2>2, <2>3
<1> QED
  BY <1>5, <1>6

-----------------------------------------------------------------------------
(* The handler of an event.                                                *)

LEMMA ClaimEventKeepsInv ==
    ASSUME InboxInv, NEW w \in Workers, ClaimEvent(w)
    PROVE  InboxInv'
<1> USE InboxAssumption
<1> DEFINE e == worker[w].e
<1>1. Types /\ worker[w].at = "dispatch" /\ e \in Events /\ claim[e] \in Claim
  BY DEF ClaimEvent, At, InboxInv, InHand, Types
<1>2. UNCHANGED <<inbox, applied, failures>>
  BY DEF ClaimEvent
<1>3. InboxTyped'
  BY <1>1, <1>2 DEF Types, InboxTyped, Has
<1>4. CASE Fenced(e)
  <2>1. Goto(w, "succeeded") /\ UNCHANGED claim
    BY <1>4 DEF ClaimEvent
  <2>2. /\ worker' \in [Workers -> WorkerType] /\ worker'[w].at = "succeeded"
        /\ worker'[w].e = e
        /\ \A v \in Workers \ {w} : worker'[v] = worker[v]
    BY <1>1, <2>1, GotoMoves DEF Steps
  <2>3. claim[e].state # "none"
    BY <1>1, <1>4 DEF Fenced, InboxInv, Counted, Claim
  <2>4. failures = 0 => \A q \in Events : Has(q)' /\ inbox'[q].status = "processed"
                           => claim[q].state # "none"
    BY <1>2 DEF InboxInv, NothingLost, Has
  <2> QED
    BY <1>1, <1>2, <1>3, <2>1, <2>2, <2>3, <2>4, OutsideKeepsInv DEF Inside
<1>5. CASE ~Fenced(e)
  <2> DEFINE c == [state |-> "started", fence |-> Fence]
  <2>1. Goto(w, "apply") /\ claim' = [claim EXCEPT ![e] = c]
    BY <1>5 DEF ClaimEvent
  <2>2. c \in Claim /\ c.state = "started" /\ c.fence > 0
    BY DEF Claim
  <2> HIDE DEF c
  <2>3. /\ worker' \in [Workers -> WorkerType] /\ worker'[w].at = "apply"
        /\ worker'[w].e = e
        /\ \A v \in Workers \ {w} : worker'[v] = worker[v]
    BY <1>1, <2>1, GotoMoves DEF Steps
  <2>4. /\ claim' \in [Events -> Claim] /\ claim'[e] = c
        /\ \A q \in Events \ {e} : claim'[q] = claim[q]
    BY <1>1, <2>1, <2>2 DEF Types
  <2>5. claim[e].fence = 0 /\ claim[e].state \in {"none", "started"}
    BY <1>1, <1>5 DEF Fenced, Claim
  <2>6. \A v \in Workers : ~(worker[v].e = e /\ worker[v].at \in Inside)
    BY <2>5 DEF InboxInv, InHand
  <2>7. applied[e] <= failures /\ applied[e] \in Nat /\ failures \in Nat
    BY <1>1, <2>5, <2>6 DEF InboxInv, Counted, At, Inside, Types
  <2>8. Types'
    BY <1>1, <1>2, <1>3, <2>3, <2>4 DEF Types
  <2>9. \A v \in Workers : InHand(v)'
    <3> TAKE v \in Workers
    <3>1. CASE v = w
      BY <1>1, <2>2, <2>3, <2>4, <3>1 DEF InHand
    <3>2. CASE v # w
      <4>1. worker'[v] = worker[v] /\ InHand(v)
        BY <2>3, <3>2 DEF InboxInv
      <4>2. worker[v].at \in Inside => worker[v].e \in Events \ {e}
        BY <2>6, <4>1 DEF InHand, Inside
      <4> QED
        BY <2>4, <4>1, <4>2 DEF InHand
    <3> QED
      BY <3>1, <3>2
  <2>10. OneInside'
    BY <2>3, <2>6 DEF InboxInv, OneInside
  <2>11. \A q \in Events : Counted(q)'
    <3> TAKE q \in Events
    <3>1. CASE q = e
      BY <1>2, <2>2, <2>4, <2>7, <3>1 DEF Counted
    <3>2. CASE q # e
      BY <1>2, <2>3, <2>4, <3>2 DEF InboxInv, Counted, At
    <3> QED
      BY <3>1, <3>2
  <2>12. NothingLost'
    <3>1. \A q \in Events : Handling(q) \/ q = e => Handling(q)'
      BY <1>1, <2>3 DEF Handling
    <3> QED
      BY <1>1, <1>2, <2>2, <2>3, <2>4, <3>1 DEF InboxInv, NothingLost, At, Has, InHand
  <2> QED
    BY <2>8, <2>9, <2>10, <2>11, <2>12 DEF InboxInv
<1> QED
  BY <1>4, <1>5

LEMMA ApplyKeepsInv ==
    ASSUME InboxInv, NEW w \in Workers, Apply(w)
    PROVE  InboxInv'
<1> USE InboxAssumption
<1> DEFINE e == worker[w].e
<1>1. Types /\ worker[w].at = "apply" /\ e \in Events
  BY DEF Apply, At, InboxInv, InHand
<1>2. UNCHANGED <<inbox, claim, failures>> /\ Goto(w, "applied")
  BY DEF Apply
<1>3. /\ worker' \in [Workers -> WorkerType] /\ worker'[w].at = "applied"
      /\ worker'[w].e = e
      /\ \A v \in Workers \ {w} : worker'[v] = worker[v]
  BY <1>1, <1>2, GotoMoves DEF Steps
<1>4. applied \in [Events -> Nat] /\ applied' = [applied EXCEPT ![e] = @ + 1]
  BY <1>1 DEF Apply, Types
<1>5. /\ applied' \in [Events -> Nat] /\ applied'[e] = applied[e] + 1
      /\ \A q \in Events \ {e} : applied'[q] = applied[q]
  BY <1>1, <1>4
<1>6. \A v \in Workers : worker[v].e = e /\ worker[v].at \in Inside => v = w
  BY <1>1 DEF InboxInv, OneInside, Inside
<1>7. claim[e].state = "started" /\ applied[e] <= failures /\ failures \in Nat
  BY <1>1, <1>6 DEF InboxInv, InHand, Counted, At, Inside, Types
<1>8. Types'
  BY <1>1, <1>2, <1>3, <1>5 DEF Types, InboxTyped, Has
<1>9. \A v \in Workers : InHand(v)'
  BY <1>1, <1>2, <1>3 DEF InboxInv, InHand, Inside
<1>10. OneInside'
  BY <1>1, <1>3 DEF InboxInv, OneInside, Inside
<1>11. \A q \in Events : Counted(q)'
  <2> TAKE q \in Events
  <2>1. CASE q = e
    BY <1>1, <1>2, <1>3, <1>4, <1>5, <1>7, <2>1 DEF InboxInv, Counted, At
  <2>2. CASE q # e
    BY <1>2, <1>3, <1>5, <2>2 DEF InboxInv, Counted, At
  <2> QED
    BY <2>1, <2>2
<1>12. NothingLost'
  <2>1. \A q \in Events : Handling(q) => Handling(q)'
    BY <1>1, <1>3 DEF Handling
  <2>2. \A q \in Events : applied[q] > 0 \/ q = e => applied'[q] > 0
    BY <1>4, <1>5
  <2> QED
    BY <1>1, <1>2, <1>3, <2>1, <2>2 DEF InboxInv, NothingLost, At, Has, InHand
<1> QED
  BY <1>8, <1>9, <1>10, <1>11, <1>12 DEF InboxInv

LEMMA CompleteEventKeepsInv ==
    ASSUME InboxInv, NEW w \in Workers, CompleteEvent(w)
    PROVE  InboxInv'
<1> USE InboxAssumption
<1> DEFINE e == worker[w].e
<1> DEFINE c == [state |-> "processed", fence |-> 0]
<1>1. Types /\ worker[w].at = "applied" /\ e \in Events
  BY DEF CompleteEvent, At, InboxInv, InHand
<1>2. UNCHANGED <<inbox, applied, failures>> /\ Goto(w, "succeeded")
  BY DEF CompleteEvent
<1>3. /\ worker' \in [Workers -> WorkerType] /\ worker'[w].at = "succeeded"
      /\ worker'[w].e = e
      /\ \A v \in Workers \ {w} : worker'[v] = worker[v]
  BY <1>1, <1>2, GotoMoves DEF Steps
<1>4. c \in Claim /\ c.state = "processed" /\ c.fence = 0
  BY DEF Claim
<1>5. claim' = [claim EXCEPT ![e] = c]
  BY DEF CompleteEvent
<1> HIDE DEF c
<1>6. /\ claim' \in [Events -> Claim] /\ claim'[e] = c
      /\ \A q \in Events \ {e} : claim'[q] = claim[q]
  BY <1>1, <1>4, <1>5 DEF Types
<1>7. \A v \in Workers : worker[v].e = e /\ worker[v].at \in Inside => v = w
  BY <1>1 DEF InboxInv, OneInside, Inside
<1>8. Types'
  BY <1>1, <1>2, <1>3, <1>6 DEF Types, InboxTyped, Has
<1>9. \A v \in Workers : InHand(v)'
  BY <1>1, <1>3, <1>6, <1>7 DEF InboxInv, InHand, Inside
<1>10. OneInside'
  BY <1>3 DEF InboxInv, OneInside, Inside
<1>11. \A q \in Events : Counted(q)'
  <2> TAKE q \in Events
  <2>1. CASE q = e
    BY <1>2, <1>4, <1>6, <2>1 DEF InboxInv, Counted
  <2>2. CASE q # e
    BY <1>2, <1>3, <1>6, <2>2 DEF InboxInv, Counted, At
  <2> QED
    BY <2>1, <2>2
<1>12. NothingLost'
  <2>1. \A q \in Events : Handling(q) /\ q # e => Handling(q)'
    BY <1>3 DEF Handling
  <2>2. failures = 0 => applied[e] > 0
    BY <1>1 DEF InboxInv, NothingLost, At
  <2> QED
    BY <1>1, <1>2, <1>3, <1>4, <1>6, <2>1, <2>2 DEF InboxInv, NothingLost, At, Has, InHand
<1> QED
  BY <1>8, <1>9, <1>10, <1>11, <1>12 DEF InboxInv

\* What was done by halves is counted as a failure, whatever step it fell in.
LEMMA FailureKeepsInv ==
    ASSUME InboxInv, NEW w \in Workers, UNCHANGED <<inbox, claim, applied>>,
           failures < MaxFailures, failures' = failures + 1,
           worker' \in [Workers -> WorkerType],
           \A v \in Workers \ {w} : worker'[v] = worker[v],
           worker'[w].at \notin Inside,
           worker'[w].at \notin {"idle", "next"} => worker'[w].e \in Events
    PROVE  InboxInv'
<1> USE InboxAssumption
<1>1. Types /\ failures \in Nat /\ failures' > 0 /\ failures' \in 0 .. MaxFailures
  BY DEF InboxInv, Types
<1>2. Types'
  BY <1>1 DEF Types, InboxTyped, Has
<1>3. \A v \in Workers : InHand(v)'
  BY DEF InboxInv, InHand
<1>4. OneInside'
  BY DEF InboxInv, OneInside
<1>5. \A q \in Events : Counted(q)'
  BY <1>1 DEF InboxInv, Counted, Types
<1>6. NothingLost'
  BY <1>1 DEF NothingLost
<1> QED
  BY <1>2, <1>3, <1>4, <1>5, <1>6 DEF InboxInv

LEMMA HandlerThrowsKeepsInv ==
    ASSUME InboxInv, NEW w \in Workers, HandlerThrows(w) \/ Crash(w)
    PROVE  InboxInv'
<1>1. Types /\ UNCHANGED <<inbox, claim, applied>> /\ failures < MaxFailures
      /\ failures' = failures + 1
  BY DEF HandlerThrows, Crash, InboxInv
<1>2. CASE HandlerThrows(w)
  <2>1. Goto(w, "failed") /\ worker[w].e \in Events
    BY <1>2 DEF HandlerThrows, InboxInv, InHand
  <2>2. /\ worker' \in [Workers -> WorkerType] /\ worker'[w].at = "failed"
        /\ worker'[w].e \in Events
        /\ \A v \in Workers \ {w} : worker'[v] = worker[v]
    BY <1>1, <2>1, GotoMoves DEF Steps
  <2> QED
    BY <1>1, <2>2, FailureKeepsInv DEF Inside
<1>3. CASE Crash(w)
  <2>1. worker' = [worker EXCEPT ![w] = Idle]
    BY <1>3 DEF Crash
  <2>2. /\ worker' \in [Workers -> WorkerType] /\ worker'[w].at = "idle"
        /\ \A v \in Workers \ {w} : worker'[v] = worker[v]
    BY <1>1, <2>1, IdleMoves
  <2> QED
    BY <1>1, <2>2, FailureKeepsInv DEF Inside
<1> QED
  BY <1>2, <1>3

\* Time takes the fence from no worker inside a handler.
LEMMA TickKeepsInv ==
    ASSUME InboxInv, Tick
    PROVE  InboxInv'
<1> USE InboxAssumption
<1>1. Types /\ UNCHANGED <<worker, applied, failures>>
  BY DEF Tick, InboxInv
<1>2. \A e \in Events : Has(e) => inbox[e] \in Receipt /\ inbox[e].left \in Nat
  BY <1>1 DEF Types, InboxTyped, Has, Receipt
<1>3. \A e \in Events :
        /\ Has(e) => inbox'[e] = [inbox[e] EXCEPT !.left = Max({0, @ - 1})]
        /\ ~Has(e) => inbox'[e] = None
  BY DEF Tick
<1>4. \A e \in Events : Has(e) =>
        /\ inbox'[e] \in Receipt
        /\ inbox'[e].status = inbox[e].status /\ inbox'[e].owner = inbox[e].owner
  <2> TAKE e \in Events
  <2> HAVE Has(e)
  <2> DEFINE left == Max({0, inbox[e].left - 1})
  <2>1. left \in Nat
    BY <1>2, MaxOfTwo
  <2>2. inbox'[e] = [inbox[e] EXCEPT !.left = left] /\ inbox[e] \in Receipt
    BY <1>2, <1>3
  <2> HIDE DEF left
  <2> QED
    BY <2>1, <2>2 DEF Receipt
<1>5. inbox' = [e \in Events |-> inbox'[e]]
  BY DEF Tick
<1>6. InboxTyped'
  BY <1>1, <1>3, <1>4, <1>5 DEF Types, InboxTyped, Has
<1>7. \A e \in Events :
        /\ claim'[e] \in Claim /\ claim'[e].state = claim[e].state
        /\ claim'[e].fence = IF claim[e].fence > 0 THEN claim[e].fence - 1 ELSE 0
  <2> TAKE e \in Events
  <2> DEFINE fence == Max({0, claim[e].fence - 1})
  <2>1. claim[e] \in Claim /\ claim[e].fence \in 0 .. Fence
    BY <1>1 DEF Types, Claim
  <2>2. fence = IF claim[e].fence > 0 THEN claim[e].fence - 1 ELSE 0
    BY <2>1, MaxOfTwo
  <2>3. fence \in 0 .. Fence
    BY <2>1, <2>2
  <2>4. claim'[e] = [claim[e] EXCEPT !.fence = fence]
    BY DEF Tick
  <2> HIDE DEF fence
  <2> QED
    BY <2>1, <2>2, <2>3, <2>4 DEF Claim
<1>8. claim' = [e \in Events |-> claim'[e]]
  BY DEF Tick
<1>9. Types'
  BY <1>1, <1>6, <1>7, <1>8 DEF Types
<1>10. \A w \in Workers : InHand(w)'
  <2> TAKE w \in Workers
  <2>1. CASE worker[w].at \in Inside
    <3> DEFINE e == worker[w].e
    <3>1. e \in Events /\ claim[e].state = "started" /\ claim[e].fence > 0
      BY <2>1 DEF InboxInv, InHand, Inside
    <3>2. claim[e].fence # 1 /\ claim[e].fence \in Nat
      BY <1>1, <2>1, <3>1 DEF Tick, InTime, Inside, Types, Claim
    <3> QED
      BY <1>1, <1>7, <3>1, <3>2 DEF InHand
  <2>2. CASE worker[w].at \notin Inside
    BY <1>1, <2>2 DEF InboxInv, InHand
  <2> QED
    BY <2>1, <2>2
<1>11. OneInside'
  BY <1>1 DEF InboxInv, OneInside
<1>12. \A e \in Events : Counted(e)'
  <2> TAKE e \in Events
  <2>1. claim'[e].fence > 0 => claim[e].fence > 0
    BY <1>1, <1>7 DEF Types, Claim
  <2> QED
    BY <1>1, <1>7, <2>1 DEF InboxInv, Counted, At
<1>13. NothingLost'
  <2>1. \A e \in Events : Has(e)' => Has(e)
    BY <1>3 DEF Has
  <2>2. \A e \in Events : Handling(e)' <=> Handling(e)
    BY <1>1 DEF Handling
  <2> QED
    BY <1>1, <1>4, <1>7, <2>1, <2>2 DEF InboxInv, NothingLost, At, InHand
<1> QED
  BY <1>9, <1>10, <1>11, <1>12, <1>13 DEF InboxInv

-----------------------------------------------------------------------------
(* The theorems.                                                           *)

LEMMA InitHolds == Init => InboxInv
<1> SUFFICES ASSUME Init PROVE InboxInv
  OBVIOUS
<1> USE InboxAssumption
<1>1. Idle \in WorkerType /\ Idle.at = "idle"
  BY DEF Idle, WorkerType, Steps
<1>2. [state |-> "none", fence |-> 0] \in Claim
  BY DEF Claim
<1>3. InboxTyped
  BY DEF Init, InboxTyped, Has
<1>4. Types
  BY <1>1, <1>2, <1>3 DEF Init, Types
<1>5. \A w \in Workers : worker[w].at = "idle"
  BY <1>1 DEF Init
<1>6. \A w \in Workers : InHand(w)
  BY <1>5 DEF InHand, Inside
<1>7. OneInside
  BY <1>5 DEF OneInside, Inside
<1>8. \A e \in Events : Counted(e)
  BY DEF Init, Counted
<1>9. NothingLost
  BY <1>5 DEF Init, NothingLost, At, Has
<1> QED
  BY <1>4, <1>6, <1>7, <1>8, <1>9 DEF InboxInv

LEMMA NextKeepsInv ==
    ASSUME InboxInv, [Next]_vars
    PROVE  InboxInv'
<1>1. CASE UNCHANGED vars
  BY <1>1 DEF vars, InboxInv, Types, InboxTyped, Has, InHand, OneInside, Counted,
              NothingLost, Handling, At
<1>2. ASSUME NEW e \in Events, Enqueue(e) \/ Purge(e)
      PROVE  InboxInv'
  BY <1>2, EnqueueKeepsInv
<1>3. ASSUME NEW w \in Workers, ClaimBatch(w) \/ NextReceipt(w)
      PROVE  InboxInv'
  BY <1>3, ClaimBatchKeepsInv, NextReceiptKeepsInv
<1>4. ASSUME NEW w \in Workers, ClaimEvent(w) \/ Apply(w) \/ CompleteEvent(w)
      PROVE  InboxInv'
  BY <1>4, ClaimEventKeepsInv, ApplyKeepsInv, CompleteEventKeepsInv
<1>5. ASSUME NEW w \in Workers, Succeed(w) \/ ReportError(w)
      PROVE  InboxInv'
  BY <1>5, SettleKeepsInv
<1>6. ASSUME NEW w \in Workers, HandlerThrows(w) \/ Crash(w)
      PROVE  InboxInv'
  BY <1>6, HandlerThrowsKeepsInv
<1>7. CASE Tick
  BY <1>7, TickKeepsInv
<1> QED
  BY <1>1, <1>2, <1>3, <1>4, <1>5, <1>6, <1>7 DEF Next, Step

LEMMA InvHolds == Spec => []InboxInv
<1>1. InboxInv /\ [Next]_vars => InboxInv'
  BY NextKeepsInv
<1> QED
  BY <1>1, InitHolds, PTL DEF Spec

\* Receipts, claims and workers keep their types, and exactly the receipts being
\* processed have an owner.
THEOREM TypeCorrect == Spec => []TypeOK
<1>1. InboxInv => TypeOK
  BY DEF InboxInv, Types, InboxTyped, TypeOK, WorkerType, Steps
<1> QED
  BY <1>1, InvHolds, PTL

\* The claim of an event lets one worker at a time into its handler, though two may
\* hold leases of its receipt in turn and the slower one never learns of it.
THEOREM OneHandler == Spec => []OneHandlerPerEvent
<1>1. InboxInv => OneHandlerPerEvent
  BY DEF InboxInv, OneInside, OneHandlerPerEvent, Inside
<1> QED
  BY <1>1, InvHolds, PTL

\* The handler of an event takes effect once, and once more at most for each failure,
\* however often the provider delivers the event and leases run out.
THEOREM EffectsAreCounted == Spec => []AppliedAgainOnlyAfterFailure
<1>1. InboxInv => AppliedAgainOnlyAfterFailure
  BY DEF InboxInv, Counted, AppliedAgainOnlyAfterFailure
<1> QED
  BY <1>1, InvHolds, PTL

\* Without failures, a receipt is marked processed only once its event took effect or
\* while another worker is still applying it.
THEOREM NothingIsDropped == Spec => []NoEventIsDropped
<1>1. ASSUME InboxInv, failures = 0, NEW e \in Events,
             Has(e), inbox[e].status = "processed", ~Handling(e)
      PROVE  applied[e] > 0
  <2>1. claim[e].state \in {"none", "started", "processed"}
    BY <1>1 DEF InboxInv, Types, Claim
  <2> QED
    BY <1>1, <2>1 DEF InboxInv, NothingLost
<1>2. InboxInv => NoEventIsDropped
  BY <1>1 DEF NoEventIsDropped
<1> QED
  BY <1>2, InvHolds, PTL

\* A receipt that is settled keeps its status until it is purged: claims pass it over,
\* and only the owner of a receipt being processed settles one.
THEOREM SettledStays == Spec => SettledReceiptIsFinal
<1> DEFINE Stays == \A e \in Events :
               Has(e) /\ inbox[e].status \in {"processed", "dead_letter"} =>
                   \/ ~Has(e)'
                   \/ inbox'[e].status = inbox[e].status
<1>1. InboxInv /\ [Next]_vars => [Stays]_vars
  <2> SUFFICES ASSUME InboxInv, Next PROVE Stays
    OBVIOUS
  <2>1. Types
    BY DEF InboxInv
  <2>2. ASSUME NEW w \in Workers, NEW receipt, Complete(w, receipt) PROVE Stays
    BY <2>1, <2>2 DEF Complete, Types, InboxTyped, Has
  <2>3. ASSUME NEW w \in Workers, Succeed(w) \/ ReportError(w) PROVE Stays
    BY <2>2, <2>3 DEF Succeed, ReportError
  <2>4. ASSUME NEW w \in Workers, ClaimBatch(w) PROVE Stays
    BY <2>1, <2>4 DEF ClaimBatch, Claimable, Has
  <2>5. ASSUME NEW q \in Events, Enqueue(q) \/ Purge(q) PROVE Stays
    BY <2>1, <2>5 DEF Enqueue, Purge, Types, InboxTyped, Has
  <2>6. ASSUME Tick, NEW e \in Events, Has(e) PROVE inbox'[e].status = inbox[e].status
    <3> DEFINE left == Max({0, inbox[e].left - 1})
    <3>1. inbox[e] \in Receipt /\ inbox'[e] = [inbox[e] EXCEPT !.left = left]
      BY <2>1, <2>6 DEF Tick, Types, InboxTyped, Has
    <3> HIDE DEF left
    <3> QED
      BY <3>1 DEF Receipt
  <2>7. ASSUME UNCHANGED inbox PROVE Stays
    BY <2>7 DEF Has
  <2>8. ASSUME NEW w \in Workers, NextReceipt(w) \/ ClaimEvent(w) \/ Apply(w)
                 \/ CompleteEvent(w) \/ HandlerThrows(w) \/ Crash(w)
        PROVE  UNCHANGED inbox
    BY <2>8 DEF NextReceipt, ClaimEvent, Apply, CompleteEvent, HandlerThrows, Crash
  <2> QED
    BY <2>3, <2>4, <2>5, <2>6, <2>7, <2>8 DEF Next, Step
<1> QED
  BY <1>1, InvHolds, PTL DEF Spec, SettledReceiptIsFinal
=============================================================================
