------------------------- MODULE NotificationOutbox -------------------------
(***************************************************************************)
(* The outbox of notifications by e-mail and push (migrations 00050, 00103 *)
(* and 00116) and the worker that drains it.                               *)
(*                                                                         *)
(* A run of the worker is started by the schedule, under a job lease, and  *)
(* by every domain wake-up, without one; runs of one process share one     *)
(* worker id.  What keeps them apart is the lease of each delivery.  Times *)
(* count down.                                                             *)
(***************************************************************************)
EXTENDS Integers, FiniteSets

CONSTANTS
    Deliveries,       \* one channel of one notification each
    Runs,             \* executions of NotificationsWorker.run there can be
    Workers,          \* worker ids, one per process
    WorkerOf,         \* the worker id of each run
    BatchSize,        \* deliveries a run claims
    Lease,            \* how long a claim leases them
    RetryDelay,       \* how long a delivery waits after a failure
    MaxAttempts,      \* max_attempts of a delivery
    AttemptsCheck,    \* the largest value the check on attempts admits
    MaxFailures,      \* bound on calls that fail, processes that die and
                      \* batches that outlive their leases
    None

ASSUME OutboxAssumption ==
    /\ WorkerOf \in [Runs -> Workers]
    /\ BatchSize \in Nat \ {0} /\ Lease \in Nat \ {0} /\ RetryDelay \in Nat \ {0}
    /\ MaxAttempts \in Nat \ {0} /\ AttemptsCheck \in Nat /\ MaxAttempts <= AttemptsCheck
    /\ MaxFailures \in Nat
    /\ None \notin Deliveries \cup Workers

VARIABLES
    status,    \* of the row of each delivery; "absent" before it is inserted
    attempts,  \* claims counted so far
    owner,     \* lease_owner
    lease,     \* what is left until lease_expires_at
    wait,      \* what is left until available_at
    outcome,   \* notification_delivery_attempts: what each attempt came to
    sent,      \* messages the provider accepted (at the provider)
    step,      \* where each run is
    batch,     \* what its loop has left, the current delivery included
    current,   \* the delivery in hand
    failures

rows == <<status, attempts, owner, lease, wait, outcome>>
runs == <<step, batch, current>>
vars == <<rows, sent, runs, failures>>

Outcomes == {"delivered", "retry", "dead_letter"}
Settled == {"delivered", "dead_letter", "deleted"}

Init ==
    /\ status = [d \in Deliveries |-> "absent"]
    /\ attempts = [d \in Deliveries |-> 0]
    /\ owner = [d \in Deliveries |-> None]
    /\ lease = [d \in Deliveries |-> 0]
    /\ wait = [d \in Deliveries |-> 0]
    /\ outcome = [d \in Deliveries |-> [n \in 1 .. AttemptsCheck |-> "none"]]
    /\ sent = [d \in Deliveries |-> 0]
    /\ step = [x \in Runs |-> "idle"]
    /\ batch = [x \in Runs |-> {}]
    /\ current = [x \in Runs |-> None]
    /\ failures = 0

-----------------------------------------------------------------------------
(* Notifications.                                                          *)

\* dispatchNotification inserts the notification and its deliveries; under an id
\* that exists it inserts nothing.
Dispatch(d) ==
    /\ status[d] = "absent"
    /\ status' = [status EXCEPT ![d] = "pending"]
    /\ UNCHANGED <<attempts, owner, lease, wait, outcome, sent, runs, failures>>

\* deleteNotification takes the deliveries and their attempts with it, leased or
\* not.  (That the same notification is then dispatched again is left out.)
Delete(d) ==
    /\ status[d] \notin {"absent", "deleted"}
    /\ status' = [status EXCEPT ![d] = "deleted"]
    /\ attempts' = [attempts EXCEPT ![d] = 0]
    /\ owner' = [owner EXCEPT ![d] = None]
    /\ lease' = [lease EXCEPT ![d] = 0]
    /\ wait' = [wait EXCEPT ![d] = 0]
    /\ outcome' = [outcome EXCEPT ![d] = [n \in 1 .. AttemptsCheck |-> "none"]]
    /\ UNCHANGED <<sent, runs, failures>>

-----------------------------------------------------------------------------
(* The functions of the database.                                          *)

\* Mutants: a lease is not looked at; a lease is never taken over; a status is not
\* looked at.
ClaimableLeased(d) == status[d] \in {"pending", "retry", "leased"} /\ wait[d] = 0
ClaimableFree(d) == status[d] \in {"pending", "retry"} /\ wait[d] = 0
ClaimableDue(d) == status[d] \notin {"absent", "deleted"} /\ wait[d] = 0 /\ lease[d] = 0

Claimable(d) ==
    \/ status[d] \in {"pending", "retry"} /\ wait[d] = 0
    \/ status[d] = "leased" /\ lease[d] = 0

\* claim_notification_deliveries: the next ones up to the batch size.  The check on
\* attempts refuses the whole statement when it fails for one of them.
NextBatches ==
    LET due == {d \in Deliveries : Claimable(d)}
    IN  {S \in SUBSET due : Cardinality(S) <= BatchSize
                            /\ (S = due \/ Cardinality(S) = BatchSize)}

Admitted(S) == \A d \in S : attempts[d] < AttemptsCheck

Owned(x, d) == status[d] = "leased" /\ owner[d] = WorkerOf[x]

\* Mutant: a failure is always retried.
RetriedForEver(d, result) == result

\* What complete_notification_delivery makes of a result.
Becomes(d, result) ==
    IF result = "retry" /\ attempts[d] >= MaxAttempts THEN "dead_letter" ELSE result

\* Mutant: the lease ends and its owner stays.
CompleteOwned(d, result) ==
    LET becomes == Becomes(d, result)
    IN  /\ status' = [status EXCEPT ![d] = becomes]
        /\ wait' = [wait EXCEPT ![d] = IF becomes = "retry" THEN RetryDelay ELSE @]
        /\ lease' = [lease EXCEPT ![d] = 0]
        /\ outcome' = [outcome EXCEPT ![d][attempts[d]] = becomes]
        /\ UNCHANGED <<attempts, owner>>

\* complete_notification_delivery of a row the run's worker owns.
CompleteRow(d, result) ==
    LET becomes == Becomes(d, result)
    IN  /\ status' = [status EXCEPT ![d] = becomes]
        /\ wait' = [wait EXCEPT ![d] = IF becomes = "retry" THEN RetryDelay ELSE @]
        /\ owner' = [owner EXCEPT ![d] = None]
        /\ lease' = [lease EXCEPT ![d] = 0]
        /\ outcome' = [outcome EXCEPT ![d][attempts[d]] = becomes]
        /\ UNCHANGED attempts

-----------------------------------------------------------------------------
(* NotificationsWorker.run.                                                *)

Goto(x, s, d, left) ==
    /\ step' = [step EXCEPT ![x] = s]
    /\ current' = [current EXCEPT ![x] = d]
    /\ batch' = [batch EXCEPT ![x] = left]

\* The loop goes on with what is left, or the run is over.
GoOn(x) ==
    LET left == batch[x] \ {current[x]}
    IN  Goto(x, IF left = {} THEN "idle" ELSE "next", None, left)

\* A call in the catch block throws: the rest of the batch stays leased.
Abandon(x) == Goto(x, "idle", None, {})

Claim(x) ==
    /\ step[x] = "idle"
    /\ \E S \in NextBatches :
        /\ S # {} /\ Admitted(S)
        /\ status' = [d \in Deliveries |-> IF d \in S THEN "leased" ELSE status[d]]
        /\ attempts' = [d \in Deliveries |-> IF d \in S THEN attempts[d] + 1 ELSE attempts[d]]
        /\ owner' = [d \in Deliveries |-> IF d \in S THEN WorkerOf[x] ELSE owner[d]]
        /\ lease' = [d \in Deliveries |-> IF d \in S THEN Lease ELSE lease[d]]
        /\ Goto(x, "next", None, S)
    /\ UNCHANGED <<wait, outcome, sent, failures>>

\* resolveDeliveryDestinations and provider.send: accepted, or refused for good
\* (no destination, an address the provider rejects).
Send(x, d) ==
    /\ step[x] = "next" /\ d \in batch[x]
    /\ \/ /\ sent' = [sent EXCEPT ![d] = @ + 1]
          /\ Goto(x, "delivered", d, batch[x])
       \/ /\ Goto(x, "dead_letter", d, batch[x])
          /\ UNCHANGED sent
    /\ UNCHANGED <<rows, failures>>

\* The call fails, with the message sent or not.
SendFails(x, d) ==
    /\ failures < MaxFailures
    /\ step[x] = "next" /\ d \in batch[x]
    /\ failures' = failures + 1
    /\ sent' \in {sent, [sent EXCEPT ![d] = @ + 1]}
    /\ Goto(x, "retry", d, batch[x])
    /\ UNCHANGED rows

\* Where a completion that throws leads: out of the try block into the catch
\* block, and out of the catch block out of the run.
Thrown(x) ==
    IF step[x] = "delivered" THEN Goto(x, "retry", current[x], batch[x]) ELSE Abandon(x)

\* completeDelivery; a row that is not the worker's any more, or is gone, throws.
Complete(x) ==
    /\ step[x] \in Outcomes
    /\ IF Owned(x, current[x])
       THEN CompleteRow(current[x], step[x]) /\ GoOn(x)
       ELSE Thrown(x) /\ UNCHANGED rows
    /\ UNCHANGED <<sent, failures>>

\* The call throws before it reaches the database or after it took effect.
CompleteFails(x) ==
    /\ failures < MaxFailures
    /\ step[x] \in Outcomes
    /\ failures' = failures + 1
    /\ \/ Owned(x, current[x]) /\ CompleteRow(current[x], step[x])
       \/ UNCHANGED rows
    /\ Thrown(x)
    /\ UNCHANGED sent

\* The process dies with its runs; what they claimed stays leased.
Crash(w) ==
    LET hit == {x \in Runs : WorkerOf[x] = w}
    IN  /\ failures < MaxFailures
        /\ \E x \in hit : step[x] # "idle"
        /\ failures' = failures + 1
        /\ step' = [x \in Runs |-> IF x \in hit THEN "idle" ELSE step[x]]
        /\ batch' = [x \in Runs |-> IF x \in hit THEN {} ELSE batch[x]]
        /\ current' = [x \in Runs |-> IF x \in hit THEN None ELSE current[x]]
        /\ UNCHANGED <<rows, sent>>

Less(n) == IF n > 0 THEN n - 1 ELSE 0

\* A lease that runs out under a batch that still holds the delivery.
Overtaken == \E x \in Runs : \E d \in batch[x] : lease[d] = 1

Tick ==
    /\ IF Overtaken
       THEN failures < MaxFailures /\ failures' = failures + 1
       ELSE UNCHANGED failures
    /\ lease' = [d \in Deliveries |-> Less(lease[d])]
    /\ wait' = [d \in Deliveries |-> Less(wait[d])]
    /\ UNCHANGED <<status, attempts, owner, outcome, sent, runs>>

Next ==
    \/ \E d \in Deliveries : Dispatch(d) \/ Delete(d)
    \/ \E x \in Runs : \/ Claim(x) \/ Complete(x) \/ CompleteFails(x)
                       \/ \E d \in Deliveries : Send(x, d) \/ SendFails(x, d)
    \/ \E w \in Workers : Crash(w)
    \/ Tick

Spec == Init /\ [][Next]_vars

\* Time passes; wake-ups and the schedule start runs, and a run goes on.
FairSpec ==
    /\ Spec
    /\ WF_vars(Tick)
    /\ WF_vars(\E x \in Runs : Claim(x))
    /\ \A x \in Runs : WF_vars(Complete(x)) /\ WF_vars(\E d \in Deliveries : Send(x, d))

-----------------------------------------------------------------------------
(* Properties.                                                             *)

TypeOK ==
    /\ status \in [Deliveries -> Settled \cup {"absent", "pending", "leased", "retry"}]
    /\ attempts \in [Deliveries -> 0 .. AttemptsCheck]
    /\ owner \in [Deliveries -> Workers \cup {None}]
    /\ \A d \in Deliveries : owner[d] # None <=> status[d] = "leased"
    /\ lease \in [Deliveries -> 0 .. Lease]
    /\ wait \in [Deliveries -> 0 .. RetryDelay]
    /\ outcome \in [Deliveries -> [1 .. AttemptsCheck -> Outcomes \cup {"none"}]]
    /\ sent \in [Deliveries -> Nat]
    /\ step \in [Runs -> Outcomes \cup {"idle", "next"}]
    /\ batch \in [Runs -> SUBSET Deliveries]
    /\ current \in [Runs -> Deliveries \cup {None}]
    /\ failures \in 0 .. MaxFailures

\* A message reaches the provider twice only when something failed: scheduled runs
\* and wake-ups that drain the outbox at once do not send it again.  Once something
\* did, it is sent at most once for each attempt that was counted.
SentAgainOnlyAfterFailure ==
    \A d \in Deliveries :
        /\ failures = 0 => sent[d] <= 1
        /\ status[d] # "deleted" => sent[d] <= attempts[d]

\* Whatever runs overtake each other, the record of the last attempt says why the row
\* is where it is, attempts to come have no record, a row that waits for a retry has
\* an attempt left, and one that was delivered was accepted by the provider.
AttemptsExplainTheRow ==
    \A d \in Deliveries :
        /\ status[d] \in Outcomes => outcome[d][attempts[d]] = status[d]
        /\ status[d] = "leased" => outcome[d][attempts[d]] = "none"
        /\ status[d] = "retry" => attempts[d] < MaxAttempts
        /\ status[d] = "delivered" => sent[d] > 0
        /\ \A n \in 1 .. AttemptsCheck : n > attempts[d] => outcome[d][n] = "none"

\* A run that comes late does not take back what another one settled.
SettledStaysSettled ==
    [][\A d \in Deliveries :
          status[d] \in Settled => status'[d] \in {status[d], "deleted"}]_vars

\* No delivery is left behind by runs that die, are overtaken or abandon a batch.
EveryDeliveryIsSettled ==
    \A d \in Deliveries : status[d] = "pending" ~> status[d] \in Settled

=============================================================================
