------------------------ MODULE ProviderWebhookInbox ------------------------
(***************************************************************************)
(* The durable inbox of provider webhooks (migration 00074), the worker    *)
(* that drains it, and the claim on provider events (migration 00031) that *)
(* the order and compliance handlers take before they apply an event.      *)
(*                                                                         *)
(* Two leases guard one event: the lease of its receipt, retaken when it   *)
(* expires or when the attempt failed, and the fence of its claim, which   *)
(* answers IN_PROGRESS until it expires.  Times count down.                *)
(***************************************************************************)
EXTENDS Integers, FiniteSets, FiniteSetsExt

CONSTANTS
    Events,         \* provider events; a redelivery has the same identifier
    Workers,        \* worker processes, each an owner of leases
    BatchSize,      \* receipts claimed at once
    Lease,          \* providerWebhookLeaseSeconds
    Fence,          \* the 5 minutes of claim_compliance_provider_event
    RetryBase, RetryMaximum, ExponentCap,   \* the back-off of a failed attempt
    MaxAttempts,    \* 10 attempts, then the receipt is a dead letter
    Retention,      \* age at which a processed receipt is purged
    MaxFailures,    \* bound on handlers that throw and workers that crash
    None

ASSUME InboxAssumption ==
    /\ {BatchSize, Lease, Fence, RetryBase, RetryMaximum, MaxAttempts, Retention}
         \subseteq Nat \ {0}
    /\ ExponentCap \in 0 .. MaxAttempts /\ MaxFailures \in Nat
    /\ None \notin Workers \cup Events

VARIABLES
    inbox,      \* provider_webhook_inbox, None where there is no row
    claim,      \* compliance_provider_events, one row per event
    worker,     \* what each worker is doing
    applied,    \* how many times the effect of an event was applied
    failures

vars == <<inbox, claim, worker, applied, failures>>

\* left counts down the lease of a receipt being processed, the delay of one that
\* waits, and the retention of one that was processed.
Receipt == [status: {"received", "processing", "processed", "failed", "dead_letter"},
            attempts: 0 .. MaxAttempts, owner: Workers \cup {None}, left: Nat]

\* started: how long the claim still fences other attempts off.
Claim == [state: {"none", "started", "processed"}, fence: 0 .. Fence]

Idle == [at |-> "idle", batch |-> {}, e |-> None, attempt |-> 0]

Init ==
    /\ inbox = [e \in Events |-> None]
    /\ claim = [e \in Events |-> [state |-> "none", fence |-> 0]]
    /\ worker = [w \in Workers |-> Idle]
    /\ applied = [e \in Events |-> 0]
    /\ failures = 0

Has(e) == inbox[e] # None

At(w, step) == worker[w].at = step

Goto(w, step) == worker' = [worker EXCEPT ![w].at = step]

-----------------------------------------------------------------------------
(* The receipt.                                                            *)

\* enqueue_provider_webhook: a redelivery collapses on the row it finds.
Enqueue(e) ==
    /\ ~Has(e)
    /\ inbox' = [inbox EXCEPT ![e] = [status |-> "received", attempts |-> 0,
                                      owner |-> None, left |-> 0]]
    /\ UNCHANGED <<claim, worker, applied, failures>>

\* Mutant: a receipt whose worker died stays with it.
ClaimableWaiting == {e \in Events : Has(e) /\ inbox[e].left = 0
                                    /\ inbox[e].status \in {"received", "failed"}}

\* Receipts that are due, and those whose lease was abandoned.
Claimable == {e \in Events : Has(e) /\ inbox[e].left = 0
                             /\ inbox[e].status \in {"received", "failed", "processing"}}

\* Attempts past the last one are told apart by nothing.
NextAttempt(e) == Min({MaxAttempts, inbox[e].attempts + 1})

\* claim_provider_webhooks; the batch is then handled one receipt after another.
ClaimBatch(w) ==
    /\ At(w, "idle")
    /\ \E batch \in SUBSET Claimable :
         /\ Cardinality(batch) \in {BatchSize} \cup IF Cardinality(Claimable) < BatchSize
                                                    THEN {Cardinality(Claimable)} ELSE {}
         /\ batch # {}
         /\ inbox' = [e \in Events |->
                        IF e \in batch
                        THEN [status |-> "processing", attempts |-> NextAttempt(e),
                              owner |-> w, left |-> Lease]
                        ELSE inbox[e]]
         /\ worker' = [worker EXCEPT ![w] = [Idle EXCEPT !.at = "next",
                !.batch = {[e |-> e, attempt |-> NextAttempt(e)] : e \in batch}]]
    /\ UNCHANGED <<claim, applied, failures>>

\* Mutant: a receipt is acknowledged before its event is handled.
AcknowledgeReceipt(w) ==
    /\ At(w, "next")
    /\ IF worker[w].batch = {}
       THEN worker' = [worker EXCEPT ![w] = Idle]
       ELSE \E receipt \in worker[w].batch :
              worker' = [worker EXCEPT ![w] =
                  [at |-> "succeeded", batch |-> @.batch \ {receipt},
                   e |-> receipt.e, attempt |-> receipt.attempt]]
    /\ UNCHANGED <<inbox, claim, applied, failures>>

\* The worker goes by the receipts that the claim returned.
NextReceipt(w) ==
    /\ At(w, "next")
    /\ IF worker[w].batch = {}
       THEN worker' = [worker EXCEPT ![w] = Idle]
       ELSE \E receipt \in worker[w].batch :
              worker' = [worker EXCEPT ![w] =
                  [at |-> "dispatch", batch |-> @.batch \ {receipt},
                   e |-> receipt.e, attempt |-> receipt.attempt]]
    /\ UNCHANGED <<inbox, claim, applied, failures>>

\* min(maximum, base * 2^min(attempt, cap)), which the function clamps again.
RetryAfter(attempt) ==
    Min({RetryMaximum, RetryBase * 2 ^ Min({attempt, ExponentCap})})

\* Mutant: anyone settles a receipt.
CompleteAny(w, receipt) ==
    /\ IF Has(worker[w].e)
       THEN inbox' = [inbox EXCEPT ![worker[w].e] = receipt] /\ Goto(w, "next")
       ELSE worker' = [worker EXCEPT ![w] = Idle] /\ UNCHANGED inbox
    /\ UNCHANGED <<claim, applied, failures>>

\* complete_provider_webhook writes only for the owner of a receipt still being
\* processed.  Refused, the success is reported again as a failure, which is
\* refused too, and the rest of the batch is left to its lease.
Complete(w, receipt) ==
    LET e == worker[w].e IN
    /\ IF Has(e) /\ inbox[e].status = "processing" /\ inbox[e].owner = w
       THEN /\ inbox' = [inbox EXCEPT ![e] = receipt]
            /\ Goto(w, "next")
       ELSE /\ worker' = [worker EXCEPT ![w] = Idle]
            /\ UNCHANGED inbox
    /\ UNCHANGED <<claim, applied, failures>>

\* Mutant: the owner is left in the row.
SettledByOwner(e, status, left) ==
    [inbox[e] EXCEPT !.status = status, !.left = left]

Settled(e, status, left) ==
    [inbox[e] EXCEPT !.status = status, !.owner = None, !.left = left]

Succeed(w) ==
    /\ At(w, "succeeded")
    /\ Complete(w, Settled(worker[w].e, "processed", Retention))

ReportError(w) ==
    /\ At(w, "failed")
    /\ Complete(w, IF inbox[worker[w].e].attempts >= MaxAttempts
                   THEN Settled(worker[w].e, "dead_letter", 0)
                   ELSE Settled(worker[w].e, "failed", RetryAfter(worker[w].attempt)))

\* purge_processed_provider_webhooks; the provider may deliver the event again.
Purge(e) ==
    /\ Has(e) /\ inbox[e].status = "processed" /\ inbox[e].left = 0
    /\ inbox' = [inbox EXCEPT ![e] = None]
    /\ UNCHANGED <<claim, worker, applied, failures>>

-----------------------------------------------------------------------------
(* The handler of the event.                                               *)

\* Mutants: a started claim fences nobody off; a processed one no longer does.
FencedOnceProcessed(e) == claim[e].state = "processed"
FencedWhileStarted(e) == claim[e].fence > 0

\* IN_PROGRESS and PROCESSED.
Fenced(e) == claim[e].state = "processed" \/ claim[e].fence > 0

\* claim_compliance_provider_event: only CLAIMED goes on; IN_PROGRESS and
\* PROCESSED make the handler return, and the worker takes that for success.
ClaimEvent(w) ==
    /\ At(w, "dispatch")
    /\ LET e == worker[w].e IN
       IF Fenced(e)
       THEN Goto(w, "succeeded") /\ UNCHANGED claim
       ELSE /\ claim' = [claim EXCEPT ![e] = [state |-> "started", fence |-> Fence]]
            /\ Goto(w, "apply")
    /\ UNCHANGED <<inbox, applied, failures>>

Apply(w) ==
    /\ At(w, "apply")
    /\ applied' = [applied EXCEPT ![worker[w].e] = @ + 1]
    /\ Goto(w, "applied")
    /\ UNCHANGED <<inbox, claim, failures>>

\* complete_compliance_provider_event asks for no owner.
CompleteEvent(w) ==
    /\ At(w, "applied")
    /\ claim' = [claim EXCEPT ![worker[w].e] = [state |-> "processed", fence |-> 0]]
    /\ Goto(w, "succeeded")
    /\ UNCHANGED <<inbox, applied, failures>>

\* The handler, or after it another one that the dispatcher hands the event to.
HandlerThrows(w) ==
    /\ failures < MaxFailures
    /\ worker[w].at \in {"dispatch", "apply", "applied", "succeeded"}
    /\ failures' = failures + 1
    /\ Goto(w, "failed")
    /\ UNCHANGED <<inbox, claim, applied>>

Crash(w) ==
    /\ failures < MaxFailures
    /\ ~At(w, "idle")
    /\ failures' = failures + 1
    /\ worker' = [worker EXCEPT ![w] = Idle]
    /\ UNCHANGED <<inbox, claim, applied>>

\* Handlers end before the fence of their claim does: none of their calls takes
\* minutes.  The leases of receipts, which are not renewed, may run out under them.
InTime ==
    \A w \in Workers : worker[w].at \in {"apply", "applied"} =>
                          claim[worker[w].e].fence # 1

Tick ==
    /\ InTime
    /\ inbox' = [e \in Events |-> IF Has(e) THEN [inbox[e] EXCEPT !.left = Max({0, @ - 1})]
                                  ELSE None]
    /\ claim' = [e \in Events |-> [claim[e] EXCEPT !.fence = Max({0, @ - 1})]]
    /\ UNCHANGED <<worker, applied, failures>>

-----------------------------------------------------------------------------
Step(w) ==
    \/ NextReceipt(w) \/ ClaimEvent(w) \/ Apply(w) \/ CompleteEvent(w)
    \/ Succeed(w) \/ ReportError(w)

Next ==
    \/ \E e \in Events : Enqueue(e) \/ Purge(e)
    \/ \E w \in Workers : ClaimBatch(w) \/ Step(w) \/ HandlerThrows(w) \/ Crash(w)
    \/ Tick

Spec == Init /\ [][Next]_vars

\* The inbox job runs every few seconds; time passes; awaited calls return.
FairSpec ==
    /\ Spec
    /\ WF_vars(Tick)
    /\ \A w \in Workers : WF_vars(Step(w)) /\ WF_vars(ClaimBatch(w))

-----------------------------------------------------------------------------
(* Properties.                                                             *)

TypeOK ==
    /\ inbox \in [Events -> Receipt \cup {None}]
    /\ \A e \in Events : Has(e) => (inbox[e].owner # None <=> inbox[e].status = "processing")
    /\ claim \in [Events -> Claim]
    /\ worker \in [Workers -> [at: {"idle", "next", "dispatch", "apply", "applied",
                                    "succeeded", "failed"},
                               batch: SUBSET [e: Events, attempt: 0 .. MaxAttempts],
                               e: Events \cup {None}, attempt: 0 .. MaxAttempts]]
    /\ applied \in [Events -> Nat]
    /\ failures \in 0 .. MaxFailures

Handling(e) == \E w \in Workers : worker[w].e = e /\ worker[w].at \in {"apply", "applied"}

\* The claim fences the attempts of an event off each other across expired leases,
\* retries and redeliveries: an effect is repeated only after a failure.
AppliedAgainOnlyAfterFailure ==
    \A e \in Events : applied[e] <= 1 + failures

\* At most one worker is inside the handler of an event.
OneHandlerPerEvent ==
    \A v, w \in Workers :
        /\ worker[v].e = worker[w].e
        /\ {worker[v].at, worker[w].at} \subseteq {"apply", "applied"}
        => v = w

\* While no handler fails, a receipt marked processed had its effect, once the
\* worker that may still hold the event is done: neither redeliveries nor leases
\* that run out make the inbox drop an event.
NoEventIsDropped ==
    failures = 0 =>
        \A e \in Events :
            Has(e) /\ inbox[e].status = "processed" /\ ~Handling(e) => applied[e] > 0

\* A receipt is given up as a dead letter only when it used up its attempts, and a
\* slow worker whose lease another one took over cannot settle it: a settled
\* receipt stays as it is until it is purged.
SettledReceiptIsFinal ==
    [][\A e \in Events :
        Has(e) /\ inbox[e].status \in {"processed", "dead_letter"} =>
            \/ ~Has(e)'
            \/ inbox'[e].status = inbox[e].status]_vars

\* A worker that is still at work on a batch whose lease has ended.
LeaseEndedUnder(w) ==
    ~At(w, "idle") /\ \E e \in Events :
        Has(e) /\ inbox[e].status = "processing" /\ inbox[e].owner = w /\ inbox[e].left = 0

\* Every receipt is settled unless leases keep ending under batches: crashed workers,
\* failed attempts and results that came too late leave no receipt behind.
EveryReceiptIsSettled ==
    <>[](\A w \in Workers : ~LeaseEndedUnder(w)) =>
        \A e \in Events :
            Has(e) ~> (Has(e) => inbox[e].status \in {"processed", "dead_letter"})

\* What the reports say of retries: an attempt that failed is made again, so that a
\* receipt is processed only once its event was applied.
ProcessedMeansApplied ==
    \A e \in Events :
        Has(e) /\ inbox[e].status = "processed" /\ ~Handling(e) => applied[e] > 0

=============================================================================
