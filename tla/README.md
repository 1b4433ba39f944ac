# Verification of the marketplace backend

This directory holds TLA+ models of the parts of the backend where money, listings and background
jobs are at stake, the instances TLC checks, and theorems TLAPS proves about the models.
Paths below are relative to `src/backend` unless they say otherwise: *service* is
`src/modules/orders/orders.service.ts`, and a number such as 00074 is a migration in
`supabase/migrations`.

- [1. The system](#1-the-system)
- [2. Modules and the code](#2-modules-and-the-code)
- [3. Runs](#3-runs)
- [4. Fairness](#4-fairness)
- [5. Proofs](#5-proofs)
- [6. Assumptions of the models](#6-assumptions-of-the-models)
- [7. Findings](#7-findings)
- [8. Not modelled](#8-not-modelled)
- [9. Plan](#9-plan)

## 1. The system

A TypeScript backend (an HTTP API and worker processes) over Postgres, with web and mobile clients.
The API and the workers hold no authoritative state: every handler reads rows, awaits the payment
provider or the database, and writes rows. Triggers, unique indexes and `SECURITY DEFINER`
functions in the migrations do the rest. What is hard is what happens between two awaits.

| Component | State | Operations | Talks to | Hard about it |
|---|---|---|---|---|
| Orders and escrow | `orders`, `order_refunds`, `listings.status` | checkout, cancel, ship, hand over, confirm, dispute, refund; webhook and reconciliation handlers | payment provider, listings, webhook inbox, scheduled jobs | updates carry no guard on the status read before the await; events late, lost or twice; calls that fail between two writes |
| Payment provider (external) | sessions, transfers, reversals, refunds, disputes | pay, expire, settle, dispute | orders, by idempotent calls; inbox, by webhooks | answers later, and in any order |
| Provider webhook inbox | `provider_webhook_inbox`, `compliance_provider_events` | enqueue, claim a batch, complete, retry, dead letter, purge; claim and complete an event | webhook routes, Stripe dispatcher, compliance | two leases on one event; workers that die or are slow |
| Scheduled jobs | `scheduled_jobs`, timers of the runtime | claim, renew, complete, release for retry, take over | BullMQ queue, every job | renewals that fail, calls whose answer is lost, one owner per process |
| Job queue, domain wake-ups | BullMQ in Redis | schedule, trigger | scheduled jobs | a wake-up runs a job without its lease |
| Order returns | `order_returns` | request, answer, ship back, confirm receipt, expire | orders (`refundOrder`) | updates by identifier whatever the row holds; the receipt is written before the refund that may fail |
| Digital products | entitlements, link sessions, fulfilment jobs | grant, redeem, revoke | orders | an outbox beside the order's states |
| Delivery marketplace | `delivery_requests`, `delivery_applications`, courier profiles, an outbox | publish, apply, accept, withdraw, advance, cancel, suspend | outboxes, compliance, accounts | row locks taken in different orders; decisions on a version seen before; idempotency keys |
| Notification outbox | `notification_deliveries`, `notification_delivery_attempts` | dispatch, claim a batch, send, complete, retry, dead letter | all modules, mail and push providers | drained with and without the job lease; runs of one process share a worker id |
| Watch, discovery, IndexNow outboxes | outbox tables with leases | enqueue, claim, deliver, retry | listings | the shape of the notification outbox |
| Commission, finance, invoicing | ledgers, document numbers | quote, earn, reverse, post | orders | idempotent entries, exact amounts |
| Business rules, subscriptions, monetization | plans, entitlements | activate, expire | payments | time |
| Messaging and offers | `conversations`, `marketplace_offers`, their events, `messages.offer_status` | offer, counter, answer, withdraw, expire | listings, orders | two parties act at once; transactions lock rows in opposite orders |
| Compliance, auth, listings, moderation, verticals, CRM, reviews, taxonomy, providers, AI, realtime, storage, clients | — | — | — | mostly validation, search and configuration |

What makes the modelled components correct:

- *Orders.* A seller is paid once, and only out of a collected charge. A buyer is credited at most
  the charge, and only in rows of the refund ledger. Reversals never exceed the transfer; a lost
  chargeback takes all of it back. Nobody pays for an order that was cancelled. A checkout is settled
  even if every webhook about it is lost.
- *Inbox.* An effect is repeated only after a failure; one handler per event; a processed receipt
  had its effect; a settled receipt stays settled; every receipt gets settled.
- *Scheduled jobs.* One run at a time; the job always runs again.
- *Notifications.* A message is sent again only after a failure, and never more often than attempts
  were counted; late runs undo nothing; no delivery is left behind.
- *Offers.* One offer is on the table; the thread shows each participant what became of it; whatever
  transactions overlap, the outcome is one a serial negotiation could have; the locks are ordered but
  for one pair.
- *Delivery.* One courier per request, for good; decisions are about the request their actor saw;
  every change is told although keys drop conflicting inserts; the locks are ordered but for
  withdrawals and deletions.
- *Returns.* Money moves only after the item came back, once per return, and a return called
  refunded was refunded.

`PROJECT.json` lists the hazards of this code line by line, with the property that covers each or
the reason why none does.

## 2. Modules and the code

| Module | What it is |
|---|---|
| `EscrowAccount` | Abstract: what the marketplace promises about the money of an order (collect, pay out, credit, bounce, take back). |
| `MarketplaceOrders` | The service, order repository, listing trigger and index, with the provider and the card network as the environment; `EscrowSpec` starts it from a paid order. |
| `MCMarketplaceOrders` | Its instances: symmetry. |
| `MarketplaceOrders_proofs` | Type correctness, and what is known of sums over finite sets. |
| `MarketplaceMoney_proofs` | The money and the listing, on top of it: the refinement of `EscrowAccount`, settlements, cancellations. |
| `ProviderWebhookInbox`, `MCProviderWebhookInbox`, `ProviderWebhookInbox_proofs` | Receipts, worker, and the claim on provider events. |
| `ScheduledJobLease`, `MCScheduledJobLease`, `ScheduledJobLease_proofs` | The lease of one job and the runtime that runs under it. |
| `NotificationOutbox`, `MC...`, `..._proofs` | Deliveries of notifications and the runs that drain them. |
| `Negotiation` | Abstract: a negotiation in which every operation is one step. |
| `OfferNegotiation`, `MC...`, `..._proofs` | The offer functions as transactions with row locks; implements `Negotiation`. |
| `DeliveryAssignment`, `MC...`, `..._proofs` | One delivery request, its applications and its assignment, as transactions with row locks. |
| `OrderReturns`, `MC...`, `..._proofs` | The returns of one order and the refunds they end in. |

Operators with the word *Mutant* in their comment are wrong on purpose: each replaces the
definition after it in one experiment that shows a property can fail. No specification uses them.

### MarketplaceOrders

One physical listing, the orders that try to buy it (one checkout idempotency key each), API
requests and webhook workers (`Requests`) and the reconciliation job (`Reconciler`, one at a time
under its lease).

| State | Code |
|---|---|
| `listing` | `listings.status`: published, reserved, sold |
| `order` | `orders`: status, whether session and payment intent are recorded, `sellerTransferStatus`, `refundedBaseMinor`, last refund, chargeback status and identifier |
| `ledger` | `order_refunds`: item value asked for, amount credited, whether it closes the order out, status |
| `rq` | each request in flight: the await it is at, the row it read, the key and amounts it decided on |
| `session`, `transfers`, `reversals`, `refunds`, `dispute` | objects at the provider and the card network |
| `events` | webhooks sent and not yet handled |

A handler is a chain of actions, one per await, linked by `rq[p].at`. Between two of them any other
request may take steps, so an action may use two rows: `rq[p].row`, which the handler read at its
start, and `Row(p)`, which the update finds. An update writes the columns the code names over
whatever the row holds (`UpdateOrder`); the index on active physical orders (00090) may refuse it,
which is an exception, and the trigger `synchronize_listing_order_lifecycle` may move the listing in
the same step. `setListingStatus` reads and then writes in two steps more.

| Handler | Actions |
|---|---|
| `createCheckoutOrder`, `ensureProviderCheckout` | `BeginCheckout`, `FindCheckout`, `InsertOrder`, `OpenCheckout`, `SaveSession` |
| `cancelUnpaidOrder` | `CancelUnpaid`, `ExpireSession`, `WriteCancelled` |
| `handleStripeWebhook` | `TakeEvent`, `Fund`, `WritePaymentPending`, `WriteCancelled`, `WriteRefundFailed`, `WriteRefunded`, `CompleteEvent` |
| `handleProviderDisputeEvent` | `TakeEvent`, `RecoverSellerLeg`, `WriteChargeback`, `CompleteEvent` |
| `reconcileStaleCheckouts` | `ReconcileOrder`, `RetrieveCheckout`, `RecheckUnpaid`, `Fund`, `WriteCancelled`, `WritePaymentPending` |
| `markShipped`, handover code, `openDispute` | `MarkShipped`/`WriteShipped`, `IssueHandoverCode`/`WritePinPending`, `OpenDispute`/`WriteDisputed` |
| `confirmDeliveryReceived`, `confirmHandoverPIN` | `Confirm`, `ReleaseSellerFunds`, `WriteCompleted` |
| `refundOrder`, `finalizeRefund` | `RefundOrder`, `QuoteRefund`, `ClaimRefund`, `ReverseTransfer`, `CreateRefund`, `UpdateRefund`, `RecordRefund`, `WriteRefunded` |
| `setListingStatus` | `FindListing`, `WriteListing` |
| any await that throws, a process that dies | `Fail` |

`Disputes` selects what the card network may tell: an early fraud warning, an inquiry and its end, a
dispute that is opened, reviewed, withdraws the funds and is won or lost (`DisputeMoves` gives the
order in which these happen, events arrive in any). `ChargebackStatus` is what the service stores of
each, one of the values the CHECK of 00135 admits. The ledger has rows that are pending or succeeded
only: `updateRefund` is called once, right after the provider's answer, and no webhook writes a row.

`Handlers` selects the entry points that callers use in an instance, as a test chooses which
endpoints it calls; it changes no handler.

`MarketplaceOrders` implements `EscrowAccount` under the mapping `Escrow`: the orders whose session
was paid are collected, transfers are pay-outs, refunds the provider has not failed are credits of
what the ledger says, and reversals are what was taken back. So the abstract account speaks about
money that really moved, not about what the tables claim.

### ProviderWebhookInbox

`inbox` is the table of receipts, `claim` the row an event has in `compliance_provider_events`,
`worker` the loop of `provider-webhook-worker.ts`, `applied` counts the effects of an event. Times
count down: `left` is the lease, the retry delay or the retention of a receipt, according to its
status; `fence` is the five minutes in which a started claim answers `IN_PROGRESS`. `Enqueue`,
`ClaimBatch`, `Complete` and `Purge` are the SQL functions of 00074, `ClaimEvent` and `CompleteEvent`
those of 00031. `ReportError` is the catch block; `Complete` includes that a refused completion
throws inside the catch block and leaves the rest of the batch. A payment event reaches several
modules one after another; the model has one effect and the claim of one handler, and lets one of
the others, or the completion of the claim, throw after the effect was had.

### ScheduledJobLease

`owner`, `lease`, `wait` are columns of `scheduled_jobs`, `exec` and `lost` the state of each
execution of `ScheduledWorkerRuntime.execute`. `holder` records whose claim the lease is, which the
table does not. `Claim`, `Settle` (completion with and without an error, release for retry) and
`Renew` are the functions of 00037, 00072 and 00115 with the branches of `execute()` around them;
`SettleFails` is a call that throws before or after it took effect.

### NotificationOutbox

`status`, `attempts`, `owner`, `lease`, `wait` are columns of `notification_deliveries` (00050, 00103,
00116), `outcome` the rows of `notification_delivery_attempts`, `sent` what the mail or push provider
accepted. `step`, `batch`, `current` are the loop of each run of `notifications-worker.ts`; `WorkerOf`
gives two runs of one process the same worker id, as a scheduled run and a run of a domain wake-up
have. `Dispatch` and `Delete` insert a delivery and delete its notification; `Claim` is
`claim_notification_deliveries`, `Send` and `SendFails` the provider call, `Complete` the SQL function
of that name with its test of the lease owner, `CompleteFails` a completion that throws before or after
it took effect, `Crash` the end of a process. `Tick` lets leases end, also under a run that goes on.

### OfferNegotiation and Negotiation

`offer`, `message`, `events` are the rows that 00049 writes; `thread` and `held` are the row locks on
the conversation and on each offer; `tx` is each transaction: the function it runs, the lock it waits
for next, and what `NOW()` was when it began (`began`, the offers overdue by then). A transaction
takes locks in the steps `LockThread`, `ExpireStale`, `LockParent` (create, counter) or `LockOffer`,
`Resolve` (answer, withdraw) and writes in the last one; `DetectDeadlock` is the database ending one
of two transactions that wait for each other. `Negotiation` is the same conversation without
transactions; the refinement mapping is the identity on `offer`.

### DeliveryAssignment

`request`, `application`, `active` are the rows of 00096 and 00102 (`saveProfile` included), `outbox`
counts the events and outbox rows written, those with the version in their key apart from that of an
assignment, which has none. `held` are the row locks, `tx` each call with the status and version its
actor has seen. `Publish`, `SubmitTo`, `Accept`, `Withdraw`, `Transition` and `Suspend` are the
functions of that name; `CheckDeletion`, `DeleteProfile`, `DeleteApplications` are the deletion of an
account, whose foreign keys cascade from the courier to its applications. Each locks in the order of
its SQL; `TransitionOf` and `Transition` are one function, which holds the request while it waits for
the selected application.

### OrderReturns

`ret` is `order_returns` of one order, `order` what returns ask of the order, `ledger` and `refunds`
`order_refunds` and the provider's refunds. `call` is each request: the row it read and is about to
write (`UpdateReturn` writes by identifier, whatever is there), and then the steps of `refundOrder`
for a confirmed receipt (`ReadOrder`, `Quote`, `Claim`, `CreateRefund`, `UpdateRefund`,
`RecordRefund`, `FinalizeRefund`, `Settle`). An operator's refund of the same order takes the same
steps with a key of its own. `RefundSettles` is the provider's decision on a pending refund, `events`
the webhooks that tell it, `TakeRefundEvent` and `WriteRefundEvent` their handler, which reads the
order, refuses an event that is not of the last refund recorded, and writes the order's status and
nothing else. `ExpireStaleReturns` is the function of 00137. `OrderMovesOn` stands for the rest of the
order, which `MarketplaceOrders` has in full; that module keeps operator refunds with the payout and
the disputes, this one keeps them with the returns.

## 3. Runs

Each `.cfg` has the name of its run; the module is the MC module of the component. `tlc -config
orders_money.cfg MCMarketplaceOrders` repeats one.

### Properties that hold

| Run | Instance | What it shows |
|---|---|---|
| `orders_money` | 1 order from checkout on, 2 overlapping requests, payout, refund, chargeback, one failure and its retry | `SellerPaidOnlyFromCollectedMoney`, `RefundsAreClaimedAndCollected`, `PaidOutIsBackedByTransfer`; `MoneyMovesLikeAnEscrowAccount`, the refinement of `EscrowAccount` |
| `orders_settlement` | 1 paid order, 1 request at a time, 2 refund keys, item value 3, seller share 2, disputes of the buyer and everything the card network tells, late events | `TypeOK`; `RunningTotalMatchesLedger`: netting adds up to at most the charge over any sequence of refunds, and to the whole of it where none failed; `LostChargebackRecoversSellerLeg` |
| `orders_checkout` | 2 orders (one by post, one handed over), 1 request at a time beside the job, one failure, webhooks lost or late, late payment methods | `CancelledOrderIsNeverPaid` before the failure; `CheckoutIsSettled`, `AbandonedOrderIsReleased` |
| `inbox` | 2 events, 2 workers, batch of 2, slow batches, one failure | `TypeOK`, `AppliedAgainOnlyAfterFailure`, `OneHandlerPerEvent`, `NoEventIsDropped`, `SettledReceiptIsFinal`; `EveryReceiptIsSettled` |
| `lease` | 3 processes with one execution each, renewals in time, three failures | `OneRunAtATime`, `JobRunsAgain` |
| `notifications` | 2 deliveries, 3 runs in 2 processes, batch of 2, 4 attempts, two failures | `TypeOK`, `SentAgainOnlyAfterFailure`, `AttemptsExplainTheRow`, `SettledStaysSettled`, `EveryDeliveryIsSettled` |
| `offers` | 3 offers, 2 requests of either participant, expiry at any time | `TypeOK`, `OnePendingOffer`, `ThreadTellsTheOffer`; `SerializedNegotiation`, the refinement of `Negotiation`; `OnlyAnswersDeadlock` |
| `delivery` | 2 applications of 2 couriers, 3 calls at once | `TypeOK`, `OneCourier`, `EveryChangeIsTold`, `DecisionsAreNotStale`, `AssignmentIsFinal`; `OnlyDeparturesDeadlock` |
| `returns` | 2 returns of one order, an operator's refund, 2 calls at once, item value 2, fees, calls that fail anywhere, refunds decided at any time | `TypeOK`, `RefundFollowsReceipt`, `OneRefundPerReturn` |

`RunningTotalMatchesLedger`, `LostChargebackRecoversSellerLeg` and `CancelledOrderIsNeverPaid` are
checked for one request at a time because they do not hold otherwise: see section 7. Those runs still
interleave the request with the provider, the card network, late webhooks and, for
`CancelledOrderIsNeverPaid`, the job; their theorems have the same premises (section 5). The other
order properties are proved for any number of requests that overlap and fail.

### Bounds

- *Orders and requests.* All races of the service are between two handlers (one that read a row and
  one that writes it), so two requests and the job are the least that shows each, and two orders
  the least that compete for a listing. A provider event is held by one request at a time.
- *Amounts* are small integers. Item value 2 makes partial and closing refunds; value 3 with a
  seller share of 2 makes the proportional part of a transfer round both ways (a partial refund of
  1 and one of 2 are both tried). `Fees = 1` makes the charge differ from the item value.
- *Refund keys* bound the number of refunds: a partial one and the closing one take two. Longer
  sequences are in `TheBooksBalance`, for any number of keys.
- *Disputes.* `orders_settlement` has everything the card network tells; `orders_money` has the three
  events that move money or the order's status away from a payout.
- *Failures.* `MaxFailures` bounds awaited calls that throw and processes that die. One is enough
  to leave any prefix of a handler behind; retries follow as new requests. In `notifications` a
  batch that outlives its lease counts as one too.
- *Times* (inbox, lease, outbox) keep the order of the configured ones: the first retry (30 s) and
  the lease of a receipt (120 s) end before the fence of a claim (300 s), 1, 1 and 2 in `inbox`. `MaxAttempts = 2` stands
  for 10 in the inbox. In the outbox it is 4 of the configured 5, below the 6 that `AttemptsCheck`
  admits (10 in the table): with 2 attempts a message could not be sent more often than failures
  explain, and the difference between the two bounds of `SentAgainOnlyAfterFailure` would not show.
- *Offers and calls.* Two transactions are the least that deadlock, and the longest cycle has two in
  the negotiation and three in a delivery (`DeadlocksAreSeen`). Three offers let a counter-offer be
  countered; two applications are the least that compete. `MaxVersion` stops only further
  suspensions; every other change ends by itself. A new offer needs an offer left to be made.
- *Returns.* Two, so that one can expire and another follow.
- Requests and refund keys, offers, calls, returns are interchangeable (sums over keys do not depend
  on their order); symmetry is used for safety and refinement only, never with liveness.

`CHECK_DEADLOCK FALSE` is in the configurations of orders and returns: with every order closed and no
caller the marketplace really stops. The inbox, the lease and the outbox have a clock, and requests
of a negotiation or a delivery may always come (and be refused): they must never stop.

### Violated statements

Three more runs check one sentence of the repository each and end in a counterexample; section 7.

## 4. Fairness

- `MarketplaceOrders!FairSpec`: a handler that runs is not suspended for ever (weak fairness of
  `Step`: provider and database calls answer or throw), and the job visits every order that stays
  in its batch (strong fairness of `ReconcileOrder`, since an order leaves and re-enters the set of
  unpaid orders, or waits while the job is at another one). The job is scheduled for ever, which
  `JobRunsAgain` shows of the lease. Nothing is assumed of callers, customers, webhook delivery or
  the provider's clock.
- `ProviderWebhookInbox!FairSpec`: time passes, an idle worker claims what is due (the inbox job
  runs every few seconds), awaited calls answer. `EveryReceiptIsSettled` has a premise of its own:
  from some time on no lease ends under a batch. Receipts are not renewed, and two workers that are
  always too slow hand one another a receipt for ever, since only a reported failure looks at the
  attempt count. Any number of leases may end before that time.
- `ScheduledJobLease!FairSpec`: time passes, the queue delivers the job again (its scheduler is
  persistent), runs end, renewal timers fire and calls answer or throw.
- `NotificationOutbox!FairSpec`: time passes, some run claims what is due (the schedule and the
  wake-ups go on), and a run that claimed a batch sends and completes. A run that fails or dies is
  followed by others.
- `OfferNegotiation` and `DeliveryAssignment` state no liveness: that a call ends is a promise of the
  database's locks and its deadlock detector, whatever order the functions lock in. What the
  functions answer for is that order, and `OnlyAnswersDeadlock` and `OnlyDeparturesDeadlock` say it.
- `OrderReturns` states no liveness: what should always follow a receipt does not (section 7).

## 5. Proofs

TLAPS proves the following for every value of the constants that satisfies the named assumptions.

| Theorem | Statement |
|---|---|
| `MarketplaceOrders_proofs!TypeCorrect` | `Spec => []TypeOK` |
| `MarketplaceMoney_proofs!SellersArePaidFromCollectedMoney` | `Spec => []SellerPaidOnlyFromCollectedMoney` |
| `MarketplaceMoney_proofs!RefundsAreBacked` | `Spec => []RefundsAreClaimedAndCollected` |
| `MarketplaceMoney_proofs!PayoutsAreBacked` | `Spec => []PaidOutIsBackedByTransfer` |
| `MarketplaceMoney_proofs!MoneyIsKeptInEscrow` | `Spec => MoneyMovesLikeAnEscrowAccount`: the refinement |
| `MarketplaceMoney_proofs!AccountsAreSolvent` | `Spec => []Solvent`, a consequence of it |
| `MarketplaceMoney_proofs!TheBooksBalance`, `LostChargebacksAreRecovered` | `EscrowSpec => []RunningTotalMatchesLedger`, `[]LostChargebackRecoversSellerLeg`, given `Alone(o, p)` |
| `MarketplaceMoney_proofs!CancelledOrdersAreNotPaid` | `Spec => []CancelledOrderIsNeverPaid`, given `Requests = {p}` |
| `ScheduledJobLease_proofs!TypeCorrect` | `Spec => []TypeOK` |
| `ScheduledJobLease_proofs!Exclusive` | `Spec => []OneRunAtATime`, given `Separate` and `RenewalsInTime` |
| `ProviderWebhookInbox_proofs!TypeCorrect`, `OneHandler`, `EffectsAreCounted`, `NothingIsDropped` | `Spec => []TypeOK`, `[]OneHandlerPerEvent`, `[]AppliedAgainOnlyAfterFailure`, `[]NoEventIsDropped` |
| `ProviderWebhookInbox_proofs!SettledStays` | `Spec => SettledReceiptIsFinal` |
| `NotificationOutbox_proofs!TypeCorrect`, `SentOnce`, `AttemptsExplain` | `Spec => []TypeOK`, `[]SentAgainOnlyAfterFailure`, `[]AttemptsExplainTheRow` |
| `NotificationOutbox_proofs!SettledStays` | `Spec => SettledStaysSettled` |
| `OfferNegotiation_proofs!TypeCorrect`, `OnePending`, `ThreadTells` | `Spec => []TypeOK`, `[]OnePendingOffer`, `[]ThreadTellsTheOffer` |
| `OfferNegotiation_proofs!NegotiationIsSerialized` | `Spec => SerializedNegotiation`: the refinement |
| `DeliveryAssignment_proofs!TypeCorrect`, `OneCourierIsAssigned`, `ChangesAreTold` | `Spec => []TypeOK`, `[]OneCourier`, `[]EveryChangeIsTold` |
| `DeliveryAssignment_proofs!DecisionsAreCurrent`, `AssignmentStays` | `Spec => DecisionsAreNotStale`, `AssignmentIsFinal` |
| `OfferNegotiation_proofs!DeadlocksNeedAnAnswer`, `DeliveryAssignment_proofs!DeadlocksNeedADeparture` | `Spec => []OnlyAnswersDeadlock`, `[]OnlyDeparturesDeadlock` |
| `OfferNegotiation_proofs!DeadlocksAreSeen`, `DeliveryAssignment_proofs!DeadlocksAreSeen` | `Spec => []EveryDeadlockIsSeen` |
| `OrderReturns_proofs!TypeCorrect`, `RefundsFollowReceipts`, `OneRefund` | `Spec => []TypeOK`, `[]RefundFollowsReceipt`, `OneRefundPerReturn` |

*Orders, types.* `TypeOK` is not inductive: that `ClaimRefund` writes a positive amount depends on
what `RefundOrder` and `QuoteRefund` decided steps ago. `TypeInv` adds `WellFormed`, what a request
at each step has read and decided, and `Claimed`, that a request past `claimRefund` has its row.

*Orders, money.* Handlers act on rows read long ago and their updates are blind, so no fact about
the tables alone is inductive. `MoneyInv` states what each *request in flight* and each *event on
its way* may rely on: a request about to record a payment comes from a session that was paid; one
past the provider's transfer has the transfer behind it; a row read with a payment intent belongs
to a collected charge. It is inductive because collections, transfers and ledger rows are never
taken back. One lemma per group of actions; `MoneyInvInductive` puts them together.

*Orders, the escrow account.* Every action is shown to be one operation of `EscrowAccount` or to
leave the account alone. `MoneyInv` does not suffice: a refund credits what the ledger says, and
between the claim and the provider's refund nobody else may change that row or make that refund.
`ClaimInv` says so (`Quoted`: the amount a request carries is within the charge; `Unspent`: the row
of its key says that amount and the provider has no refund for it; `Exclusive`: nobody else holds the key). The cap on the sum comes from the provider (`RefundedAtProvider`,
`MayReverse`), so the theorem holds for refunds that overlap. Sums are folds over a set of keys
in an order that `CHOOSE` fixes. What a proof needs of them is that the sum does not depend on that order and
changes by what one element changes (`SumUpdate`). That asks for induction over the set; it is done
by a smallest counterexample instead: a finite set of subsets that fail has one of least cardinality
(`SameSums`, `SumsExist`), hence `IsFiniteSet(RefundKeys)`, which the model says of the refunds made
in a run and the code of the rows of a table. `Solvent` reads the account as two balances: the buyer holds at
most the charge, once it was collected, and the seller returns at most the payout.

*Orders, settlements.* `Alone(o, p)`: `o` is the one order of the listing, `p` the one request
and no call fails; the job finds no unpaid order. Each premise is needed: two refunds that overlap quote from one
ledger, a failure after the claim leaves a row no refund stands for (section 7). The provider, the
card network and late events still act at every step. `SettleInv` follows `p` from its read
to its record. The row it has read still is the row in the table, up to the columns that events
do not write; at each step it says how far the ledger, the reversals and the running total have
come: the ledger is ahead of the total by the refund in hand, the reversals by the part of the
transfer in hand (`BooksInv`). A refund that fails later stays in the ledger and in the total, so the
theorem says of the provider only what holds where none did. Amounts, fees, the seller's share and the number of keys are
arbitrary, so rounding is covered for all of them.

*Orders, cancellations.* `CheckoutInv` says that whoever is about to write `cancelled` knows that the
checkout has ended: an order without a session has none at the provider either, unless the request
is still making it; the buyer's cancellation has had the session expired; an event that says so tells
the truth; and the job has looked at the provider, or at an order without a session that no request
is at. The number of orders is arbitrary. With two requests, a cancellation can read the order
before the checkout has saved its session. After a failure, an order may lack the session that was
made for it (section 7).

*Lease.* `LeaseIsTheRuns` says that a run which does not know of losing its lease is the holder and
the lease lasts. With one execution per process (`Separate`) a completion or a renewal that the
owner column admits is then the holder's. `Separate` is a premise and not an `ASSUME` of the module,
because the code does not guarantee it (section 7); nothing is claimed of two executions in one
process.

*Inbox.* Leases say nothing, since a batch may outlive its own. `InboxInv` starts from the claim on
the event: a worker inside a handler has a claim that is started and fenced (`InHand`), so a second
one is refused (`OneInside`); an effect was had under a claim that is then completed, or a failure
explains why it was not (`Counted`); without failures a receipt that says processed goes back to a
completed claim (`NothingLost`).

*Outbox.* The owner of a lease is a process, so a run may settle a delivery another run claimed and
no fact about the run alone is inductive. Before the first failure every batch is handled in turn:
what a run has in its batch is leased to it alone and, if it waits to be sent, unsent (`InTurn`).
After it the runs that wait to send a delivery are counted against its attempts: messages sent and runs waiting together never
exceed the attempts (`Counted`), because each entered by a claim that counted one. `Explained`
relates the row to the record of its last attempt.

*Offers.* `LockInv` says which locks a transaction at each step holds and what they keep true: one
that holds the conversation has found no pending offer but the stale ones it expires; one that holds
an offer finds it as it was read. The refinement then has one case per commit; every other step
leaves `offer` alone.

*Deadlocks.* The detector of the models looks at cycles of two transactions (offers) and of two or
three calls (delivery). `EveryDeadlockIsSeen` says that this is enough for any number of them: in
every set of transactions each of which waits for another of the set, one is `Deadlocked`; and
nobody waits for one that is over. `Holders` says at which steps a row is held. From it, every chain
of waiting leads in one step or two to the holder of the conversation (of the request), which
therefore is in every cycle. The other end of the chain is a transaction that holds what comes after
that row in the order of the rest: an answer with its offer locked, a withdrawal with its
application, a deletion with its courier. Without one of them every waiting transaction waits for one
that is further in the order, and the set has no last (`OnlyAnswersDeadlock`,
`OnlyDeparturesDeadlock`). The runs cannot show a cycle of more transactions than they have.

*Delivery.* A call that has the row of the request holds it to the end, so what it checked is so
when it writes, and a version stands for one status (`Own`, `Seen`). `ToldOnce` says that no assignment event exists before the first assignment;
with `OneCourier` it makes the key without a version sufficient.

*Returns.* Requests write over one another, so what lasts carries the proof: a return's `decided`
and `received` are never taken back, a claimed key is never claimed again, a refund that succeeded
stays so (`Row`, `Key`); `Knows` says which of these a request at each step has seen. A request that
asks the provider has claimed its key itself and nobody else is between that claim and the record
(`OneRefunds`), so the provider has no refund of the key yet; `ClaimsStay` adds what each step does to
the ledger. The webhook and the provider's decision disturb none of it, because neither writes a row.

*Only model-checked.* Liveness under fairness, which the prover does not reach: `CheckoutIsSettled`,
`AbandonedOrderIsReleased`, `EveryReceiptIsSettled`, `JobRunsAgain`, `EveryDeliveryIsSettled`. Every other property of a run that passes is a theorem. The
type invariant of the lease, `Solvent` and `EveryDeadlockIsSeen` are proved and have no run.

## 6. Assumptions of the models

- The provider makes one object per idempotency key, never refunds more than the charge, never
  reverses more than a transfer, and never sends an event about something that did not happen.
- A customer pays only at an address handed out after the session's reference was saved.
- An order without a session is cancelled by the job 26 hours after it was made; no request on it
  is in flight by then (`ReconcileOrder`); a buyer may start another one.
- A webhook event is delivered again after its handler threw or died, or is lost; both happen in
  the model of orders (`Throw`). `ProviderWebhookInbox` shows why it may be lost.
- Amounts on events match the order; the branches for mismatching amounts or sessions only throw.
- Row locks are held to the end of a transaction and a statement sees what was committed before it
  (`READ COMMITTED`); the detector ends exactly one of the transactions that wait in a cycle.
- A notification's identifier makes its dispatch idempotent; the provider accepts a message or throws.
- An order whose return was confirmed is read by `refundOrder` as it is then; other handlers move it
  between the statuses that can be refunded and those that cannot (`OrderMovesOn`).
- A handler ends within the five minutes of its claim's fence; receipts' leases may run out.
- A refused renewal and the `leaseLost` flag are one step; a process that restarts keeps its name
  in the model, which a fresh one only makes safer.

## 7. Findings

Each is the counterexample of a run of its own against a sentence of the repository; the sentences
are quoted with their lines in `PROJECT.json`.

1. `orders_refund_after_chargeback`: a lost chargeback leaves the order `disputed`, which
   `refundOrder` accepts, so the buyer can be paid twice.
2. `orders_failed_refund`: a partial refund is pending and then fails at the provider. Its webhook
   writes the order's status and not the row in `order_refunds`, which stays pending for ever and is
   netted off: the refund that closes the order out returns less than what the buyer is owed.
3. `inbox_dropped_event`: the retry of a failed handler comes while its claim still answers
   `IN_PROGRESS`; that is taken for success and the event is never applied.

The models contain other behaviour a reader may not expect, some of it against a comment. It has no
run of its own, and it is why some properties are stated with a premise:

- A *partial* refund reported as succeeded by its webhook writes `refunded` (service, 1491); the
  migration says only a refund of the whole item does (00136:43-45).
- A confirmation that read the order before a dispute event transfers to the seller and writes
  `completed` over `disputed` (service, 671; the comment at 1524-1525 says a dispute blocks the payout).
- A return of an order that is `shipped` or `pin_pending` can be requested (service, 90) and confirmed,
  but not refunded (825): it stays `received` although the comment at 1228 says that the
  confirmation releases the money, and a second confirmation is refused. So does one whose refund is pending
  when it is made: its webhook writes the order, and leaves the return and the ledger as they are.
- A *full* refund that is pending and then fails leaves the order `disputed` with its whole item value
  counted as refunded: `refundOrder` answers that it is already fully refunded (838-849), although
  the buyer has nothing. `RunningTotalMatchesLedger` says what the buyer got only where no refund
  failed.
- Offers that `create_marketplace_offer` expires get no event, unlike those that an answer finds
  expired (00049:3-5 promises an immutable history); an overdue offer that is still pending can be
  withdrawn.
- Two notification runs of one process pass for each other (00050:233 compares the worker id only).
  After one batch outlived its lease they can release each other's leases, and a message may then be
  sent once per attempt with no further failure: `SentAgainOnlyAfterFailure` bounds it by attempts.
- Two refunds with different keys that overlap quote from the same ledger and claim more than the
  charge (`RunningTotalMatchesLedger`); what the provider refunds stays within it.
- After a failure left an order without its session, a buyer may resume the checkout 26 hours later
  just while the job is between its second reading of the order and `cancelled` (service, 1352): the
  session is paid for although the listing was offered again, and both buyers' orders can be paid
  out (`CancelledOrderIsNeverPaid` ends at the first failure).
- `setListingStatus` reads the listing, awaits and writes (service, 2226-2235), whoever changed it in
  between. docs/implementation/global-codebase-cleanup-report.md:344 says that "Listing state
  synchronizes with reservation, cancellation, and sale outcomes." With one order, the `reserved`
  that the job writes after it recorded a payment can replace the `sold` of the confirmation. With three, the job
  that cancels an order reads the listing as reserved by the next one, is suspended until that one
  is paid out and the listing sold, and then writes `published`: a third buyer checks out and pays.
- A failure between `claimRefund` and the provider leaves a ledger row no refund stands for, and a
  retry with its key answers with that row (`RefundsAreClaimedAndCollected` has one direction only).
- A partial refund before the payout counts as reversed, so the closing refund after it takes back
  less than the transfer, and the order says `reversed`.
- After a partial refund the transfer is `partially_reversed`, and a lost chargeback takes back
  nothing more (`LostChargebackRecoversSellerLeg`).
- The expiry event of one buyer's session, handled late, publishes the listing another has reserved.
- Two queue jobs of one name in one process share an owner (one `ownerId` per process; its queue takes
  `config.queueConcurrency` jobs at once and a bootstrap job comes beside the scheduler's). The
  comment of 00072 says that "a worker that loses its lease cannot acknowledge another run" (2-3); the
  owner column cannot tell these two apart, so the one whose lease ended can complete the run of the
  other (`Separate`).

## 8. Not modelled

- *In the order service:* the digital fulfilment branches, PIN attempts and expiry (a
  confirmation has the right code), commission amounts, mismatching amounts, analytics, the limit of
  200 orders per reconciliation batch. `OrderReturns` reduces the order to whether it can be
  returned and refunded; transfers are in `MarketplaceOrders`.
- *In the inbox:* payload hashes, the effects of the several modules an event reaches.
- *In the runtime:* the queue itself. A wake-up that runs a job without its lease is in
  `NotificationOutbox`, where it matters.
- *In the outbox:* preferences, devices, receipts of the push provider, read flags.
- *In messaging:* conversations, messages that are no offers, blocked users, presence.
- *In delivery:* editing drafts, the deletion of the requester, matching and search, the worker that
  drains its outbox.
- *Whole components:* the others of the table in section 1. Digital fulfilment, the commission and
  finance ledgers and the further outboxes are planned. Authentication, storage and rate limits are
  I/O at the edge; verticals, CRM, taxonomy and clients hold no state that these components depend
  on, and most of the code is generated contracts, translations, user interface and validation.

## 9. Plan

Done, in this order: `MarketplaceOrders` with `EscrowAccount`, its types and money; the inbox and
its claim; the lease; the notification outbox; offers as a refinement of a serial negotiation;
delivery assignment; returns; the proofs of each.

Next, the most important first:

1. A composition of the inbox with the orders' handlers, so that a lost event (`Throw`) follows from
   the inbox rather than being assumed, and disputes get a liveness property.
2. `HandoverCode`: attempts, expiry and reissue of the code, whose check and count are two steps.
3. `DigitalFulfilment`: grant, redeem, revoke beside the order's refund.
4. The watch, discovery and IndexNow outboxes as instances of one abstract outbox, which
   `NotificationOutbox` would implement too.
5. `CommissionLedger`: earn and reverse entries keyed by idempotency keys, with refunds in any order.

Theorems to prove next: that a listing is `sold` once an order was paid out, where nobody is between
`FindListing` and `WriteListing`; `Solvent` for the refunds of `OrderReturns`, as an instance of
`EscrowAccount`; the safety core of the liveness properties (a receipt that is leased has a worker or
a time at which it is retaken).
