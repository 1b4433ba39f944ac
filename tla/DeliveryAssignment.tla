------------------------- MODULE DeliveryAssignment -------------------------
(***************************************************************************)
(* One delivery request, the applications of couriers to it and the        *)
(* assignment (migrations 00096 and 00102): the functions of the database  *)
(* as transactions that lock rows one after another and write when they    *)
(* commit.                                                                 *)
(*                                                                         *)
(* An actor decides on the version of the request it has seen.  Accepting  *)
(* locks the request, the application and its courier; a withdrawal comes  *)
(* from the application to the request it refers to, and the deletion of   *)
(* an account from the courier to its applications.                        *)
(***************************************************************************)
EXTENDS Integers, FiniteSets

CONSTANTS
    Request,        \* the row of the request
    Applications,   \* applications there can be
    Couriers,       \* courier profiles
    CourierOf,      \* the courier that makes each application
    Calls,          \* calls of the service that can run at once
    MaxVersion,     \* bound: no suspension begins at a later version
    None

ASSUME DeliveryAssumption ==
    /\ CourierOf \in [Applications -> Couriers]
    /\ Applications \cap Couriers = {}
    /\ Request \notin Applications \cup Couriers
    /\ MaxVersion \in Nat
    /\ None \notin Applications \cup Calls

VARIABLES
    request,     \* delivery_requests: status, selected_application_id, version
    application, \* delivery_applications: the status of each
    active,      \* courier profiles that are active and eligible
    outbox,      \* events and outbox rows that tell a change of the request: those
                 \* with the version in their key, and that of an assignment
    tx,          \* the transaction of each call
    held         \* who holds each row

rows == <<request, application, active, outbox>>
vars == <<rows, tx, held>>

Rows == {Request} \cup Applications \cup Couriers
Statuses == {"draft", "open", "assigned", "picked_up", "in_transit", "delivered",
             "completed", "cancelled", "suspended", "disputed"}
Ended == {"completed", "cancelled"}
Kinds == {"publish", "submit", "withdraw", "accept", "transition", "suspend", "delete"}

Decisions == {"accept", "transition", "suspend"}

\* target: the application, or the courier whose account is deleted.  version and
\* saw: the request as the actor of a decision has seen it.
Idle == [at |-> "idle", kind |-> "publish", target |-> None, version |-> 0, saw |-> "draft"]

Init ==
    /\ request = [status |-> "draft", selected |-> None, version |-> 1]
    /\ application = [a \in Applications |-> "none"]
    /\ active = Couriers
    /\ outbox = [versioned |-> 0, assignment |-> FALSE]
    /\ tx = [x \in Calls |-> Idle]
    /\ held = [r \in Rows |-> None]

Submitted == {a \in Applications : application[a] = "submitted"}

-----------------------------------------------------------------------------
(* Transactions.                                                           *)

Free(x, r) == held[r] \in {None, x}

\* The transaction takes the rows S and goes on.
Lock(x, S, at) ==
    /\ \A r \in S : Free(x, r)
    /\ held' = [r \in Rows |-> IF r \in S THEN x ELSE held[r]]
    /\ tx' = [tx EXCEPT ![x].at = at]

\* COMMIT and ROLLBACK.
End(x) ==
    /\ tx' = [tx EXCEPT ![x] = Idle]
    /\ held' = [r \in Rows |-> IF held[r] = x THEN None ELSE held[r]]

Refuse(x) == End(x) /\ UNCHANGED rows

\* Each function begins with the row it locks first.
First(kind) == CASE kind = "withdraw" -> "application"
                 [] kind = "delete" -> "check"
                 [] OTHER -> "request"

\* A call begins where it may succeed: no request and no application comes back to a
\* status that would have it refused from the start.
Begin(x, kind, target) ==
    /\ tx[x].at = "idle"
    /\ CASE kind = "publish" -> target = None /\ request.status = "draft"
         [] kind = "submit" -> /\ request.status = "open"
                               /\ target \in Applications /\ application[target] = "none"
         [] kind \in {"accept", "withdraw"} -> target \in Submitted
         [] kind = "delete" -> target \in Couriers
         [] kind = "suspend" -> /\ target = None /\ request.status \notin Ended
                                /\ request.version < MaxVersion
         [] kind = "transition" -> target = None /\ request.status \notin Ended
    /\ tx' = [tx EXCEPT ![x] =
                 IF kind \in Decisions
                 THEN [at |-> First(kind), kind |-> kind, target |-> target,
                       version |-> request.version, saw |-> request.status]
                 ELSE [Idle EXCEPT !.at = First(kind), !.kind = kind, !.target = target]]
    /\ UNCHANGED <<rows, held>>

Becomes(status, selected) ==
    request' = [status |-> status, selected |-> selected, version |-> request.version + 1]

\* The request changes, with an event and an outbox row under a key that tells its
\* new version.
Change(status) ==
    /\ Becomes(status, request.selected)
    /\ outbox' = [outbox EXCEPT !.versioned = @ + 1]

-----------------------------------------------------------------------------
(* Functions that lock the request first.                                  *)

\* Mutant: only a published request is compared.
CurrentIfOpen(x) == request.status = "open" => request.version = tx[x].version

\* expectedVersion, or DELIVERY_ASSIGNMENT_CONFLICT.
Current(x) == request.version = tx[x].version

\* publish_delivery_request; an open request is returned as it is.
Publish(x) ==
    /\ tx[x].kind = "publish"
    /\ IF request.status = "draft"
       THEN /\ Change("open")
            /\ End(x)
            /\ UNCHANGED <<application, active>>
       ELSE Refuse(x)

\* submit_delivery_application: an open request, then the profile of the courier.
SubmitTo(x) ==
    /\ tx[x].kind = "submit"
    /\ IF request.status = "open"
       THEN Lock(x, {Request}, "courier") /\ UNCHANGED rows
       ELSE Refuse(x)

\* Mutant: only the version is compared.
AcceptOfAny(x) ==
    /\ tx[x].kind = "accept"
    /\ IF Current(x)
       THEN Lock(x, {Request}, "application") /\ UNCHANGED rows
       ELSE Refuse(x)

\* accept_delivery_application: an open request of that version.
AcceptOf(x) ==
    /\ tx[x].kind = "accept"
    /\ IF request.status = "open" /\ Current(x)
       THEN Lock(x, {Request}, "application") /\ UNCHANGED rows
       ELSE Refuse(x)

\* Mutants: an open request expires, an assigned one is opened again.
AllowedReopened(actor) == IF request.status = "assigned" THEN {"open"} ELSE {}
AllowedExpired(actor) == IF request.status = "open" THEN {"cancelled", "expired"} ELSE {}

\* What the requester and the selected courier may make of the request.
Allowed(actor) ==
    IF actor = "requester"
    THEN CASE request.status \in {"draft", "open", "suspended"} -> {"cancelled"}
           [] request.status \in {"assigned", "picked_up"} -> {"cancelled", "disputed"}
           [] request.status = "in_transit" -> {"disputed"}
           [] request.status = "delivered" -> {"completed", "disputed"}
           [] request.status = "disputed" -> {"completed", "cancelled"}
           [] OTHER -> {}
    ELSE CASE request.status = "assigned" -> {"picked_up", "cancelled", "disputed"}
           [] request.status = "picked_up" -> {"in_transit", "cancelled", "disputed"}
           [] request.status = "in_transit" -> {"delivered", "disputed"}
           [] request.status = "delivered" -> {"disputed"}
           [] OTHER -> {}

Actors == {"requester"} \cup IF request.selected = None THEN {} ELSE {"courier"}

\* transition_delivery_request goes on to the application that was selected.
TransitionOf(x) ==
    /\ tx[x].kind = "transition"
    /\ Lock(x, {Request}, "selected") /\ UNCHANGED rows

\* suspend_unsafe_delivery_request.
Suspend(x) ==
    /\ tx[x].kind = "suspend"
    /\ IF Current(x) /\ request.status \notin Ended
       THEN /\ Change("suspended")
            /\ End(x)
            /\ UNCHANGED <<application, active>>
       ELSE Refuse(x)

\* Mutant: an acceptance locks its application before the request.
LockApplicationFirst(x) ==
    LET a == tx[x].target
    IN  /\ tx[x].at = "request"
        /\ IF tx[x].kind = "accept" /\ held[a] # x
           THEN held[a] = None /\ Lock(x, {a}, "request") /\ UNCHANGED rows
           ELSE /\ held[Request] = None
                /\ Publish(x) \/ SubmitTo(x) \/ AcceptOf(x) \/ TransitionOf(x) \/ Suspend(x)

\* SELECT ... FOR UPDATE of the request, and what the function does up to its next lock.
LockRequest(x) ==
    /\ tx[x].at = "request" /\ held[Request] = None
    /\ Publish(x) \/ SubmitTo(x) \/ AcceptOf(x) \/ TransitionOf(x) \/ Suspend(x)

-----------------------------------------------------------------------------
(* Functions that go on to applications and couriers.                      *)

\* The application that was selected is had FOR SHARE, and the request changes.
Transition(x) ==
    /\ tx[x].at = "selected"
    /\ request.selected # None => Free(x, request.selected)
    /\ \/ /\ Current(x)
          /\ \E actor \in Actors : \E status \in Allowed(actor) : Change(status)
          /\ End(x)
          /\ UNCHANGED <<application, active>>
       \/ Refuse(x)

\* The profile has to be active; the application is inserted, or the acceptance goes
\* on to the other applications.
LockCourier(x) ==
    LET a == tx[x].target
    IN  /\ tx[x].at = "courier" /\ Free(x, CourierOf[a])
        /\ IF CourierOf[a] \notin active
           THEN Refuse(x)
           ELSE IF tx[x].kind = "accept"
           THEN Lock(x, {CourierOf[a]}, "others") /\ UNCHANGED rows
           ELSE /\ application' = [application EXCEPT ![a] = "submitted"]
                /\ End(x)
                /\ UNCHANGED <<request, active, outbox>>

\* The application has to be submitted still when its row is had.
LockApplication(x) ==
    LET a == tx[x].target
    IN  /\ tx[x].at = "application" /\ Free(x, a)
        /\ IF a \notin Submitted
           THEN Refuse(x)
           ELSE /\ Lock(x, {a}, IF tx[x].kind = "accept" THEN "courier" ELSE "event")
                /\ UNCHANGED rows

\* The keys of its event and of its outbox row have no version: under ON CONFLICT DO
\* NOTHING a second assignment would not be told.
Assign(a) ==
    /\ Becomes("assigned", a)
    /\ outbox' = [outbox EXCEPT !.assignment = TRUE]

\* Mutant: the other applications are left as they are.
AcceptOne(x) ==
    LET a == tx[x].target
    IN  /\ tx[x].at = "others"
        /\ application' = [application EXCEPT ![a] = "accepted"]
        /\ Assign(a)
        /\ End(x)
        /\ UNCHANGED active

\* The others are rejected, the request is assigned.
Accept(x) ==
    LET a == tx[x].target
    IN  /\ tx[x].at = "others"
        /\ \A b \in Submitted : Free(x, b)
        /\ application' = [b \in Applications |->
                             IF b = a THEN "accepted"
                             ELSE IF b \in Submitted THEN "rejected" ELSE application[b]]
        /\ Assign(a)
        /\ End(x)
        /\ UNCHANGED active

\* withdraw_delivery_application: its event refers to the request and needs its row.
Withdraw(x) ==
    /\ tx[x].at = "event" /\ Free(x, Request)
    /\ application' = [application EXCEPT ![tx[x].target] = "withdrawn"]
    /\ End(x)
    /\ UNCHANGED <<request, active, outbox>>

\* prepare_delivery_account_deletion: no assignment may be active; nothing is locked.
CheckDeletion(x) ==
    LET a == request.selected
    IN  /\ tx[x].at = "check"
        /\ IF a # None /\ CourierOf[a] = tx[x].target /\ request.status \notin Ended
           THEN Refuse(x)
           ELSE Lock(x, {}, "profile") /\ UNCHANGED rows

DeleteProfile(x) ==
    /\ tx[x].at = "profile"
    /\ Lock(x, {tx[x].target}, "applications")
    /\ UNCHANGED rows

\* All applications of the courier are rewritten; those submitted are withdrawn.
DeleteApplications(x) ==
    LET own == {a \in Applications : CourierOf[a] = tx[x].target /\ application[a] # "none"}
    IN  /\ tx[x].at = "applications"
        /\ \A a \in own : Free(x, a)
        /\ active' = active \ {tx[x].target}
        /\ application' = [a \in Applications |->
                             IF a \in own \cap Submitted THEN "withdrawn" ELSE application[a]]
        /\ End(x)
        /\ UNCHANGED <<request, outbox>>

\* save_delivery_courier_profile pauses a profile or makes it active again.
SaveProfile(c) ==
    /\ held[c] = None
    /\ active' = IF c \in active THEN active \ {c} ELSE active \cup {c}
    /\ UNCHANGED <<request, application, outbox, tx, held>>

-----------------------------------------------------------------------------
(* The database.                                                           *)

\* The calls that hold a row x needs next.
WaitsFor(x) ==
    LET a == tx[x].target
        needs == CASE tx[x].at \in {"request", "event"} -> {Request}
                   [] tx[x].at = "selected" -> {request.selected} \ {None}
                   [] tx[x].at = "application" -> {a}
                   [] tx[x].at = "courier" -> {CourierOf[a]}
                   [] tx[x].at = "others" -> Submitted
                   [] tx[x].at = "profile" -> {a}
                   [] tx[x].at = "applications" -> {b \in Applications : CourierOf[b] = a}
                   [] OTHER -> {}
    IN  {held[r] : r \in needs} \ {None, x}

Deadlocked(x) ==
    \E y, z \in Calls : z \in WaitsFor(x) /\ y \in WaitsFor(z) /\ x \in {y} \cup WaitsFor(y)

\* The detector rolls one of them back.
DetectDeadlock(x) ==
    /\ Deadlocked(x)
    /\ Refuse(x)

Step(x) ==
    \/ LockRequest(x) \/ Transition(x) \/ LockCourier(x) \/ LockApplication(x) \/ Accept(x)
    \/ Withdraw(x) \/ CheckDeletion(x) \/ DeleteProfile(x) \/ DeleteApplications(x)

Next ==
    \/ \E x \in Calls :
        \/ \E kind \in Kinds, target \in Applications \cup Couriers \cup {None} :
              Begin(x, kind, target)
        \/ Step(x) \/ DetectDeadlock(x)
    \/ \E c \in Couriers : SaveProfile(c)

Spec == Init /\ [][Next]_vars

-----------------------------------------------------------------------------
(* Properties.                                                             *)

TypeOK ==
    /\ request \in [status: Statuses, selected: Applications \cup {None}, version: Nat]
    /\ application \in [Applications -> {"none", "submitted", "withdrawn", "accepted", "rejected"}]
    /\ active \in SUBSET Couriers
    /\ outbox \in [versioned: Nat, assignment: BOOLEAN]
    /\ tx \in [Calls -> [at: {"idle", "request", "selected", "courier", "application",
                              "others", "event", "check", "profile", "applications"},
                         kind: Kinds, target: Applications \cup Couriers \cup {None},
                         version: Nat, saw: Statuses]]
    /\ held \in [Rows -> Calls \cup {None}]

\* A request that was ever assigned has one courier: the application it selected is
\* the only accepted one, and no other application waits for an answer, whatever is
\* submitted, withdrawn, paused or deleted meanwhile.
OneCourier ==
    /\ {a \in Applications : application[a] = "accepted"} = {request.selected} \ {None}
    /\ request.selected # None => Submitted = {}
    /\ request.status \in {"draft", "open"} => request.selected = None
    /\ request.status \in {"assigned", "picked_up", "in_transit", "delivered", "disputed",
                           "completed"} => request.selected # None

\* Every change of the request has its event and its outbox row, although the key of
\* an assignment does not tell the version.
EveryChangeIsTold ==
    outbox.versioned + (IF outbox.assignment THEN 1 ELSE 0) = request.version - 1

\* A decision changes the request only as its actor has seen it.
DecisionsAreNotStale ==
    [][\A x \in Calls :
          tx[x].kind \in Decisions /\ tx'[x] = Idle /\ request' # request
             => request.status = tx[x].saw]_vars

\* An assignment is never given to another courier, and a request that ended stays so.
AssignmentIsFinal ==
    [][/\ request.selected # None => request'.selected = request.selected
       /\ request.status \in Ended => request' = request]_vars

\* The locks are ordered but for two functions: whatever calls wait for one another,
\* one of them holds the request, and one is a withdrawal that holds its application or
\* a deletion that holds its courier.  Without those two kinds nothing deadlocks.
OnlyDeparturesDeadlock ==
    \A S \in (SUBSET Calls) \ {{}} :
        (\A x \in S : WaitsFor(x) \cap S # {}) =>
            /\ held[Request] \in S
            /\ \E x \in S : tx[x].at \in {"event", "applications"}

=============================================================================
