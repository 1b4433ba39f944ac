---------------------- MODULE DeliveryAssignment_proofs ----------------------
(***************************************************************************)
(* For any numbers of couriers, applications and overlapping calls: one    *)
(* courier is assigned and stays so, a decision changes the request as its *)
(* actor has seen it, and every change of it is told.                      *)
(*                                                                         *)
(* The argument is about rows and versions.  A call that is past a row     *)
(* holds it, so what it has read of it still is so; and a version stands   *)
(* for one status of the request, because every change counts it up.       *)
(*                                                                         *)
(* The rows also tell who waits for whom: every cycle of calls that wait   *)
(* passes the one that holds the request, and is two or three of them.     *)
(***************************************************************************)
EXTENDS DeliveryAssignment, TLAPS

Steps == {"idle", "request", "selected", "courier", "application", "others", "event",
          "check", "profile", "applications"}

Transaction == [at: Steps, kind: Kinds, target: Applications \cup Couriers \cup {None},
                version: Nat, saw: Statuses]

RequestType == [status: Statuses, selected: Applications \cup {None}, version: Nat]
ApplicationType == [Applications -> {"none", "submitted", "withdrawn", "accepted", "rejected"}]
OutboxType == [versioned: Nat, assignment: BOOLEAN]

Types ==
    /\ request \in RequestType
    /\ application \in ApplicationType
    /\ active \in SUBSET Couriers
    /\ outbox \in OutboxType
    /\ tx \in [Calls -> Transaction]
    /\ held \in [Rows -> Calls \cup {None}]

\* What a call at each step is about.
Target(x) ==
    /\ tx[x].at = "request" /\ tx[x].kind \in {"submit", "accept"} =>
         tx[x].target \in Applications
    /\ tx[x].at = "application" =>
         tx[x].kind \in {"accept", "withdraw"} /\ tx[x].target \in Applications
    /\ tx[x].at = "courier" =>
         tx[x].kind \in {"submit", "accept"} /\ tx[x].target \in Applications
    /\ tx[x].at = "others" => tx[x].kind = "accept" /\ tx[x].target \in Applications
    /\ tx[x].at = "event" => tx[x].kind = "withdraw" /\ tx[x].target \in Applications
    /\ tx[x].at \in {"check", "profile", "applications"} => tx[x].target \in Couriers

\* A call past the request holds it, and the request is open unless it is to change.
OnRequest(x) ==
    /\ tx[x].at \in {"courier", "others"} \/ (tx[x].at = "application" /\ tx[x].kind = "accept")
         => held[Request] = x /\ request.status = "open"
    /\ tx[x].at = "selected" => held[Request] = x

\* A call past its application holds it, and the application waits for an answer.
OnApplication(x) ==
    tx[x].at \in {"event", "others"} \/ (tx[x].at = "courier" /\ tx[x].kind = "accept")
      => held[tx[x].target] = x /\ tx[x].target \in Submitted

\* A version stands for one status.
Seen(x) ==
    tx[x].kind \in Decisions =>
        /\ tx[x].version <= request.version
        /\ tx[x].version = request.version => tx[x].saw = request.status
        /\ tx[x].at \in {"application", "courier", "others"} => tx[x].version = request.version

Own(x) == Target(x) /\ OnRequest(x) /\ OnApplication(x) /\ Seen(x)

ToldOnce == request.selected = None => ~outbox.assignment

AssignmentInv ==
    /\ Types
    /\ \A x \in Calls : Own(x)
    /\ OneCourier
    /\ EveryChangeIsTold
    /\ ToldOnce

-----------------------------------------------------------------------------
(* Rows and transactions.                                                  *)

LEMMA RowsAreKinds ==
    /\ Request \in Rows /\ Applications \subseteq Rows /\ Couriers \subseteq Rows
    /\ Request \notin Applications /\ None \notin Applications /\ None \notin Calls
    /\ \A a \in Applications : CourierOf[a] \in Couriers
  BY DeliveryAssumption DEF Rows

\* A step of a call leaves the other calls what they rely on, as long as it changes
\* no row they hold and counts the version up with every change of the request.
LEMMA OthersKeepTheirs ==
    ASSUME Types, NEW x \in Calls, NEW y \in Calls, Own(y), tx'[y] = tx[y],
           \A r \in Rows : held[r] = y => held'[r] = y,
           held[Request] = y => request' = request,
           request' = request \/ request'.version = request.version + 1,
           \A a \in Submitted : held[a] = y => a \in Submitted'
    PROVE  Own(y)'
<1> USE RowsAreKinds
<1>1. Target(y)'
  BY DEF Own, Target
<1>2. OnRequest(y)'
  BY DEF Own, OnRequest
<1>3. OnApplication(y)'
  <2> SUFFICES ASSUME tx'[y].at \in {"event", "others"}
                        \/ (tx'[y].at = "courier" /\ tx'[y].kind = "accept")
               PROVE  held'[tx'[y].target] = y /\ tx'[y].target \in Submitted'
    BY DEF OnApplication
  <2>1. held[tx[y].target] = y /\ tx[y].target \in Submitted
    BY DEF Own, OnApplication
  <2>2. tx[y].target \in Rows
    BY <2>1 DEF Submitted
  <2> QED
    BY <2>1, <2>2
<1>4. Seen(y)'
  <2>1. CASE request' = request
    BY <2>1 DEF Own, Seen
  <2>2. CASE request'.version = request.version + 1 /\ held[Request] # y
    <3>1. tx[y] \in Transaction /\ request.version \in Nat
      BY DEF Types, RequestType
    <3>2. tx[y].version \in Nat
      BY <3>1 DEF Transaction
    <3>3. ~(tx[y].kind = "accept" /\ tx[y].at \in {"application", "courier", "others"})
      BY <2>2 DEF Own, OnRequest
    <3>4. tx[y].kind \in Decisions => tx[y].version <= request.version
      BY DEF Own, Seen
    <3>5. tx[y].kind \in Decisions /\ tx[y].at \in {"application", "courier", "others"}
            => tx[y].kind = "accept"
      BY DEF Own, Target, Decisions
    <3> QED
      BY <2>2, <3>1, <3>2, <3>3, <3>4, <3>5 DEF Seen
  <2> QED
    BY <2>1, <2>2
<1> QED
  BY <1>1, <1>2, <1>3, <1>4 DEF Own

LEMMA EndReleases ==
    ASSUME Types, NEW x \in Calls, End(x)
    PROVE  /\ tx' \in [Calls -> Transaction] /\ held' \in [Rows -> Calls \cup {None}]
           /\ tx'[x] = Idle /\ Own(x)'
           /\ \A y \in Calls \ {x} : tx'[y] = tx[y]
           /\ \A y \in Calls \ {x} : \A r \in Rows : held[r] = y => held'[r] = y
<1>1. Idle \in Transaction
  BY DEF Idle, Transaction, Steps, Kinds, Statuses
<1>2. /\ tx' \in [Calls -> Transaction] /\ tx'[x] = Idle
      /\ \A y \in Calls \ {x} : tx'[y] = tx[y]
  BY <1>1 DEF Types, End
<1>3. /\ held' \in [Rows -> Calls \cup {None}]
      /\ \A y \in Calls \ {x} : \A r \in Rows : held[r] = y => held'[r] = y
  BY DEF Types, End
<1>4. Own(x)'
  BY <1>2 DEF Idle, Own, Target, OnRequest, OnApplication, Seen, Decisions
<1> QED
  BY <1>2, <1>3, <1>4

\* A commit keeps the invariant if what it writes does.
LEMMA CommitKeepsInv ==
    ASSUME AssignmentInv, NEW x \in Calls, End(x),
           request' \in RequestType, application' \in ApplicationType,
           active' \in SUBSET Couriers, outbox' \in OutboxType,
           \A y \in Calls \ {x} : held[Request] = y => request' = request,
           request' = request \/ request'.version = request.version + 1,
           \A y \in Calls \ {x} : \A a \in Submitted : held[a] = y => a \in Submitted',
           OneCourier', EveryChangeIsTold', ToldOnce'
    PROVE  AssignmentInv'
<1>1. Types'
  BY EndReleases DEF AssignmentInv, Types
<1>2. ASSUME NEW y \in Calls, y # x PROVE Own(y)'
  BY <1>2, EndReleases, OthersKeepTheirs DEF AssignmentInv
<1>3. Own(x)'
  BY EndReleases DEF AssignmentInv
<1> QED
  BY <1>1, <1>2, <1>3 DEF AssignmentInv

LEMMA RefuseKeepsInv ==
    ASSUME AssignmentInv, NEW x \in Calls, Refuse(x)
    PROVE  AssignmentInv'
<1>1. End(x) /\ UNCHANGED <<request, application, active, outbox>>
  BY DEF Refuse, rows
<1>2. OneCourier' /\ EveryChangeIsTold' /\ ToldOnce' /\ Submitted' = Submitted
  BY <1>1 DEF AssignmentInv, OneCourier, EveryChangeIsTold, ToldOnce, Submitted
<1> QED
  BY <1>1, <1>2, CommitKeepsInv DEF AssignmentInv, Types

\* A call that moves on keeps the invariant if it has what it needs at its next step.
LEMMA MoveKeepsInv ==
    ASSUME AssignmentInv, NEW x \in Calls, UNCHANGED rows,
           tx' \in [Calls -> Transaction], held' \in [Rows -> Calls \cup {None}],
           \A y \in Calls \ {x} : tx'[y] = tx[y],
           \A y \in Calls \ {x} : \A r \in Rows : held[r] = y => held'[r] = y,
           Own(x)'
    PROVE  AssignmentInv'
<1>1. UNCHANGED <<request, application, active, outbox>> /\ Submitted' = Submitted
  BY DEF rows, Submitted
<1>2. OneCourier' /\ EveryChangeIsTold' /\ ToldOnce' /\ Types'
  BY <1>1 DEF AssignmentInv, OneCourier, EveryChangeIsTold, ToldOnce, Submitted, Types
<1>3. ASSUME NEW y \in Calls, y # x PROVE Own(y)'
  BY <1>1, <1>3, OthersKeepTheirs DEF AssignmentInv
<1> QED
  BY <1>2, <1>3 DEF AssignmentInv

LEMMA LockTakes ==
    ASSUME Types, NEW x \in Calls, NEW S \in SUBSET Rows, NEW at \in Steps, Lock(x, S, at)
    PROVE  /\ tx' \in [Calls -> Transaction] /\ held' \in [Rows -> Calls \cup {None}]
           /\ \A y \in Calls \ {x} : tx'[y] = tx[y]
           /\ \A y \in Calls \ {x} : \A r \in Rows : held[r] = y => held'[r] = y
           /\ \A r \in Rows : held[r] = x \/ r \in S => held'[r] = x
           /\ tx'[x].at = at /\ tx'[x].kind = tx[x].kind /\ tx'[x].target = tx[x].target
           /\ tx'[x].version = tx[x].version /\ tx'[x].saw = tx[x].saw
<1> USE RowsAreKinds
<1> DEFINE t == [tx[x] EXCEPT !.at = at]
<1>1. tx \in [Calls -> Transaction] /\ tx[x] \in Transaction
  BY DEF Types
<1>2. t \in Transaction /\ t.at = at /\ t.kind = tx[x].kind /\ t.target = tx[x].target
      /\ t.version = tx[x].version /\ t.saw = tx[x].saw
  BY <1>1 DEF Transaction
<1>3. tx' = [tx EXCEPT ![x] = t]
  BY <1>1 DEF Lock
<1> HIDE DEF t
<1>4. held' = [r \in Rows |-> IF r \in S THEN x ELSE held[r]] /\ \A r \in S : Free(x, r)
  BY DEF Lock
<1>5. /\ held' \in [Rows -> Calls \cup {None}]
      /\ \A y \in Calls \ {x} : \A r \in Rows : held[r] = y => held'[r] = y
      /\ \A r \in Rows : held[r] = x \/ r \in S => held'[r] = x
  BY <1>4 DEF Free, Types
<1> QED
  BY <1>1, <1>2, <1>3, <1>5

LEMMA BeginKeepsInv ==
    ASSUME AssignmentInv, NEW x \in Calls, NEW kind \in Kinds,
           NEW target \in Applications \cup Couriers \cup {None}, Begin(x, kind, target)
    PROVE  AssignmentInv'
<1> USE RowsAreKinds
<1> DEFINE t == IF kind \in Decisions
                THEN [at |-> First(kind), kind |-> kind, target |-> target,
                      version |-> request.version, saw |-> request.status]
                ELSE [Idle EXCEPT !.at = First(kind), !.kind = kind, !.target = target]
<1>1. tx' = [tx EXCEPT ![x] = t] /\ UNCHANGED <<rows, held>>
  BY DEF Begin
<1>2. First(kind) \in Steps
  BY DEF First, Steps
<1>3. request.version \in Nat /\ request.status \in Statuses
  BY DEF AssignmentInv, Types, RequestType
<1>4. t \in Transaction
  BY <1>2, <1>3 DEF Transaction, Idle, Statuses
<1>5. /\ t.at = First(kind) /\ t.kind = kind /\ t.target = target
      /\ kind \in Decisions => t.version = request.version /\ t.saw = request.status
  BY DEF Idle
<1> HIDE DEF t
<1>6. tx' \in [Calls -> Transaction] /\ \A y \in Calls \ {x} : tx'[y] = tx[y]
  BY <1>1, <1>4 DEF AssignmentInv, Types
<1>7. tx'[x] = t
  BY <1>1 DEF AssignmentInv, Types
<1>8. /\ kind \in {"submit", "accept", "withdraw"} => target \in Applications
      /\ kind = "delete" => target \in Couriers
  BY DEF Begin, Submitted, Kinds
<1>9. Target(x)' /\ OnRequest(x)' /\ OnApplication(x)'
  BY <1>5, <1>7, <1>8 DEF Target, OnRequest, OnApplication, First, Kinds
<1>10. Seen(x)'
  BY <1>1, <1>3, <1>5, <1>7 DEF Seen, First, Decisions, rows
<1> QED
  BY <1>1, <1>6, <1>9, <1>10, MoveKeepsInv DEF Own, AssignmentInv, Types

-----------------------------------------------------------------------------
(* The request.                                                            *)

\* Nobody else holds the request, and a change counts up its version and is told.
LEMMA ChangeKeepsInv ==
    ASSUME AssignmentInv, NEW x \in Calls, held[Request] \in {None, x}, End(x),
           NEW status \in Statuses, Change(status), UNCHANGED <<application, active>>,
           status \in {"draft", "open"} => request.selected = None,
           status \in {"assigned", "picked_up", "in_transit", "delivered", "disputed",
                       "completed"} => request.selected # None
    PROVE  AssignmentInv'
<1> USE RowsAreKinds
<1>1. request \in RequestType /\ outbox \in OutboxType /\ application \in ApplicationType
      /\ active \in SUBSET Couriers
  BY DEF AssignmentInv, Types
<1>2. request' = [status |-> status, selected |-> request.selected,
                  version |-> request.version + 1]
  BY DEF Change, Becomes
<1>3. outbox' = [outbox EXCEPT !.versioned = @ + 1]
  BY DEF Change
<1>4. request' \in RequestType /\ outbox' \in OutboxType
  BY <1>1, <1>2, <1>3 DEF RequestType, OutboxType
<1>5. Submitted' = Submitted
  BY DEF Submitted
<1>6. OneCourier'
  BY <1>2, <1>5 DEF AssignmentInv, OneCourier
<1>7. EveryChangeIsTold'
  <2>1. /\ outbox.versioned \in Nat /\ request.version \in Nat
        /\ outbox'.versioned = outbox.versioned + 1 /\ outbox'.assignment = outbox.assignment
        /\ request'.version = request.version + 1
    BY <1>1, <1>2, <1>3 DEF RequestType, OutboxType
  <2> QED
    BY <2>1 DEF AssignmentInv, EveryChangeIsTold
<1>8. ToldOnce'
  BY <1>1, <1>2, <1>3 DEF AssignmentInv, ToldOnce, OutboxType
<1>9. request'.version = request.version + 1
  BY <1>2
<1>10. \A y \in Calls \ {x} : held[Request] # y
  OBVIOUS
<1> QED
  BY <1>1, <1>4, <1>5, <1>6, <1>7, <1>8, <1>9, <1>10, CommitKeepsInv

LEMMA LockRequestKeepsInv ==
    ASSUME AssignmentInv, NEW x \in Calls, LockRequest(x)
    PROVE  AssignmentInv'
<1> USE RowsAreKinds
<1>1. tx[x].at = "request" /\ held[Request] = None
  BY DEF LockRequest
<1>2. Own(x) /\ OneCourier /\ Types /\ request.version \in Nat
  BY DEF AssignmentInv, Types, RequestType
<1>3. CASE Publish(x)
  <2>1. CASE request.status = "draft"
    BY <1>1, <1>2, <1>3, <2>1, ChangeKeepsInv DEF Publish, OneCourier, Statuses
  <2>2. CASE request.status # "draft"
    BY <1>3, <2>2, RefuseKeepsInv DEF Publish
  <2> QED
    BY <2>1, <2>2
<1>4. CASE SubmitTo(x)
  <2>1. CASE request.status = "open"
    <3>1. Lock(x, {Request}, "courier") /\ UNCHANGED rows /\ tx[x].kind = "submit"
      BY <1>4, <2>1 DEF SubmitTo
    <3>2. Own(x)'
      BY <1>1, <1>2, <2>1, <3>1, LockTakes
         DEF Steps, Own, Target, OnRequest, OnApplication, Seen, Decisions, rows
    <3> QED
      BY <1>2, <3>1, <3>2, LockTakes, MoveKeepsInv DEF Steps
  <2>2. CASE request.status # "open"
    BY <1>4, <2>2, RefuseKeepsInv DEF SubmitTo
  <2> QED
    BY <2>1, <2>2
<1>5. CASE AcceptOf(x)
  <2>1. CASE request.status = "open" /\ Current(x)
    <3>1. Lock(x, {Request}, "application") /\ UNCHANGED rows /\ tx[x].kind = "accept"
      BY <1>5, <2>1 DEF AcceptOf
    <3>2. Own(x)'
      BY <1>1, <1>2, <2>1, <3>1, LockTakes
         DEF Steps, Own, Target, OnRequest, OnApplication, Seen, Decisions, Current, rows
    <3> QED
      BY <1>2, <3>1, <3>2, LockTakes, MoveKeepsInv DEF Steps
  <2>2. CASE ~(request.status = "open" /\ Current(x))
    BY <1>5, <2>2, RefuseKeepsInv DEF AcceptOf
  <2> QED
    BY <2>1, <2>2
<1>6. CASE TransitionOf(x)
  <2>1. Lock(x, {Request}, "selected") /\ UNCHANGED rows /\ tx[x].kind = "transition"
    BY <1>6 DEF TransitionOf
  <2>2. Own(x)'
    BY <1>1, <1>2, <2>1, LockTakes
       DEF Steps, Own, Target, OnRequest, OnApplication, Seen, Decisions, rows
  <2> QED
    BY <1>2, <2>1, <2>2, LockTakes, MoveKeepsInv DEF Steps
<1>7. CASE Suspend(x)
  <2>1. CASE Current(x) /\ request.status \notin Ended
    BY <1>1, <1>2, <1>7, <2>1, ChangeKeepsInv DEF Suspend, Statuses
  <2>2. CASE ~(Current(x) /\ request.status \notin Ended)
    BY <1>7, <2>2, RefuseKeepsInv DEF Suspend
  <2> QED
    BY <2>1, <2>2
<1> QED
  BY <1>3, <1>4, <1>5, <1>6, <1>7 DEF LockRequest

LEMMA TransitionKeepsInv ==
    ASSUME AssignmentInv, NEW x \in Calls, Transition(x)
    PROVE  AssignmentInv'
<1>1. tx[x].at = "selected" /\ Own(x) /\ OneCourier
  BY DEF Transition, AssignmentInv
<1>2. held[Request] = x
  BY <1>1 DEF Own, OnRequest
<1>3. CASE Refuse(x)
  BY <1>3, RefuseKeepsInv
<1>4. CASE ~Refuse(x)
  <2>1. PICK actor \in Actors : \E status \in Allowed(actor) : Change(status)
    BY <1>4 DEF Transition
  <2>2. PICK status \in Allowed(actor) : Change(status)
    BY <2>1
  <2>3. End(x) /\ UNCHANGED <<application, active>>
    BY <1>4 DEF Transition
  <2>4. status \in Statuses /\ status \notin {"draft", "open"}
    BY DEF Allowed, Statuses
  <2>5. status \in {"assigned", "picked_up", "in_transit", "delivered", "disputed",
                    "completed"} => request.selected # None
    BY <1>1 DEF Allowed, OneCourier
  <2> QED
    BY <1>2, <2>2, <2>3, <2>4, <2>5, ChangeKeepsInv
<1> QED
  BY <1>3, <1>4

-----------------------------------------------------------------------------
(* Applications and couriers.                                              *)

LEMMA LockCourierKeepsInv ==
    ASSUME AssignmentInv, NEW x \in Calls, LockCourier(x)
    PROVE  AssignmentInv'
<1> USE RowsAreKinds
<1> DEFINE a == tx[x].target
<1>1. tx[x].at = "courier" /\ Own(x) /\ OneCourier /\ Types
  BY DEF LockCourier, AssignmentInv
<1>2. a \in Applications /\ CourierOf[a] \in Rows /\ request.status = "open"
      /\ held[Request] = x /\ tx[x].kind \in {"submit", "accept"}
  BY <1>1 DEF Own, Target, OnRequest
<1>3. CASE CourierOf[a] \notin active
  BY <1>3, RefuseKeepsInv DEF LockCourier
<1>4. CASE CourierOf[a] \in active /\ tx[x].kind = "accept"
  <2>1. Lock(x, {CourierOf[a]}, "others") /\ UNCHANGED rows
    BY <1>4 DEF LockCourier
  <2>2. held[a] = x /\ a \in Submitted
    BY <1>1, <1>4 DEF Own, OnApplication
  <2>3. Submitted' = Submitted /\ request' = request
    BY <2>1 DEF Submitted, rows
  <2>4. Own(x)'
    BY <1>1, <1>2, <1>4, <2>1, <2>2, <2>3, LockTakes
       DEF Steps, Own, Target, OnRequest, OnApplication, Seen
  <2> QED
    BY <1>1, <1>2, <2>1, <2>4, LockTakes, MoveKeepsInv DEF Steps
<1>5. CASE CourierOf[a] \in active /\ tx[x].kind = "submit"
  <2>1. /\ application' = [application EXCEPT ![a] = "submitted"] /\ End(x)
        /\ UNCHANGED <<request, active, outbox>>
    BY <1>5 DEF LockCourier
  <2>2. application' \in ApplicationType
    BY <1>1, <1>2, <2>1 DEF Types, ApplicationType
  <2>3. \A b \in Submitted : b \in Submitted'
    BY <1>1, <1>2, <2>1 DEF Submitted, Types, ApplicationType
  <2>4. request.selected = None
    BY <1>1, <1>2 DEF OneCourier
  <2>5. {b \in Applications : application'[b] = "accepted"} = {}
    BY <1>1, <1>2, <2>1, <2>4 DEF OneCourier, Types, ApplicationType
  <2>6. OneCourier'
    BY <1>1, <2>1, <2>4, <2>5 DEF OneCourier
  <2>7. EveryChangeIsTold' /\ ToldOnce'
    BY <2>1 DEF AssignmentInv, EveryChangeIsTold, ToldOnce
  <2> QED
    BY <1>1, <2>1, <2>2, <2>3, <2>6, <2>7, CommitKeepsInv DEF Types
<1> QED
  BY <1>2, <1>3, <1>4, <1>5

LEMMA LockApplicationKeepsInv ==
    ASSUME AssignmentInv, NEW x \in Calls, LockApplication(x)
    PROVE  AssignmentInv'
<1> USE RowsAreKinds
<1> DEFINE a == tx[x].target
           at == IF tx[x].kind = "accept" THEN "courier" ELSE "event"
<1>1. tx[x].at = "application" /\ Own(x) /\ Types
  BY DEF LockApplication, AssignmentInv
<1>2. a \in Rows /\ a \in Applications /\ tx[x].kind \in {"accept", "withdraw"}
  BY <1>1 DEF Own, Target
<1>3. CASE a \notin Submitted
  BY <1>3, RefuseKeepsInv DEF LockApplication
<1>4. CASE a \in Submitted
  <2>1. Lock(x, {a}, at) /\ UNCHANGED rows
    BY <1>4 DEF LockApplication
  <2>2. Submitted' = Submitted /\ request' = request
    BY <2>1 DEF Submitted, rows
  <2>3. at \in Steps /\ {a} \in SUBSET Rows
        /\ at = IF tx[x].kind = "accept" THEN "courier" ELSE "event"
    BY <1>2 DEF Steps
  <2> HIDE DEF at
  <2>4. /\ tx' \in [Calls -> Transaction] /\ held' \in [Rows -> Calls \cup {None}]
        /\ \A y \in Calls \ {x} : tx'[y] = tx[y]
        /\ \A y \in Calls \ {x} : \A r \in Rows : held[r] = y => held'[r] = y
        /\ \A r \in Rows : held[r] = x \/ r \in {a} => held'[r] = x
        /\ tx'[x].at = at /\ tx'[x].kind = tx[x].kind /\ tx'[x].target = a
        /\ tx'[x].version = tx[x].version /\ tx'[x].saw = tx[x].saw
    <3> DEFINE S == {a}
    <3>1. S \in SUBSET Rows /\ Lock(x, S, at) /\ Types /\ at \in Steps
      BY <1>1, <2>1, <2>3
    <3> HIDE DEF S
    <3>2. /\ tx' \in [Calls -> Transaction] /\ held' \in [Rows -> Calls \cup {None}]
          /\ \A y \in Calls \ {x} : tx'[y] = tx[y]
          /\ \A y \in Calls \ {x} : \A r \in Rows : held[r] = y => held'[r] = y
          /\ \A r \in Rows : held[r] = x \/ r \in S => held'[r] = x
          /\ tx'[x].at = at /\ tx'[x].kind = tx[x].kind /\ tx'[x].target = tx[x].target
          /\ tx'[x].version = tx[x].version /\ tx'[x].saw = tx[x].saw
      BY <3>1, LockTakes
    <3> QED
      BY <3>2 DEF S
  <2>5. Own(x)'
    BY <1>1, <1>2, <1>4, <2>2, <2>3, <2>4
       DEF Own, Target, OnRequest, OnApplication, Seen, Decisions
  <2> QED
    BY <2>1, <2>4, <2>5, MoveKeepsInv
<1> QED
  BY <1>3, <1>4

LEMMA AcceptKeepsInv ==
    ASSUME AssignmentInv, NEW x \in Calls, Accept(x)
    PROVE  AssignmentInv'
<1> USE RowsAreKinds
<1> DEFINE a == tx[x].target
<1>1. tx[x].at = "others" /\ End(x) /\ UNCHANGED active /\ \A b \in Submitted : Free(x, b)
  BY DEF Accept
<1>2. application' = [b \in Applications |->
                        IF b = a THEN "accepted"
                        ELSE IF b \in Submitted THEN "rejected" ELSE application[b]]
  BY DEF Accept
<1>3. /\ request' = [status |-> "assigned", selected |-> a, version |-> request.version + 1]
      /\ outbox' = [outbox EXCEPT !.assignment = TRUE]
  BY DEF Accept, Assign, Becomes
<1>4. Own(x) /\ OneCourier /\ Types /\ ToldOnce /\ EveryChangeIsTold
  BY DEF AssignmentInv
<1>5. a \in Applications /\ held[Request] = x /\ request.status = "open"
  BY <1>1, <1>4 DEF Own, Target, OnRequest
<1>6. request.selected = None /\ ~outbox.assignment
  BY <1>4, <1>5 DEF OneCourier, ToldOnce
<1>7. application' \in ApplicationType
  BY <1>2, <1>4 DEF Types, ApplicationType
<1>8. request' \in RequestType
  BY <1>3, <1>4, <1>5 DEF Types, RequestType, Statuses
<1>9. outbox' \in OutboxType /\ outbox'.versioned = outbox.versioned /\ outbox'.assignment
  BY <1>3, <1>4 DEF Types, OutboxType
<1>10. OneCourier'
  <2>1. \A b \in Applications : application[b] # "accepted"
    BY <1>4, <1>6 DEF OneCourier
  <2>2. \A b \in Applications : application'[b] = "accepted" <=> b = a
    BY <1>2, <2>1
  <2>3. Submitted' = {}
    BY <1>2 DEF Submitted
  <2> QED
    BY <1>3, <1>5, <2>2, <2>3 DEF OneCourier
<1>11. EveryChangeIsTold'
  <2>1. outbox.versioned \in Nat /\ request.version \in Nat
        /\ request'.version = request.version + 1
    BY <1>3, <1>4 DEF Types, OutboxType, RequestType
  <2> QED
    BY <1>4, <1>6, <1>9, <2>1 DEF EveryChangeIsTold
<1>12. ToldOnce'
  BY <1>3, <1>5 DEF ToldOnce
<1>13. \A y \in Calls \ {x} : held[Request] # y /\ \A b \in Submitted : held[b] # y
  BY <1>1, <1>5 DEF Free
<1>14. request'.version = request.version + 1
  BY <1>3
<1> QED
  BY <1>1, <1>4, <1>7, <1>8, <1>9, <1>10, <1>11, <1>12, <1>13, <1>14, CommitKeepsInv DEF Types

\* Applications that no other call holds are withdrawn.
LEMMA WithdrawalKeepsInv ==
    ASSUME AssignmentInv, NEW x \in Calls, End(x), UNCHANGED <<request, outbox>>,
           active' \in SUBSET Couriers, NEW gone \in SUBSET Submitted,
           \A a \in gone : held[a] \in {None, x},
           application' = [a \in Applications |->
                             IF a \in gone THEN "withdrawn" ELSE application[a]]
    PROVE  AssignmentInv'
<1> USE RowsAreKinds
<1>1. OneCourier /\ Types
  BY DEF AssignmentInv
<1>2. application' \in ApplicationType
  BY <1>1 DEF Types, ApplicationType
<1>3. Submitted' = Submitted \ gone
  BY <1>1 DEF Submitted
<1>4. \A a \in Applications : application'[a] = "accepted" <=> application[a] = "accepted"
  BY <1>1 DEF Submitted
<1>5. OneCourier'
  BY <1>1, <1>3, <1>4 DEF OneCourier
<1>6. EveryChangeIsTold' /\ ToldOnce'
  BY DEF AssignmentInv, EveryChangeIsTold, ToldOnce
<1>7. \A y \in Calls \ {x} : \A a \in Submitted : held[a] = y => a \in Submitted'
  BY <1>3
<1> QED
  BY <1>1, <1>2, <1>5, <1>6, <1>7, CommitKeepsInv DEF Types

LEMMA WithdrawKeepsInv ==
    ASSUME AssignmentInv, NEW x \in Calls, Withdraw(x)
    PROVE  AssignmentInv'
<1> DEFINE a == tx[x].target
<1>1. tx[x].at = "event" /\ End(x) /\ UNCHANGED <<request, active, outbox>>
      /\ application' = [application EXCEPT ![a] = "withdrawn"]
  BY DEF Withdraw
<1>2. a \in Submitted /\ held[a] = x /\ Types
  BY <1>1 DEF AssignmentInv, Own, OnApplication
<1>3. application' = [b \in Applications |-> IF b \in {a} THEN "withdrawn" ELSE application[b]]
  BY <1>1, <1>2 DEF Types, ApplicationType
<1>4. {a} \in SUBSET Submitted /\ \A b \in {a} : held[b] \in {None, x}
  BY <1>2
<1> QED
  BY <1>1, <1>2, <1>3, <1>4, WithdrawalKeepsInv DEF Types

LEMMA DeletionKeepsInv ==
    ASSUME AssignmentInv, NEW x \in Calls,
           CheckDeletion(x) \/ DeleteProfile(x) \/ DeleteApplications(x)
    PROVE  AssignmentInv'
<1> USE RowsAreKinds
<1>1. Own(x) /\ Types
  BY DEF AssignmentInv
<1>2. CASE CheckDeletion(x)
  <2>1. CASE Refuse(x)
    BY <2>1, RefuseKeepsInv
  <2>2. CASE Lock(x, {}, "profile") /\ UNCHANGED rows
    <3>1. tx[x].at = "check" /\ tx[x].target \in Couriers
      BY <1>1, <1>2 DEF CheckDeletion, Own, Target
    <3>2. Own(x)'
      BY <1>1, <2>2, <3>1, LockTakes
         DEF Steps, Own, Target, OnRequest, OnApplication, Seen, rows
    <3> QED
      BY <1>1, <2>2, <3>2, LockTakes, MoveKeepsInv DEF Steps
  <2> QED
    BY <1>2, <2>1, <2>2 DEF CheckDeletion
<1>3. CASE DeleteProfile(x)
  <2>1. tx[x].at = "profile" /\ Lock(x, {tx[x].target}, "applications") /\ UNCHANGED rows
    BY <1>3 DEF DeleteProfile
  <2>2. tx[x].target \in Couriers
    BY <1>1, <2>1 DEF Own, Target
  <2>3. {tx[x].target} \in SUBSET Rows
    BY <2>2
  <2>4. Own(x)'
    BY <1>1, <2>1, <2>2, <2>3, LockTakes
       DEF Steps, Own, Target, OnRequest, OnApplication, Seen, rows
  <2> QED
    BY <1>1, <2>1, <2>3, <2>4, LockTakes, MoveKeepsInv DEF Steps
<1>4. CASE DeleteApplications(x)
  <2> DEFINE own == {a \in Applications : CourierOf[a] = tx[x].target
                                          /\ application[a] # "none"}
             gone == own \cap Submitted
  <2>1. /\ \A a \in own : Free(x, a)
        /\ active' = active \ {tx[x].target} /\ End(x) /\ UNCHANGED <<request, outbox>>
        /\ application' = [a \in Applications |->
                             IF a \in gone THEN "withdrawn" ELSE application[a]]
    BY <1>4 DEF DeleteApplications
  <2>2. gone \in SUBSET Submitted /\ \A a \in gone : held[a] \in {None, x}
    BY <2>1 DEF Free
  <2>3. active' \in SUBSET Couriers
    BY <1>1, <2>1 DEF Types
  <2> HIDE DEF gone
  <2> QED
    BY <2>1, <2>2, <2>3, WithdrawalKeepsInv
<1> QED
  BY <1>2, <1>3, <1>4

-----------------------------------------------------------------------------
(* The invariant and what follows from it.                                 *)

LEMMA InitHolds == Init => AssignmentInv
<1> SUFFICES ASSUME Init PROVE AssignmentInv
  OBVIOUS
<1>1. Types
  BY DEF Init, Types, RequestType, ApplicationType, OutboxType, Transaction, Idle, Steps,
         Kinds, Statuses
<1>2. \A x \in Calls : Own(x)
  BY DEF Init, Idle, Own, Target, OnRequest, OnApplication, Seen, Decisions
<1>3. OneCourier /\ EveryChangeIsTold /\ ToldOnce
  BY DEF Init, OneCourier, EveryChangeIsTold, ToldOnce, Submitted
<1> QED
  BY <1>1, <1>2, <1>3 DEF AssignmentInv

LEMMA StepKeepsInv ==
    ASSUME AssignmentInv, NEW x \in Calls, Step(x)
    PROVE  AssignmentInv'
  BY LockRequestKeepsInv, TransitionKeepsInv, LockCourierKeepsInv, LockApplicationKeepsInv,
     AcceptKeepsInv, WithdrawKeepsInv, DeletionKeepsInv DEF Step

LEMMA NextKeepsInv == AssignmentInv /\ [Next]_vars => AssignmentInv'
<1> SUFFICES ASSUME AssignmentInv, [Next]_vars PROVE AssignmentInv'
  OBVIOUS
<1>1. ASSUME NEW x \in Calls, NEW kind \in Kinds,
             NEW target \in Applications \cup Couriers \cup {None}, Begin(x, kind, target)
      PROVE  AssignmentInv'
  BY <1>1, BeginKeepsInv
<1>2. ASSUME NEW x \in Calls, Step(x) PROVE AssignmentInv'
  BY <1>2, StepKeepsInv
<1>3. ASSUME NEW x \in Calls, DetectDeadlock(x) PROVE AssignmentInv'
  BY <1>3, RefuseKeepsInv DEF DetectDeadlock
<1>4. ASSUME UNCHANGED <<request, application, outbox, tx, held>>,
             active' \in SUBSET Couriers
      PROVE  AssignmentInv'
  <2>1. Types'
    BY <1>4 DEF AssignmentInv, Types
  <2>2. \A x \in Calls : Own(x)'
    BY <1>4 DEF AssignmentInv, Own, Target, OnRequest, OnApplication, Seen, Submitted
  <2>3. OneCourier' /\ EveryChangeIsTold' /\ ToldOnce'
    BY <1>4 DEF AssignmentInv, OneCourier, EveryChangeIsTold, ToldOnce, Submitted
  <2> QED
    BY <2>1, <2>2, <2>3 DEF AssignmentInv
<1>5. ASSUME NEW c \in Couriers, SaveProfile(c) PROVE AssignmentInv'
  BY <1>4, <1>5 DEF SaveProfile, AssignmentInv, Types
<1>6. CASE UNCHANGED vars
  BY <1>4, <1>6 DEF vars, rows, AssignmentInv, Types
<1> QED
  BY <1>1, <1>2, <1>3, <1>5, <1>6 DEF Next

LEMMA RowsAreHeld == Spec => []AssignmentInv
  BY InitHolds, NextKeepsInv, PTL DEF Spec

\* The request, its applications, couriers, calls and locks keep their types.
THEOREM TypeCorrect == Spec => []TypeOK
<1>1. AssignmentInv => TypeOK
  BY DEF AssignmentInv, Types, TypeOK, RequestType, ApplicationType, OutboxType,
         Transaction, Steps
<1> QED
  BY <1>1, RowsAreHeld, PTL

\* Whatever overlaps, the courier that was selected is the only one accepted.
THEOREM OneCourierIsAssigned == Spec => []OneCourier
<1>1. AssignmentInv => OneCourier
  BY DEF AssignmentInv
<1> QED
  BY <1>1, RowsAreHeld, PTL

\* The key of the assignment event, which has no version, never swallows a second one.
THEOREM ChangesAreTold == Spec => []EveryChangeIsTold
<1>1. AssignmentInv => EveryChangeIsTold
  BY DEF AssignmentInv
<1> QED
  BY <1>1, RowsAreHeld, PTL

\* The steps that change the request: a call changes it and ends.
LEMMA RequestChanges ==
    ASSUME AssignmentInv, [Next]_vars, request' # request
    PROVE  \E x \in Calls :
             /\ \A y \in Calls \ {x} : tx'[y] = tx[y]
             /\ tx[x].kind \in Decisions => request.status = tx[x].saw
             /\ request.status \notin Ended
             /\ request.selected # None => request'.selected = request.selected
<1>1. PICK x \in Calls : LockRequest(x) \/ Transition(x) \/ Accept(x)
  <2>1. ASSUME NEW x \in Calls,
               LockCourier(x) \/ LockApplication(x) \/ Withdraw(x) \/ CheckDeletion(x)
                 \/ DeleteProfile(x) \/ DeleteApplications(x) \/ DetectDeadlock(x)
        PROVE  FALSE
    BY <2>1 DEF LockCourier, LockApplication, Withdraw, CheckDeletion, DeleteProfile,
                DeleteApplications, DetectDeadlock, Refuse, rows
  <2>2. ASSUME NEW x \in Calls, NEW kind \in Kinds,
               NEW target \in Applications \cup Couriers \cup {None}, Begin(x, kind, target)
        PROVE  FALSE
    BY <2>2 DEF Begin, rows
  <2>3. ASSUME NEW c \in Couriers, SaveProfile(c) PROVE FALSE
    BY <2>3 DEF SaveProfile
  <2>4. ~UNCHANGED vars
    BY DEF vars, rows
  <2> QED
    BY <2>1, <2>2, <2>3, <2>4 DEF Next, Step
<1>2. Own(x) /\ OneCourier /\ Types
  BY DEF AssignmentInv
<1>3. CASE LockRequest(x) \/ Transition(x)
  <2>1. \/ Publish(x) \/ SubmitTo(x) \/ AcceptOf(x) \/ TransitionOf(x) \/ Suspend(x)
        \/ Transition(x)
    BY <1>3 DEF LockRequest
  <2>2. ~Refuse(x) /\ request' # request
    BY DEF Refuse, rows
  <2>3. (Publish(x) \/ Transition(x) \/ Suspend(x)) /\ End(x)
    BY <2>1, <2>2 DEF Publish, SubmitTo, AcceptOf, TransitionOf, Transition, Suspend, rows
  <2>4. request'.selected = request.selected
    BY <2>2, <2>3 DEF Publish, Transition, Suspend, Change, Becomes
  <2>5. tx[x].kind \in Decisions => request.status = tx[x].saw
    BY <1>2, <2>2, <2>3 DEF Publish, Transition, Suspend, Current, Own, Seen, Decisions
  <2>6. request.status \notin Ended
    BY <2>2, <2>3 DEF Publish, Transition, Suspend, Allowed, Ended
  <2> QED
    BY <1>2, <2>3, <2>4, <2>5, <2>6, EndReleases
<1>4. CASE Accept(x)
  <2>1. tx[x].at = "others" /\ End(x)
    BY <1>4 DEF Accept
  <2>2. request.status = "open" /\ request.selected = None
    BY <1>2, <2>1 DEF Own, OnRequest, OneCourier
  <2>3. tx[x].kind \in Decisions => request.status = tx[x].saw
    BY <1>2, <2>1 DEF Own, Seen
  <2> QED
    BY <1>2, <2>1, <2>2, <2>3, EndReleases DEF Ended
<1> QED
  BY <1>1, <1>3, <1>4

\* The version an actor sends is that of the status it decides on.
THEOREM DecisionsAreCurrent == Spec => DecisionsAreNotStale
<1>1. AssignmentInv /\ [Next]_vars =>
        [\A x \in Calls :
           tx[x].kind \in Decisions /\ tx'[x] = Idle /\ request' # request
             => request.status = tx[x].saw]_vars
  <2> SUFFICES ASSUME AssignmentInv, [Next]_vars, request' # request,
                      NEW x \in Calls, tx[x].kind \in Decisions, tx'[x] = Idle
               PROVE  request.status = tx[x].saw
    OBVIOUS
  <2>1. tx'[x] # tx[x]
    BY DEF Idle, Decisions
  <2> QED
    BY <2>1, RequestChanges
<1> QED
  BY <1>1, RowsAreHeld, PTL DEF Spec, DecisionsAreNotStale

\* Once selected a courier stays, and an ended request never changes again.
THEOREM AssignmentStays == Spec => AssignmentIsFinal
<1>1. AssignmentInv /\ [Next]_vars =>
        [/\ request.selected # None => request'.selected = request.selected
         /\ request.status \in Ended => request' = request]_vars
  BY RequestChanges
<1> QED
  BY <1>1, RowsAreHeld, PTL DEF Spec, AssignmentIsFinal

-----------------------------------------------------------------------------
(* Deadlocks.                                                              *)

\* Calls that wait for one another, however many they are, are seen by the detector;
\* and whoever is waited for is a call that is under way.
EveryDeadlockIsSeen ==
    /\ \A S \in (SUBSET Calls) \ {{}} :
         (\A x \in S : WaitsFor(x) \cap S # {}) => \E x \in S : Deadlocked(x)
    /\ \A x \in Calls : \A y \in WaitsFor(x) : tx[y].at # "idle"

\* The steps at which a call has the request, an application, a courier.
HasRequest(t) ==
    t.at \in {"selected", "courier", "others"} \/ (t.at = "application" /\ t.kind = "accept")
HasApplication(t) ==
    t.at \in {"event", "others"} \/ (t.at = "courier" /\ t.kind = "accept")
HasCourier(t) == t.at \in {"applications", "others"}

\* Whoever holds a row is at a step that needs it.
Holders ==
    /\ held[Request] # None => HasRequest(tx[held[Request]])
    /\ \A a \in Applications : held[a] # None => HasApplication(tx[held[a]])
    /\ \A c \in Couriers : held[c] # None => HasCourier(tx[held[c]])

\* A step of a call leaves the holders among the other calls as they are.
LEMMA HoldersStay ==
    ASSUME Types, Holders, NEW x \in Calls,
           \A y \in Calls \ {x} : tx'[y] = tx[y],
           \A r \in Rows : held'[r] \in {held[r], None, x},
           held'[Request] = x => HasRequest(tx'[x]),
           \A a \in Applications : held'[a] = x => HasApplication(tx'[x]),
           \A c \in Couriers : held'[c] = x => HasCourier(tx'[x])
    PROVE  Holders'
<1>1. ASSUME NEW r \in Rows, held'[r] # None, held'[r] # x
      PROVE  held'[r] = held[r] /\ held[r] # None /\ tx'[held[r]] = tx[held[r]]
  BY <1>1 DEF Types
<1>2. held'[Request] # None => HasRequest(tx'[held'[Request]])
  BY <1>1, RowsAreKinds DEF Holders
<1>3. ASSUME NEW a \in Applications, held'[a] # None PROVE HasApplication(tx'[held'[a]])
  BY <1>1, <1>3, RowsAreKinds DEF Holders
<1>4. ASSUME NEW c \in Couriers, held'[c] # None PROVE HasCourier(tx'[held'[c]])
  BY <1>1, <1>4, RowsAreKinds DEF Holders
<1> QED
  BY <1>2, <1>3, <1>4 DEF Holders

\* Rows are taken where they are needed and given back at the end.
LEMMA HoldersInductive == AssignmentInv /\ Holders /\ [Next]_vars => Holders'
<1> SUFFICES ASSUME AssignmentInv, Holders, [Next]_vars PROVE Holders'
  OBVIOUS
<1> USE RowsAreKinds
<1>1. Types /\ \A x \in Calls : Own(x) /\ tx[x] \in Transaction
  BY DEF AssignmentInv, Types
<1>2. ASSUME NEW x \in Calls, End(x) PROVE Holders'
  <2>1. /\ \A y \in Calls \ {x} : tx'[y] = tx[y]
        /\ \A r \in Rows : held'[r] \in {held[r], None, x} /\ held'[r] # x
    BY <1>1, <1>2, EndReleases DEF End
  <2> QED
    BY <1>1, <2>1, HoldersStay
<1>3. ASSUME NEW x \in Calls, ~HasRequest(tx[x]), ~HasApplication(tx[x]), ~HasCourier(tx[x])
      PROVE  /\ held[Request] # x /\ \A a \in Applications : held[a] # x
             /\ \A c \in Couriers : held[c] # x
  BY <1>3 DEF Holders
<1>4. ASSUME NEW x \in Calls, NEW S \in SUBSET Rows, NEW at \in Steps, Lock(x, S, at)
      PROVE  /\ \A y \in Calls \ {x} : tx'[y] = tx[y]
             /\ \A r \in Rows : held'[r] \in {held[r], None, x}
             /\ \A r \in Rows : held'[r] = x => held[r] = x \/ r \in S
             /\ tx'[x].at = at /\ tx'[x].kind = tx[x].kind
  <2> HIDE RowsAreKinds
  <2>0. Types
    BY <1>1
  <2>1. /\ \A y \in Calls \ {x} : tx'[y] = tx[y]
        /\ tx'[x].at = at /\ tx'[x].kind = tx[x].kind
    BY <1>4, <2>0, LockTakes
  <2>2. held' = [r \in Rows |-> IF r \in S THEN x ELSE held[r]]
    BY <1>4 DEF Lock
  <2> QED
    BY <2>1, <2>2
<1>5. ASSUME NEW x \in Calls, Refuse(x) PROVE Holders'
  BY <1>2, <1>5 DEF Refuse
<1>6. ASSUME NEW x \in Calls, NEW kind \in Kinds,
             NEW target \in Applications \cup Couriers \cup {None}, Begin(x, kind, target)
      PROVE  Holders'
  <2>1. /\ \A y \in Calls \ {x} : tx'[y] = tx[y]
        /\ UNCHANGED held /\ tx[x].at = "idle"
    BY <1>1, <1>6 DEF Begin, Types
  <2>2. ~HasRequest(tx[x]) /\ ~HasApplication(tx[x]) /\ ~HasCourier(tx[x])
    BY <2>1 DEF HasRequest, HasApplication, HasCourier
  <2>3. \A r \in Rows : held'[r] \in {held[r], None, x}
    BY <2>1
  <2>4. /\ held'[Request] # x /\ \A a \in Applications : held'[a] # x
        /\ \A c \in Couriers : held'[c] # x
    BY <1>3, <2>1, <2>2
  <2> QED
    BY <1>1, <2>1, <2>3, <2>4, HoldersStay
<1>7. ASSUME NEW x \in Calls, LockRequest(x) PROVE Holders'
  <2>1. tx[x].at = "request"
    BY <1>7 DEF LockRequest
  <2>2. ~HasRequest(tx[x]) /\ ~HasApplication(tx[x]) /\ ~HasCourier(tx[x])
    BY <2>1 DEF HasRequest, HasApplication, HasCourier
  <2>3. ASSUME NEW at \in {"selected", "courier", "application"}, Lock(x, {Request}, at),
               at = "application" => tx[x].kind = "accept"
        PROVE  Holders'
    <3>1. at \in Steps /\ {Request} \in SUBSET Rows
      BY DEF Steps
    <3>2. /\ \A y \in Calls \ {x} : tx'[y] = tx[y]
          /\ \A r \in Rows : held'[r] \in {held[r], None, x}
          /\ \A r \in Rows : held'[r] = x => held[r] = x \/ r \in {Request}
          /\ tx'[x].at = at /\ tx'[x].kind = tx[x].kind
      BY <1>4, <2>3, <3>1
    <3>3. HasRequest(tx'[x])
      BY <2>3, <3>2 DEF HasRequest
    <3>4. /\ \A a \in Applications : held'[a] # x
          /\ \A c \in Couriers : held'[c] # x
      BY <1>3, <2>2, <3>2, DeliveryAssumption
    <3> QED
      BY <1>1, <3>2, <3>3, <3>4, HoldersStay
  <2>4. \/ End(x) \/ Refuse(x) \/ Lock(x, {Request}, "courier")
        \/ Lock(x, {Request}, "selected")
        \/ tx[x].kind = "accept" /\ Lock(x, {Request}, "application")
    BY <1>7 DEF LockRequest, Publish, SubmitTo, AcceptOf, TransitionOf, Suspend
  <2> QED
    BY <1>2, <1>5, <2>3, <2>4
<1>8. ASSUME NEW x \in Calls, LockCourier(x) PROVE Holders'
  <2>1. \/ Refuse(x) \/ End(x)
        \/ Lock(x, {CourierOf[tx[x].target]}, "others")
    BY <1>8 DEF LockCourier
  <2>2. tx[x].target \in Applications
    BY <1>1, <1>8 DEF Own, Target, LockCourier
  <2>3. CASE Lock(x, {CourierOf[tx[x].target]}, "others")
    <3>1. {CourierOf[tx[x].target]} \in SUBSET Rows /\ "others" \in Steps
      BY <2>2 DEF Steps
    <3>2. /\ \A y \in Calls \ {x} : tx'[y] = tx[y]
          /\ \A r \in Rows : held'[r] \in {held[r], None, x}
          /\ tx'[x].at = "others"
      BY <1>4, <2>3, <3>1
    <3>3. HasRequest(tx'[x]) /\ HasApplication(tx'[x]) /\ HasCourier(tx'[x])
      BY <3>2 DEF HasRequest, HasApplication, HasCourier
    <3> QED
      BY <1>1, <3>2, <3>3, HoldersStay
  <2> QED
    BY <1>2, <1>5, <2>1, <2>3
<1>9. ASSUME NEW x \in Calls, LockApplication(x) PROVE Holders'
  <2> DEFINE a == tx[x].target
             at == IF tx[x].kind = "accept" THEN "courier" ELSE "event"
  <2>1. Refuse(x) \/ Lock(x, {a}, at)
    BY <1>9 DEF LockApplication
  <2>2. a \in Applications /\ tx[x].at = "application" /\ at \in Steps
    BY <1>1, <1>9 DEF Own, Target, LockApplication, Steps
  <2>3. CASE Lock(x, {a}, at)
    <3>1. {a} \in SUBSET Rows
      BY <2>2
    <3> HIDE DEF a, at
    <3>2. /\ \A y \in Calls \ {x} : tx'[y] = tx[y]
          /\ \A r \in Rows : held'[r] \in {held[r], None, x}
          /\ \A r \in Rows : held'[r] = x => held[r] = x \/ r \in {a}
          /\ tx'[x].at = at /\ tx'[x].kind = tx[x].kind
      BY <1>4, <2>2, <2>3, <3>1
    <3>3. HasApplication(tx'[x])
      BY <3>2 DEF HasApplication, at
    <3>4. \A c \in Couriers : held'[c] # x
      <4>1. ~HasCourier(tx[x])
        BY <2>2 DEF HasCourier
      <4>2. \A c \in Couriers : held[c] # x /\ c # a
        BY <2>2, <4>1, DeliveryAssumption DEF Holders
      <4> QED
        BY <3>2, <4>2
    <3>5. held'[Request] = x => HasRequest(tx'[x])
      <4>1. CASE tx[x].kind = "accept"
        BY <3>2, <4>1 DEF HasRequest, at
      <4>2. CASE tx[x].kind # "accept"
        <5>1. ~HasRequest(tx[x])
          BY <2>2, <4>2 DEF HasRequest
        <5>2. held[Request] # x /\ a # Request
          BY <2>2, <5>1 DEF Holders
        <5> QED
          BY <3>2, <5>2
      <4> QED
        BY <4>1, <4>2
    <3> QED
      BY <1>1, <3>2, <3>3, <3>4, <3>5, HoldersStay
  <2> QED
    BY <1>5, <2>1, <2>3
<1>10. ASSUME NEW x \in Calls, CheckDeletion(x) \/ DeleteProfile(x) PROVE Holders'
  <2> DEFINE S == IF CheckDeletion(x) THEN {} ELSE {tx[x].target}
  <2>1. tx[x].at \in {"check", "profile"} /\ tx[x].target \in Couriers
    BY <1>1, <1>10 DEF CheckDeletion, DeleteProfile, Own, Target
  <2>2. ~HasRequest(tx[x]) /\ ~HasApplication(tx[x]) /\ ~HasCourier(tx[x])
    BY <2>1 DEF HasRequest, HasApplication, HasCourier
  <2>3. CASE Lock(x, {}, "profile")
    <3>1. {} \in SUBSET Rows /\ "profile" \in Steps
      BY DEF Steps
    <3>2. /\ \A y \in Calls \ {x} : tx'[y] = tx[y]
          /\ \A r \in Rows : held'[r] \in {held[r], None, x}
          /\ \A r \in Rows : held'[r] = x => held[r] = x
      BY <1>4, <2>3, <3>1
    <3>3. /\ held'[Request] # x /\ \A a \in Applications : held'[a] # x
          /\ \A c \in Couriers : held'[c] # x
      BY <1>3, <2>2, <3>2
    <3> QED
      BY <1>1, <3>2, <3>3, HoldersStay
  <2>4. CASE Lock(x, {tx[x].target}, "applications")
    <3>1. {tx[x].target} \in SUBSET Rows /\ "applications" \in Steps
      BY <2>1 DEF Steps
    <3>2. /\ \A y \in Calls \ {x} : tx'[y] = tx[y]
          /\ \A r \in Rows : held'[r] \in {held[r], None, x}
          /\ \A r \in Rows : held'[r] = x => held[r] = x \/ r \in {tx[x].target}
          /\ tx'[x].at = "applications"
      BY <1>4, <2>4, <3>1
    <3>3. held'[Request] # x /\ \A a \in Applications : held'[a] # x
      BY <1>3, <2>1, <2>2, <3>2, DeliveryAssumption
    <3>4. HasCourier(tx'[x])
      BY <3>2 DEF HasCourier
    <3> QED
      BY <1>1, <3>2, <3>3, <3>4, HoldersStay
  <2> QED
    BY <1>5, <1>10, <2>3, <2>4 DEF CheckDeletion, DeleteProfile
<1>11. ASSUME NEW x \in Calls,
              Transition(x) \/ Accept(x) \/ Withdraw(x) \/ DeleteApplications(x)
                \/ DetectDeadlock(x)
       PROVE  Holders'
  BY <1>2, <1>5, <1>11 DEF Transition, Accept, Withdraw, DeleteApplications, DetectDeadlock
<1>12. ASSUME UNCHANGED <<tx, held>> PROVE Holders'
  BY <1>12 DEF Holders
<1>13. ASSUME NEW c \in Couriers, SaveProfile(c) PROVE Holders'
  BY <1>12, <1>13 DEF SaveProfile
<1>14. CASE UNCHANGED vars
  BY <1>12, <1>14 DEF vars
<1> QED
  BY <1>6, <1>7, <1>8, <1>9, <1>10, <1>11, <1>13, <1>14 DEF Next, Step

\* Whoever is waited for has the request, or waits for it, or deletes a profile and
\* waits for applications.
LEMMA WaitedFor ==
    ASSUME AssignmentInv, Holders, NEW x \in Calls, NEW y \in WaitsFor(x)
    PROVE  /\ y \in Calls /\ y # x /\ tx[y].at # "idle"
           /\ \/ y = held[Request]
              \/ tx[y].at = "event" /\ WaitsFor(y) = {held[Request]} \ {None, y}
              \/ /\ tx[y].at = "applications"
                 /\ WaitsFor(y) \subseteq {held[a] : a \in Applications}
<1> USE RowsAreKinds
<1>1. /\ held \in [Rows -> Calls \cup {None}]
      /\ \A z \in Calls : Target(z) /\ OnRequest(z)
  BY DEF AssignmentInv, Types, Own
<1>2. PICK r \in Rows : y = held[r] /\ y \notin {None, x}
  <2>1. tx[x].at = "application" => tx[x].target \in Applications
    BY <1>1 DEF Target
  <2>2. tx[x].at = "courier" => tx[x].target \in Applications
    BY <1>1 DEF Target
  <2>3. tx[x].at = "profile" => tx[x].target \in Couriers
    BY <1>1 DEF Target
  <2>4. Submitted \subseteq Rows /\ {request.selected} \ {None} \subseteq Rows
    BY DEF Submitted, AssignmentInv, Types, RequestType
  <2> QED
    BY <2>1, <2>2, <2>3, <2>4 DEF WaitsFor
<1>3. y \in Calls
  BY <1>1, <1>2
<1>4. HasRequest(tx[y]) \/ HasApplication(tx[y]) \/ HasCourier(tx[y])
  BY <1>2 DEF Holders, Rows
<1>5. CASE HasRequest(tx[y])
  BY <1>1, <1>2, <1>3, <1>5 DEF HasRequest, OnRequest
<1>6. CASE ~HasRequest(tx[y]) /\ HasApplication(tx[y])
  <2>1. tx[y].at = "event" /\ tx[y].kind = "withdraw"
    BY <1>1, <1>3, <1>6 DEF HasRequest, HasApplication, Target
  <2>2. WaitsFor(y) = {held[Request]} \ {None, y}
    BY <2>1 DEF WaitsFor
  <2> QED
    BY <1>2, <1>3, <2>1, <2>2
<1>7. CASE ~HasRequest(tx[y]) /\ HasCourier(tx[y])
  <2>1. tx[y].at = "applications"
    BY <1>7 DEF HasRequest, HasCourier
  <2>2. WaitsFor(y) \subseteq {held[a] : a \in Applications}
    BY <2>1 DEF WaitsFor
  <2> QED
    BY <1>2, <1>3, <2>1, <2>2
<1> QED
  BY <1>4, <1>5, <1>6, <1>7

\* Every chain of calls that wait leads to the one that has the request, in two steps at
\* most, so a cycle has two calls or three.
LEMMA DeadlocksAreShort ==
    ASSUME AssignmentInv, Holders, NEW S \in (SUBSET Calls) \ {{}},
           \A x \in S : WaitsFor(x) \cap S # {}
    PROVE  /\ held[Request] \in S
           /\ \E x \in S : tx[x].at \in {"event", "applications"}
           /\ Deadlocked(held[Request])
<1> DEFINE h == held[Request]
<1>1. ASSUME NEW y \in S, tx[y].at = "event", WaitsFor(y) = {h} \ {None, y}
      PROVE  h \in S /\ h \in WaitsFor(y)
  <2>1. WaitsFor(y) \cap S # {}
    OBVIOUS
  <2> QED
    BY <1>1, <2>1
<1>2. ASSUME NEW y \in S, tx[y].at = "applications",
             WaitsFor(y) \subseteq {held[a] : a \in Applications}
      PROVE  \E z \in S : z \in WaitsFor(y) /\ (z = h \/ (h \in S /\ h \in WaitsFor(z)))
  <2>1. PICK z \in S : z \in WaitsFor(y)
    OBVIOUS
  <2>2. tx[z].at # "applications"
    <3>1. PICK a \in Applications : z = held[a]
      BY <1>2, <2>1
    <3>2. z # None
      BY RowsAreKinds
    <3> QED
      BY <3>1, <3>2 DEF Holders, HasApplication
  <2>3. z = h \/ (tx[z].at = "event" /\ WaitsFor(z) = {h} \ {None, z})
    BY <2>1, <2>2, WaitedFor
  <2> QED
    BY <1>1, <2>1, <2>3
<1>3. ASSUME NEW x \in S
      PROVE  \E y \in S : /\ y \in WaitsFor(x) /\ y # x
                          /\ \/ y = h
                             \/ h \in S /\ h \in WaitsFor(y)
                             \/ \E z \in S : z \in WaitsFor(y) /\ h \in S
                                             /\ (z = h \/ h \in WaitsFor(z))
  <2>1. PICK y \in S : y \in WaitsFor(x)
    OBVIOUS
  <2>2. /\ y # x
        /\ \/ y = h
           \/ tx[y].at = "event" /\ WaitsFor(y) = {h} \ {None, y}
           \/ /\ tx[y].at = "applications"
              /\ WaitsFor(y) \subseteq {held[a] : a \in Applications}
    BY <2>1, WaitedFor
  <2> QED
    BY <1>1, <1>2, <2>1, <2>2
<1>4. h \in S
  BY <1>3
<1>5. PICK y \in S : /\ y \in WaitsFor(h) /\ y # h
                     /\ \/ h \in WaitsFor(y)
                        \/ \E z \in S : z \in WaitsFor(y) /\ (z = h \/ h \in WaitsFor(z))
  BY <1>3, <1>4
<1>6. Deadlocked(h)
  BY <1>4, <1>5 DEF Deadlocked
<1>7. tx[y].at \in {"event", "applications"}
  BY <1>4, <1>5, WaitedFor
<1> QED
  BY <1>4, <1>6, <1>7

LEMMA HoldersAreAtWork == Spec => [](AssignmentInv /\ Holders)
<1>1. Init => Holders
  BY RowsAreKinds DEF Init, Holders
<1> QED
  BY <1>1, RowsAreHeld, HoldersInductive, PTL DEF Spec

\* However many calls wait for one another, one of them holds the request, and one is a
\* withdrawal or the deletion of an account.
THEOREM DeadlocksNeedADeparture == Spec => []OnlyDeparturesDeadlock
<1>1. AssignmentInv /\ Holders => OnlyDeparturesDeadlock
  BY DeadlocksAreShort DEF OnlyDeparturesDeadlock
<1> QED
  BY <1>1, HoldersAreAtWork, PTL

\* However many calls wait for one another, the detector sees them; and nobody waits for
\* a call that is over.
THEOREM DeadlocksAreSeen == Spec => []EveryDeadlockIsSeen
<1>1. AssignmentInv /\ Holders => EveryDeadlockIsSeen
  BY WaitedFor, DeadlocksAreShort DEF EveryDeadlockIsSeen
<1> QED
  BY <1>1, HoldersAreAtWork, PTL

=============================================================================
