----------------------- MODULE NotificationOutbox_proofs -----------------------
(***************************************************************************)
(* For any numbers of deliveries, runs and worker ids and any durations:   *)
(* the rows keep their types, the record of the attempts explains them, a  *)
(* message is sent once until something fails and once for each attempt    *)
(* that was counted, and a settled delivery stays settled.                 *)
(*                                                                         *)
(* Until something fails every delivery in a batch is leased to its run    *)
(* alone, unless it was deleted.  Afterwards nothing of that is left, but  *)
(* each claim was counted before it could send.                            *)
(***************************************************************************)
EXTENDS NotificationOutbox, FiniteSetTheorems, TLAPS

Steps == Outcomes \cup {"idle", "next"}

Loop(x) ==
    /\ step[x] = "idle" => batch[x] = {}
    /\ step[x] \in Outcomes => current[x] \in batch[x]
    /\ step[x] = "delivered" => sent[current[x]] > 0

Explained(d) ==
    /\ status[d] \in Outcomes \cup {"leased"} => attempts[d] >= 1
    /\ status[d] \in Outcomes => outcome[d][attempts[d]] = status[d]
    /\ status[d] = "leased" => outcome[d][attempts[d]] = "none"
    /\ status[d] = "retry" => attempts[d] < MaxAttempts
    /\ status[d] = "delivered" => sent[d] > 0
    /\ \A n \in 1 .. AttemptsCheck : n > attempts[d] => outcome[d][n] = "none"

\* A run that claimed the delivery and has not sent it yet.
Waits(x, d) == d \in batch[x] /\ ~(step[x] \in Outcomes /\ current[x] = d)
Waiting(d) == {x \in Runs : Waits(x, d)}

\* Each claim was counted, and is spent on one message at most.
Counted(d) ==
    /\ IsFiniteSet(Waiting(d))
    /\ status[d] # "deleted" => sent[d] + Cardinality(Waiting(d)) <= attempts[d]

\* Before a failure: what a run has in its batch is leased to it alone, or gone.
InTurn ==
    failures = 0 =>
        /\ \A x \in Runs : \A d \in batch[x] :
             \/ status[d] = "deleted"
             \/ status[d] = "leased" /\ owner[d] = WorkerOf[x] /\ lease[d] > 0
        /\ \A x, y \in Runs : \A d \in Deliveries : d \in batch[x] /\ d \in batch[y] => x = y
        /\ \A x \in Runs : step[x] = "retry" => status[current[x]] = "deleted"
        /\ \A d \in Deliveries :
            /\ status[d] # "retry"
            /\ sent[d] <= 1
            /\ \/ status[d] \in {"absent", "pending"}
               \/ \E x \in Runs : Waits(x, d)
               \/ status[d] = "leased" /\ \A x \in Runs : d \notin batch[x]
               => sent[d] = 0

OutboxInv ==
    /\ TypeOK
    /\ \A x \in Runs : Loop(x)
    /\ \A d \in Deliveries : Explained(d)
    /\ \A d \in Deliveries : Counted(d)
    /\ InTurn

-----------------------------------------------------------------------------
(* Parts of a step.                                                        *)

LEMMA GotoMoves ==
    ASSUME TypeOK, NEW x \in Runs, NEW s \in Steps, NEW d \in Deliveries \cup {None},
           NEW left \in SUBSET Deliveries, Goto(x, s, d, left)
    PROVE  /\ step' \in [Runs -> Steps]
           /\ batch' \in [Runs -> SUBSET Deliveries]
           /\ current' \in [Runs -> Deliveries \cup {None}]
           /\ step'[x] = s /\ current'[x] = d /\ batch'[x] = left
           /\ \A y \in Runs \ {x} :
                step'[y] = step[y] /\ current'[y] = current[y] /\ batch'[y] = batch[y]
<1>1. step \in [Runs -> Steps] /\ batch \in [Runs -> SUBSET Deliveries]
      /\ current \in [Runs -> Deliveries \cup {None}]
  BY DEF TypeOK, Steps
<1> QED
  BY <1>1 DEF Goto

\* Runs that stop waiting leave room between messages and attempts.
LEMMA FewerWait ==
    ASSUME TypeOK, NEW d \in Deliveries, Counted(d),
           \A x \in Runs : Waits(x, d)' => Waits(x, d),
           sent'[d] = sent[d], attempts'[d] = attempts[d],
           status'[d] # "deleted" => status[d] # "deleted"
    PROVE  Counted(d)'
<1>1. sent[d] \in Nat /\ attempts[d] \in Nat /\ IsFiniteSet(Waiting(d))
  BY OutboxAssumption DEF TypeOK, Counted
<1>2. Waiting(d)' \in SUBSET Waiting(d)
  BY DEF Waiting
<1>3. /\ IsFiniteSet(Waiting(d)') /\ Cardinality(Waiting(d)') <= Cardinality(Waiting(d))
      /\ Cardinality(Waiting(d)') \in Nat /\ Cardinality(Waiting(d)) \in Nat
  BY <1>1, <1>2, FS_Subset, FS_CardinalityType
<1> QED
  BY <1>1, <1>3 DEF Counted

\* complete_notification_delivery keeps the rows of their types and explains them.
LEMMA CompletedRows ==
    ASSUME TypeOK, \A d \in Deliveries : Explained(d),
           NEW x \in Runs, NEW d \in Deliveries, NEW result \in Outcomes,
           Owned(x, d), CompleteRow(d, result), result = "delivered" => sent[d] > 0,
           UNCHANGED sent
    PROVE  /\ status' \in [Deliveries -> Settled \cup {"absent", "pending", "leased", "retry"}]
           /\ owner' \in [Deliveries -> Workers \cup {None}]
           /\ \A q \in Deliveries : owner'[q] # None <=> status'[q] = "leased"
           /\ lease' \in [Deliveries -> 0 .. Lease]
           /\ wait' \in [Deliveries -> 0 .. RetryDelay]
           /\ outcome' \in [Deliveries -> [1 .. AttemptsCheck -> Outcomes \cup {"none"}]]
           /\ UNCHANGED attempts
           /\ \A q \in Deliveries : Explained(q)'
           /\ status'[d] \in Outcomes
           /\ status'[d] = "retry" => result = "retry"
           /\ \A q \in Deliveries \ {d} : status'[q] = status[q] /\ owner'[q] = owner[q]
                                          /\ lease'[q] = lease[q]
<1> USE OutboxAssumption
<1> DEFINE becomes == Becomes(d, result)
<1>1. /\ becomes \in Outcomes
      /\ becomes = "retry" => result = "retry" /\ attempts[d] < MaxAttempts
      /\ becomes = "delivered" => sent[d] > 0
  BY DEF Becomes, Outcomes, TypeOK
<1>2. /\ status' = [status EXCEPT ![d] = becomes]
      /\ wait' = [wait EXCEPT ![d] = IF becomes = "retry" THEN RetryDelay ELSE @]
      /\ owner' = [owner EXCEPT ![d] = None]
      /\ lease' = [lease EXCEPT ![d] = 0]
      /\ outcome' = [outcome EXCEPT ![d][attempts[d]] = becomes]
      /\ UNCHANGED attempts
  BY DEF CompleteRow
<1> HIDE DEF becomes
<1>3. status[d] = "leased" /\ attempts[d] \in 1 .. AttemptsCheck
  BY DEF Owned, Explained, TypeOK
<1>4. /\ status' \in [Deliveries -> Settled \cup {"absent", "pending", "leased", "retry"}]
      /\ status'[d] = becomes /\ becomes # "leased"
      /\ \A q \in Deliveries \ {d} : status'[q] = status[q]
  BY <1>1, <1>2 DEF TypeOK, Outcomes, Settled
<1>5. /\ owner' \in [Deliveries -> Workers \cup {None}]
      /\ owner'[d] = None /\ \A q \in Deliveries \ {d} : owner'[q] = owner[q]
  BY <1>2 DEF TypeOK
<1>6. /\ lease' \in [Deliveries -> 0 .. Lease]
      /\ \A q \in Deliveries \ {d} : lease'[q] = lease[q]
  BY <1>2 DEF TypeOK
<1>7. wait' \in [Deliveries -> 0 .. RetryDelay]
  BY <1>2 DEF TypeOK
<1>8. /\ outcome[d] \in [1 .. AttemptsCheck -> Outcomes \cup {"none"}]
      /\ outcome' = [outcome EXCEPT ![d] = [outcome[d] EXCEPT ![attempts[d]] = becomes]]
  BY <1>2 DEF TypeOK
<1>9. /\ outcome' \in [Deliveries -> [1 .. AttemptsCheck -> Outcomes \cup {"none"}]]
      /\ outcome'[d][attempts[d]] = becomes
      /\ \A n \in 1 .. AttemptsCheck : n # attempts[d] => outcome'[d][n] = outcome[d][n]
      /\ \A q \in Deliveries \ {d} : outcome'[q] = outcome[q]
  BY <1>1, <1>3, <1>8 DEF TypeOK
<1>10. ASSUME NEW q \in Deliveries PROVE Explained(q)'
  <2>1. CASE q = d
    BY <1>1, <1>2, <1>3, <1>4, <1>9, <2>1 DEF Explained
  <2>2. CASE q # d
    BY <1>2, <1>4, <1>9, <2>2 DEF Explained
  <2> QED
    BY <2>1, <2>2
<1>11. \A q \in Deliveries : owner'[q] # None <=> status'[q] = "leased"
  BY <1>4, <1>5 DEF TypeOK
<1> QED
  BY <1>1, <1>2, <1>4, <1>5, <1>6, <1>7, <1>9, <1>10, <1>11

-----------------------------------------------------------------------------
(* The steps.                                                              *)

LEMMA DispatchKeepsInv ==
    ASSUME OutboxInv, NEW d \in Deliveries, Dispatch(d)
    PROVE  OutboxInv'
<1>1. /\ TypeOK /\ status[d] = "absent"
      /\ UNCHANGED <<attempts, owner, lease, wait, outcome, sent, step, batch, current, failures>>
  BY DEF Dispatch, OutboxInv, runs
<1>2. /\ status' \in [Deliveries -> Settled \cup {"absent", "pending", "leased", "retry"}]
      /\ status'[d] = "pending"
      /\ \A q \in Deliveries \ {d} : status'[q] = status[q]
  BY <1>1 DEF Dispatch, TypeOK
<1>3. TypeOK'
  BY <1>1, <1>2 DEF TypeOK
<1>4. \A x \in Runs : Loop(x)'
  BY <1>1 DEF OutboxInv, Loop
<1>5. \A q \in Deliveries : Explained(q)'
  BY <1>1, <1>2 DEF OutboxInv, Explained, Outcomes
<1>6. \A x \in Runs, q \in Deliveries : Waits(x, q)' <=> Waits(x, q)
  BY <1>1 DEF Waits
<1>7. \A q \in Deliveries : Counted(q)'
  BY <1>1, <1>2, <1>6, FewerWait DEF OutboxInv
<1>8. \A x \in Runs : step[x] = "retry" => current[x] \in Deliveries
  BY <1>1 DEF OutboxInv, Loop, Outcomes, TypeOK
<1>9. InTurn'
  BY <1>1, <1>2, <1>6, <1>8 DEF OutboxInv, InTurn, TypeOK
<1> QED
  BY <1>3, <1>4, <1>5, <1>7, <1>9 DEF OutboxInv

LEMMA DeleteKeepsInv ==
    ASSUME OutboxInv, NEW d \in Deliveries, Delete(d)
    PROVE  OutboxInv'
<1> USE OutboxAssumption
<1> DEFINE blank == [n \in 1 .. AttemptsCheck |-> "none"]
<1>1. /\ TypeOK
      /\ status' = [status EXCEPT ![d] = "deleted"]
      /\ attempts' = [attempts EXCEPT ![d] = 0]
      /\ owner' = [owner EXCEPT ![d] = None]
      /\ lease' = [lease EXCEPT ![d] = 0]
      /\ wait' = [wait EXCEPT ![d] = 0]
      /\ outcome' = [outcome EXCEPT ![d] = blank]
      /\ UNCHANGED <<sent, step, batch, current, failures>>
  BY DEF Delete, OutboxInv, runs
<1>2. /\ blank \in [1 .. AttemptsCheck -> Outcomes \cup {"none"}]
      /\ \A n \in 1 .. AttemptsCheck : blank[n] = "none"
  OBVIOUS
<1> HIDE DEF blank
<1>3. /\ status' \in [Deliveries -> Settled \cup {"absent", "pending", "leased", "retry"}]
      /\ attempts' \in [Deliveries -> 0 .. AttemptsCheck]
      /\ owner' \in [Deliveries -> Workers \cup {None}]
      /\ lease' \in [Deliveries -> 0 .. Lease] /\ wait' \in [Deliveries -> 0 .. RetryDelay]
      /\ outcome' \in [Deliveries -> [1 .. AttemptsCheck -> Outcomes \cup {"none"}]]
  BY <1>1, <1>2 DEF TypeOK, Settled
<1>4. /\ status'[d] = "deleted" /\ attempts'[d] = 0 /\ owner'[d] = None
      /\ outcome'[d] = blank
      /\ \A q \in Deliveries \ {d} :
           /\ status'[q] = status[q] /\ attempts'[q] = attempts[q] /\ owner'[q] = owner[q]
           /\ lease'[q] = lease[q] /\ outcome'[q] = outcome[q]
  BY <1>1 DEF TypeOK
<1>5. TypeOK'
  BY <1>1, <1>3, <1>4 DEF TypeOK
<1>6. \A x \in Runs : Loop(x)'
  BY <1>1 DEF OutboxInv, Loop
<1>7. \A q \in Deliveries : Explained(q)'
  BY <1>1, <1>2, <1>4 DEF OutboxInv, Explained, Outcomes
<1>8. \A x \in Runs, q \in Deliveries : Waits(x, q)' <=> Waits(x, q)
  BY <1>1 DEF Waits
<1>9. \A q \in Deliveries : Counted(q)'
  <2> TAKE q \in Deliveries
  <2>1. CASE q = d
    <3>1. Waiting(q)' = Waiting(q)
      BY <1>8 DEF Waiting
    <3> QED
      BY <1>4, <2>1, <3>1 DEF OutboxInv, Counted
  <2>2. CASE q # d
    BY <1>1, <1>4, <1>8, <2>2, FewerWait DEF OutboxInv
  <2> QED
    BY <2>1, <2>2
<1>10. \A x \in Runs : step[x] = "retry" => current[x] \in Deliveries
  BY <1>1 DEF OutboxInv, Loop, Outcomes, TypeOK
<1>11. \A x \in Runs : batch[x] \subseteq Deliveries
  BY <1>1 DEF TypeOK
<1>12. InTurn'
  BY <1>1, <1>4, <1>8, <1>10, <1>11 DEF OutboxInv, InTurn
<1> QED
  BY <1>5, <1>6, <1>7, <1>9, <1>12 DEF OutboxInv

LEMMA ClaimKeepsInv ==
    ASSUME OutboxInv, NEW x \in Runs, Claim(x)
    PROVE  OutboxInv'
<1> USE OutboxAssumption
<1>1. PICK S \in NextBatches :
        /\ S # {} /\ Admitted(S)
        /\ status' = [d \in Deliveries |-> IF d \in S THEN "leased" ELSE status[d]]
        /\ attempts' = [d \in Deliveries |-> IF d \in S THEN attempts[d] + 1 ELSE attempts[d]]
        /\ owner' = [d \in Deliveries |-> IF d \in S THEN WorkerOf[x] ELSE owner[d]]
        /\ lease' = [d \in Deliveries |-> IF d \in S THEN Lease ELSE lease[d]]
        /\ Goto(x, "next", None, S)
  BY DEF Claim
<1>2. TypeOK /\ step[x] = "idle" /\ UNCHANGED <<wait, outcome, sent, failures>>
      /\ batch[x] = {}
  BY DEF Claim, OutboxInv, Loop
<1>3. S \subseteq Deliveries /\ \A d \in S : Claimable(d) /\ attempts[d] < AttemptsCheck
  BY <1>1 DEF NextBatches, Admitted
<1>4. /\ step' \in [Runs -> Steps] /\ batch' \in [Runs -> SUBSET Deliveries]
      /\ current' \in [Runs -> Deliveries \cup {None}]
      /\ step'[x] = "next" /\ batch'[x] = S
      /\ \A y \in Runs \ {x} :
           step'[y] = step[y] /\ current'[y] = current[y] /\ batch'[y] = batch[y]
  BY <1>1, <1>2, <1>3, GotoMoves DEF Steps
<1>5. /\ status' \in [Deliveries -> Settled \cup {"absent", "pending", "leased", "retry"}]
      /\ owner' \in [Deliveries -> Workers \cup {None}]
      /\ lease' \in [Deliveries -> 0 .. Lease]
      /\ \A d \in Deliveries : owner'[d] # None <=> status'[d] = "leased"
  BY <1>1, <1>2 DEF TypeOK
<1>6. attempts' \in [Deliveries -> 0 .. AttemptsCheck]
  BY <1>1, <1>2, <1>3 DEF TypeOK
<1>7. /\ \A d \in S : status'[d] = "leased" /\ attempts'[d] = attempts[d] + 1
                      /\ owner'[d] = WorkerOf[x] /\ lease'[d] = Lease
      /\ \A d \in Deliveries \ S : status'[d] = status[d] /\ attempts'[d] = attempts[d]
                      /\ owner'[d] = owner[d] /\ lease'[d] = lease[d]
  BY <1>1, <1>3
<1>8. TypeOK'
  BY <1>2, <1>4, <1>5, <1>6 DEF TypeOK, Steps
<1>9. \A y \in Runs : Loop(y)'
  BY <1>2, <1>4 DEF OutboxInv, Loop, Outcomes
<1>10. \A d \in Deliveries : Explained(d)'
  <2> TAKE d \in Deliveries
  <2>1. attempts[d] \in Nat /\ Explained(d)
    BY <1>2 DEF TypeOK, OutboxInv
  <2>2. CASE d \in S
    <3>1. attempts'[d] \in 1 .. AttemptsCheck /\ attempts'[d] > attempts[d]
      BY <1>3, <1>7, <2>1, <2>2
    <3> QED
      BY <1>2, <1>7, <2>1, <2>2, <3>1 DEF Explained, Outcomes
  <2>3. CASE d \notin S
    BY <1>2, <1>7, <2>1, <2>3 DEF Explained
  <2> QED
    BY <2>2, <2>3
<1>11. \A y \in Runs, d \in Deliveries :
         Waits(y, d)' <=> Waits(y, d) \/ (y = x /\ d \in S)
  BY <1>2, <1>4 DEF Waits, Outcomes
<1>12. \A d \in Deliveries : Counted(d)'
  <2> TAKE d \in Deliveries
  <2>1. CASE d \in S
    <3>1. Waiting(d)' = Waiting(d) \cup {x}
      BY <1>11, <2>1 DEF Waiting
    <3>2. IsFiniteSet(Waiting(d)) /\ sent[d] + Cardinality(Waiting(d)) <= attempts[d]
      BY <1>3, <2>1 DEF OutboxInv, Counted, Claimable
    <3>3. /\ IsFiniteSet(Waiting(d)') /\ Cardinality(Waiting(d)) \in Nat
          /\ Cardinality(Waiting(d)') \in {Cardinality(Waiting(d)), Cardinality(Waiting(d)) + 1}
      BY <3>1, <3>2, FS_AddElement, FS_CardinalityType
    <3>4. sent[d] \in Nat /\ attempts[d] \in Nat
      BY <1>2 DEF TypeOK
    <3> QED
      BY <1>2, <1>7, <2>1, <3>2, <3>3, <3>4 DEF Counted
  <2>2. CASE d \notin S
    BY <1>2, <1>7, <1>11, <2>2, FewerWait DEF OutboxInv
  <2> QED
    BY <2>1, <2>2
<1>13. InTurn'
  <2> SUFFICES ASSUME failures = 0 PROVE InTurn'
    BY <1>2 DEF InTurn
  <2>1. \A y \in Runs, d \in S : d \notin batch[y]
    BY <1>2, <1>3 DEF OutboxInv, InTurn, Claimable
  <2>2. \A d \in S : sent[d] = 0
    BY <1>3, <2>1 DEF OutboxInv, InTurn, Claimable
  <2>3. \A y \in Runs : \A d \in batch'[y] :
          \/ status'[d] = "deleted"
          \/ status'[d] = "leased" /\ owner'[d] = WorkerOf[y] /\ lease'[d] > 0
    <3> TAKE y \in Runs
    <3> TAKE d \in batch'[y]
    <3>1. CASE y = x
      BY <1>4, <1>7, <3>1
    <3>2. CASE y # x
      <4>1. d \in batch[y] /\ d \in Deliveries \ S
        BY <1>2, <1>4, <2>1, <3>2 DEF TypeOK
      <4> QED
        BY <1>7, <4>1 DEF OutboxInv, InTurn
    <3> QED
      BY <3>1, <3>2
  <2>4. \A y, z \in Runs : \A d \in Deliveries : d \in batch'[y] /\ d \in batch'[z] => y = z
    BY <1>4, <2>1 DEF OutboxInv, InTurn
  <2>5. ASSUME NEW y \in Runs, step'[y] = "retry" PROVE status'[current'[y]] = "deleted"
    <3>1. y # x /\ step[y] = "retry" /\ current'[y] = current[y]
      BY <1>4, <2>5
    <3>2. current[y] \in batch[y] /\ current[y] \in Deliveries
      BY <1>2, <3>1 DEF OutboxInv, Loop, Outcomes, TypeOK
    <3> QED
      BY <1>7, <2>1, <3>1, <3>2 DEF OutboxInv, InTurn
  <2>6. ASSUME NEW d \in Deliveries
        PROVE  /\ status'[d] # "retry"
               /\ sent[d] <= 1
               /\ \/ status'[d] \in {"absent", "pending"}
                  \/ \E y \in Runs : Waits(y, d)'
                  \/ status'[d] = "leased" /\ \A y \in Runs : d \notin batch'[y]
                  => sent[d] = 0
    <3>1. CASE d \in S
      BY <1>7, <2>2, <3>1
    <3>2. CASE d \notin S
      <4>1. \A y \in Runs : d \in batch'[y] <=> d \in batch[y]
        BY <1>2, <1>4, <3>2
      <4> QED
        BY <1>7, <1>11, <3>2, <4>1 DEF OutboxInv, InTurn
    <3> QED
      BY <3>1, <3>2
  <2> QED
    BY <1>2, <2>3, <2>4, <2>5, <2>6 DEF InTurn
<1> QED
  BY <1>8, <1>9, <1>10, <1>12, <1>13 DEF OutboxInv

\* A message that is sent, or may have been, uses up the claim of its run.
LEMMA SentParts ==
    ASSUME OutboxInv, NEW x \in Runs, NEW d \in Deliveries, NEW s \in Outcomes,
           step[x] = "next", d \in batch[x], Goto(x, s, d, batch[x]),
           status' = status, attempts' = attempts, owner' = owner, lease' = lease,
           wait' = wait, outcome' = outcome, failures' \in 0 .. MaxFailures,
           sent' \in {sent, [sent EXCEPT ![d] = @ + 1]},
           s = "delivered" => sent' = [sent EXCEPT ![d] = @ + 1]
    PROVE  /\ TypeOK' /\ (\A y \in Runs : Loop(y)')
           /\ \A q \in Deliveries : Explained(q)' /\ Counted(q)'
           /\ batch' = batch
           /\ step'[x] = s /\ current'[x] = d
           /\ \A y \in Runs \ {x} : step'[y] = step[y] /\ current'[y] = current[y]
           /\ sent'[d] \in {sent[d], sent[d] + 1}
           /\ \A q \in Deliveries \ {d} : sent'[q] = sent[q]
           /\ \A y \in Runs, q \in Deliveries :
                Waits(y, q)' <=> Waits(y, q) /\ ~(y = x /\ q = d)
<1>1. TypeOK /\ batch[x] \in SUBSET Deliveries /\ sent \in [Deliveries -> Nat]
  BY DEF OutboxInv, TypeOK
<1>2. /\ step' \in [Runs -> Steps] /\ batch' \in [Runs -> SUBSET Deliveries]
      /\ current' \in [Runs -> Deliveries \cup {None}]
      /\ step'[x] = s /\ current'[x] = d /\ batch'[x] = batch[x]
      /\ \A y \in Runs \ {x} :
           step'[y] = step[y] /\ current'[y] = current[y] /\ batch'[y] = batch[y]
  BY <1>1, GotoMoves DEF Steps
<1>3. batch' = batch
  BY <1>1, <1>2 DEF Goto
<1>4. /\ sent' \in [Deliveries -> Nat] /\ sent'[d] \in {sent[d], sent[d] + 1}
      /\ \A q \in Deliveries \ {d} : sent'[q] = sent[q]
      /\ s = "delivered" => sent'[d] > 0
      /\ \A q \in Deliveries : sent[q] \in Nat /\ sent'[q] \in Nat /\ sent'[q] >= sent[q]
  BY <1>1
<1>5. TypeOK'
  BY <1>1, <1>2, <1>4 DEF TypeOK, Steps
<1>6. \A y \in Runs : Loop(y)'
  <2> TAKE y \in Runs
  <2>1. CASE y = x
    BY <1>2, <1>4, <2>1 DEF Loop, Outcomes
  <2>2. CASE y # x
    <3>1. Loop(y) /\ (step[y] \in Outcomes => current[y] \in Deliveries)
      BY <1>1 DEF OutboxInv, Loop, TypeOK
    <3> QED
      BY <1>2, <1>4, <2>2, <3>1 DEF Loop, Outcomes
  <2> QED
    BY <2>1, <2>2
<1>7. \A q \in Deliveries : Explained(q)'
  BY <1>4 DEF OutboxInv, Explained
<1>8. \A y \in Runs, q \in Deliveries : Waits(y, q)' <=> Waits(y, q) /\ ~(y = x /\ q = d)
  BY <1>2 DEF Waits, Outcomes
<1>9. Counted(d)'
  <2>1. Waits(x, d)
    BY DEF Waits, Outcomes
  <2>2. Waiting(d)' = Waiting(d) \ {x} /\ x \in Waiting(d) /\ IsFiniteSet(Waiting(d))
    BY <1>8, <2>1 DEF Waiting, OutboxInv, Counted
  <2>3. /\ IsFiniteSet(Waiting(d)') /\ Cardinality(Waiting(d)') = Cardinality(Waiting(d)) - 1
        /\ Cardinality(Waiting(d)) \in Nat
    BY <2>2, FS_RemoveElement, FS_CardinalityType
  <2>4. attempts[d] \in Nat
    BY <1>1 DEF TypeOK
  <2> QED
    BY <1>4, <2>3, <2>4 DEF OutboxInv, Counted
<1>10. \A q \in Deliveries \ {d} : Counted(q)'
  BY <1>1, <1>4, <1>8, FewerWait DEF OutboxInv
<1> QED
  BY <1>2, <1>3, <1>4, <1>5, <1>6, <1>7, <1>8, <1>9, <1>10

LEMMA SendKeepsInv ==
    ASSUME OutboxInv, NEW x \in Runs, NEW d \in Deliveries, Send(x, d)
    PROVE  OutboxInv'
<1>1. /\ TypeOK /\ step[x] = "next" /\ d \in batch[x]
      /\ UNCHANGED <<status, attempts, owner, lease, wait, outcome, failures>>
  BY DEF Send, OutboxInv, rows
<1>2. PICK s \in {"delivered", "dead_letter"} :
        /\ Goto(x, s, d, batch[x])
        /\ sent' \in {sent, [sent EXCEPT ![d] = @ + 1]}
        /\ s = "delivered" => sent' = [sent EXCEPT ![d] = @ + 1]
  BY DEF Send
<1>3. s \in Outcomes /\ failures' \in 0 .. MaxFailures
  BY <1>1, <1>2 DEF Outcomes, TypeOK
<1>4. /\ TypeOK' /\ (\A y \in Runs : Loop(y)')
      /\ \A q \in Deliveries : Explained(q)' /\ Counted(q)'
      /\ batch' = batch
      /\ step'[x] = s /\ current'[x] = d
      /\ \A y \in Runs \ {x} : step'[y] = step[y] /\ current'[y] = current[y]
      /\ sent'[d] \in {sent[d], sent[d] + 1}
      /\ \A q \in Deliveries \ {d} : sent'[q] = sent[q]
      /\ \A y \in Runs, q \in Deliveries :
           Waits(y, q)' <=> Waits(y, q) /\ ~(y = x /\ q = d)
  BY <1>1, <1>2, <1>3, SentParts
<1>5. InTurn'
  <2> SUFFICES ASSUME failures = 0 PROVE InTurn'
    BY <1>1 DEF InTurn
  <2>1. Waits(x, d) /\ sent[d] = 0
    BY <1>1 DEF Waits, Outcomes, OutboxInv, InTurn
  <2>2. \A y \in Runs : d \in batch[y] => y = x
    BY <1>1 DEF OutboxInv, InTurn
  <2>3. status[d] \in {"deleted", "leased"}
    BY <1>1 DEF OutboxInv, InTurn
  <2>4. \A y \in Runs : step'[y] = "retry" => status'[current'[y]] = "deleted"
    BY <1>1, <1>2, <1>4 DEF OutboxInv, InTurn
  <2>5. ASSUME NEW q \in Deliveries
        PROVE  /\ status'[q] # "retry"
               /\ sent'[q] <= 1
               /\ \/ status'[q] \in {"absent", "pending"}
                  \/ \E y \in Runs : Waits(y, q)'
                  \/ status'[q] = "leased" /\ \A y \in Runs : q \notin batch'[y]
                  => sent'[q] = 0
    <3>1. CASE q = d
      <4>1. ~\E y \in Runs : Waits(y, q)'
        BY <1>4, <2>2, <3>1 DEF Waits
      <4> QED
        BY <1>1, <1>4, <2>1, <2>3, <3>1, <4>1
    <3>2. CASE q # d
      BY <1>1, <1>4, <3>2 DEF OutboxInv, InTurn
    <3> QED
      BY <3>1, <3>2
  <2> QED
    BY <1>1, <1>4, <2>4, <2>5 DEF OutboxInv, InTurn
<1> QED
  BY <1>4, <1>5 DEF OutboxInv

LEMMA SendFailsKeepsInv ==
    ASSUME OutboxInv, NEW x \in Runs, NEW d \in Deliveries, SendFails(x, d)
    PROVE  OutboxInv'
<1>1. failures' \in 0 .. MaxFailures /\ failures' > 0
  BY OutboxAssumption DEF SendFails, OutboxInv, TypeOK
<1>2. /\ TypeOK' /\ (\A y \in Runs : Loop(y)')
      /\ \A q \in Deliveries : Explained(q)' /\ Counted(q)'
  BY <1>1, SentParts DEF SendFails, rows, Outcomes
<1>3. InTurn'
  BY <1>1 DEF InTurn
<1> QED
  BY <1>2, <1>3 DEF OutboxInv

\* A batch that goes on without the delivery that was completed.
LEMMA BatchGoesOn ==
    ASSUME OutboxInv, NEW x \in Runs, step[x] \in Outcomes, GoOn(x), sent' = sent
    PROVE  /\ step' \in [Runs -> Steps] /\ batch' \in [Runs -> SUBSET Deliveries]
           /\ current' \in [Runs -> Deliveries \cup {None}]
           /\ \A y \in Runs \ {x} :
                step'[y] = step[y] /\ current'[y] = current[y] /\ batch'[y] = batch[y]
           /\ batch'[x] = batch[x] \ {current[x]} /\ step'[x] \in {"idle", "next"}
           /\ \A y \in Runs : Loop(y)'
           /\ \A y \in Runs, d \in Deliveries : Waits(y, d)' <=> Waits(y, d)
<1>1. TypeOK /\ batch[x] \in SUBSET Deliveries
  BY DEF OutboxInv, TypeOK
<1> DEFINE left == batch[x] \ {current[x]}
<1>2. PICK s \in {"idle", "next"} : Goto(x, s, None, left) /\ (s = "idle" => left = {})
  BY DEF GoOn
<1>3. left \in SUBSET Deliveries /\ s \in Steps
  BY <1>1 DEF Steps
<1> HIDE DEF left
<1>4. /\ step' \in [Runs -> Steps] /\ batch' \in [Runs -> SUBSET Deliveries]
      /\ current' \in [Runs -> Deliveries \cup {None}]
      /\ step'[x] = s /\ current'[x] = None /\ batch'[x] = left
      /\ \A y \in Runs \ {x} :
           step'[y] = step[y] /\ current'[y] = current[y] /\ batch'[y] = batch[y]
  BY <1>1, <1>2, <1>3, GotoMoves
<1>5. \A y \in Runs : Loop(y)'
  BY <1>2, <1>4 DEF OutboxInv, Loop, Outcomes
<1>6. \A y \in Runs, d \in Deliveries : Waits(y, d)' <=> Waits(y, d)
  BY <1>4 DEF Waits, left, Outcomes
<1> QED
  BY <1>4, <1>5, <1>6 DEF left

\* A completion that throws: the run tries again from its catch block, or is over.
LEMMA BatchIsThrown ==
    ASSUME OutboxInv, NEW x \in Runs, step[x] \in Outcomes, Thrown(x), sent' = sent
    PROVE  /\ step' \in [Runs -> Steps] /\ batch' \in [Runs -> SUBSET Deliveries]
           /\ current' \in [Runs -> Deliveries \cup {None}]
           /\ \A y \in Runs \ {x} :
                step'[y] = step[y] /\ current'[y] = current[y] /\ batch'[y] = batch[y]
           /\ \/ /\ step[x] = "delivered" /\ step'[x] = "retry"
                 /\ current'[x] = current[x] /\ batch'[x] = batch[x]
              \/ step'[x] = "idle" /\ batch'[x] = {}
           /\ \A y \in Runs : Loop(y)'
           /\ \A y \in Runs, d \in Deliveries : Waits(y, d)' => Waits(y, d)
<1>1. /\ TypeOK /\ current[x] \in batch[x] /\ current[x] \in Deliveries
      /\ batch[x] \in SUBSET Deliveries
  BY DEF OutboxInv, Loop, TypeOK
<1>2. CASE step[x] = "delivered"
  <2>1. Goto(x, "retry", current[x], batch[x])
    BY <1>2 DEF Thrown
  <2>2. /\ step' \in [Runs -> Steps] /\ batch' \in [Runs -> SUBSET Deliveries]
        /\ current' \in [Runs -> Deliveries \cup {None}]
        /\ step'[x] = "retry" /\ current'[x] = current[x] /\ batch'[x] = batch[x]
        /\ \A y \in Runs \ {x} :
             step'[y] = step[y] /\ current'[y] = current[y] /\ batch'[y] = batch[y]
    BY <1>1, <2>1, GotoMoves DEF Steps, Outcomes
  <2>3. \A y \in Runs : Loop(y)'
    BY <1>1, <2>2 DEF OutboxInv, Loop, Outcomes
  <2>4. \A y \in Runs, d \in Deliveries : Waits(y, d)' => Waits(y, d)
    BY <2>2 DEF Waits, Outcomes
  <2> QED
    BY <1>2, <2>2, <2>3, <2>4
<1>3. CASE step[x] # "delivered"
  <2> DEFINE rest == {}
  <2>0. Goto(x, "idle", None, rest)
    BY <1>3 DEF Thrown, Abandon
  <2>1. rest \in SUBSET Deliveries /\ "idle" \in Steps
    BY DEF Steps
  <2>3. rest = {}
    OBVIOUS
  <2> HIDE DEF rest
  <2>2. /\ step' \in [Runs -> Steps] /\ batch' \in [Runs -> SUBSET Deliveries]
        /\ current' \in [Runs -> Deliveries \cup {None}]
        /\ step'[x] = "idle" /\ current'[x] = None /\ batch'[x] = rest
        /\ \A y \in Runs \ {x} :
             step'[y] = step[y] /\ current'[y] = current[y] /\ batch'[y] = batch[y]
    BY <1>1, <2>0, <2>1, GotoMoves
  <2>4. \A y \in Runs : Loop(y)'
    BY <2>2, <2>3 DEF OutboxInv, Loop, Outcomes
  <2>5. \A y \in Runs, d \in Deliveries : Waits(y, d)' => Waits(y, d)
    BY <2>2, <2>3 DEF Waits, Outcomes
  <2> QED
    BY <2>2, <2>3, <2>4, <2>5
<1> QED
  BY <1>2, <1>3

LEMMA CompleteKeepsInv ==
    ASSUME OutboxInv, NEW x \in Runs, Complete(x)
    PROVE  OutboxInv'
<1> DEFINE d == current[x]
<1>1. /\ TypeOK /\ step[x] \in Outcomes /\ sent' = sent /\ failures' = failures
      /\ d \in batch[x] /\ d \in Deliveries
      /\ step[x] = "delivered" => sent[d] > 0
      /\ \A q \in Deliveries : Explained(q)
      /\ \A y \in Runs : batch[y] \subseteq Deliveries
  BY DEF Complete, OutboxInv, Loop, TypeOK
<1>2. CASE Owned(x, d)
  <2>1. CompleteRow(d, step[x]) /\ GoOn(x)
    BY <1>2 DEF Complete
  <2>2. /\ status' \in [Deliveries -> Settled \cup {"absent", "pending", "leased", "retry"}]
        /\ owner' \in [Deliveries -> Workers \cup {None}]
        /\ \A q \in Deliveries : owner'[q] # None <=> status'[q] = "leased"
        /\ lease' \in [Deliveries -> 0 .. Lease]
        /\ wait' \in [Deliveries -> 0 .. RetryDelay]
        /\ outcome' \in [Deliveries -> [1 .. AttemptsCheck -> Outcomes \cup {"none"}]]
        /\ attempts' = attempts
        /\ \A q \in Deliveries : Explained(q)'
        /\ status'[d] \in Outcomes
        /\ status'[d] = "retry" => step[x] = "retry"
        /\ \A q \in Deliveries \ {d} : status'[q] = status[q] /\ owner'[q] = owner[q]
                                       /\ lease'[q] = lease[q]
    BY <1>1, <1>2, <2>1, CompletedRows
  <2>3. /\ step' \in [Runs -> Steps] /\ batch' \in [Runs -> SUBSET Deliveries]
        /\ current' \in [Runs -> Deliveries \cup {None}]
        /\ \A y \in Runs \ {x} :
             step'[y] = step[y] /\ current'[y] = current[y] /\ batch'[y] = batch[y]
        /\ batch'[x] = batch[x] \ {d} /\ step'[x] \in {"idle", "next"}
        /\ \A y \in Runs : Loop(y)'
        /\ \A y \in Runs, q \in Deliveries : Waits(y, q)' <=> Waits(y, q)
    BY <1>1, <2>1, BatchGoesOn
  <2>4. TypeOK'
    BY <1>1, <2>2, <2>3 DEF TypeOK, Steps
  <2>5. \A q \in Deliveries : Counted(q)'
    <3>1. \A q \in Deliveries : status'[q] # "deleted" => status[q] # "deleted"
      BY <1>2, <2>2 DEF Owned, Outcomes
    <3> QED
      BY <1>1, <2>2, <2>3, <3>1, FewerWait DEF OutboxInv
  <2>6. InTurn'
    <3> SUFFICES ASSUME failures = 0 PROVE InTurn'
      BY <1>1 DEF InTurn
    <3>1. \A y \in Runs : d \in batch[y] => y = x
      BY <1>1 DEF OutboxInv, InTurn
    <3>2. step[x] # "retry" /\ status'[d] \notin {"absent", "pending", "leased", "retry"}
      BY <1>1, <1>2, <2>2 DEF OutboxInv, InTurn, Owned, Outcomes
    <3>3. \A y \in Runs : \A q \in batch'[y] : q \in batch[y] /\ q \in Deliveries /\ q # d
      BY <1>1, <2>3, <3>1
    <3>4. \A y \in Runs : \A q \in batch'[y] :
            \/ status'[q] = "deleted"
            \/ status'[q] = "leased" /\ owner'[q] = WorkerOf[y] /\ lease'[q] > 0
      <4> TAKE y \in Runs
      <4> TAKE q \in batch'[y]
      <4>1. q \in batch[y] /\ q \in Deliveries \ {d}
        BY <3>3
      <4>2. \/ status[q] = "deleted"
            \/ status[q] = "leased" /\ owner[q] = WorkerOf[y] /\ lease[q] > 0
        BY <4>1 DEF OutboxInv, InTurn
      <4> QED
        BY <2>2, <4>1, <4>2
    <3>5. \A y, z \in Runs : \A q \in Deliveries : q \in batch'[y] /\ q \in batch'[z] => y = z
      BY <3>3 DEF OutboxInv, InTurn
    <3>6. ASSUME NEW y \in Runs, step'[y] = "retry" PROVE status'[current'[y]] = "deleted"
      <4>1. y # x /\ step[y] = "retry" /\ current'[y] = current[y]
        BY <2>3, <3>6
      <4>2. current[y] \in batch[y]
        BY <4>1 DEF OutboxInv, Loop, Outcomes
      <4>3. current[y] \in Deliveries \ {d}
        BY <1>1, <3>1, <4>1, <4>2
      <4> QED
        BY <2>2, <4>1, <4>3 DEF OutboxInv, InTurn
    <3>7. ASSUME NEW q \in Deliveries
          PROVE  /\ status'[q] # "retry"
                 /\ sent'[q] <= 1
                 /\ \/ status'[q] \in {"absent", "pending"}
                    \/ \E y \in Runs : Waits(y, q)'
                    \/ status'[q] = "leased" /\ \A y \in Runs : q \notin batch'[y]
                    => sent'[q] = 0
      <4>1. CASE q = d
        <5>1. \A y \in Runs : ~Waits(y, q)
          BY <1>1, <3>1, <4>1 DEF Waits
        <5> QED
          BY <1>1, <2>3, <3>2, <4>1, <5>1 DEF OutboxInv, InTurn
      <4>2. CASE q # d
        <5>1. \A y \in Runs : q \in batch'[y] <=> q \in batch[y]
          BY <2>3, <4>2
        <5> QED
          BY <1>1, <2>2, <2>3, <4>2, <5>1 DEF OutboxInv, InTurn
      <4> QED
        BY <4>1, <4>2
    <3> QED
      BY <3>4, <3>5, <3>6, <3>7 DEF InTurn
  <2> QED
    BY <2>2, <2>3, <2>4, <2>5, <2>6 DEF OutboxInv
<1>3. CASE ~Owned(x, d)
  <2>1. Thrown(x) /\ UNCHANGED <<status, attempts, owner, lease, wait, outcome>>
    BY <1>3 DEF Complete, rows
  <2>2. /\ step' \in [Runs -> Steps] /\ batch' \in [Runs -> SUBSET Deliveries]
        /\ current' \in [Runs -> Deliveries \cup {None}]
        /\ \A y \in Runs \ {x} :
             step'[y] = step[y] /\ current'[y] = current[y] /\ batch'[y] = batch[y]
        /\ \/ /\ step[x] = "delivered" /\ step'[x] = "retry"
              /\ current'[x] = d /\ batch'[x] = batch[x]
           \/ step'[x] = "idle" /\ batch'[x] = {}
        /\ \A y \in Runs : Loop(y)'
        /\ \A y \in Runs, q \in Deliveries : Waits(y, q)' => Waits(y, q)
    BY <1>1, <2>1, BatchIsThrown
  <2>3. TypeOK'
    BY <1>1, <2>1, <2>2 DEF TypeOK, Steps
  <2>4. \A q \in Deliveries : Explained(q)'
    BY <1>1, <2>1 DEF Explained
  <2>5. \A q \in Deliveries : Counted(q)'
    BY <1>1, <2>1, <2>2, FewerWait DEF OutboxInv
  <2>6. InTurn'
    <3> SUFFICES ASSUME failures = 0 PROVE InTurn'
      BY <1>1 DEF InTurn
    <3>1. status[d] = "deleted"
      BY <1>1, <1>3 DEF OutboxInv, InTurn, Owned
    <3>2. \A y \in Runs : \A q \in batch'[y] : q \in batch[y]
      BY <2>2
    <3>3. \A y \in Runs : step'[y] = "retry" => status'[current'[y]] = "deleted"
      BY <2>1, <2>2, <3>1 DEF OutboxInv, InTurn
    <3>4. ASSUME NEW q \in Deliveries
          PROVE  \/ status'[q] \in {"absent", "pending"}
                 \/ \E y \in Runs : Waits(y, q)'
                 \/ status'[q] = "leased" /\ \A y \in Runs : q \notin batch'[y]
                 => sent'[q] = 0
      <4>1. CASE \E y \in Runs : Waits(y, q)
        BY <1>1, <4>1 DEF OutboxInv, InTurn
      <4>2. CASE \A y \in Runs : ~Waits(y, q)
        <5>1. ~\E y \in Runs : Waits(y, q)'
          BY <2>2, <4>2
        <5>2. status[q] = "leased" => \A y \in Runs \ {x} : q \in batch'[y] <=> q \in batch[y]
          BY <2>2
        <5>3. status[q] = "leased" => q \notin batch[x]
          BY <3>1, <4>2 DEF Waits
        <5> QED
          BY <1>1, <2>1, <5>1, <5>2, <5>3 DEF OutboxInv, InTurn
      <4> QED
        BY <4>1, <4>2
    <3> QED
      BY <1>1, <2>1, <3>2, <3>3, <3>4 DEF OutboxInv, InTurn
  <2> QED
    BY <2>2, <2>3, <2>4, <2>5, <2>6 DEF OutboxInv
<1> QED
  BY <1>2, <1>3

LEMMA CompleteFailsKeepsInv ==
    ASSUME OutboxInv, NEW x \in Runs, CompleteFails(x)
    PROVE  OutboxInv'
<1> DEFINE d == current[x]
<1>1. /\ TypeOK /\ step[x] \in Outcomes /\ sent' = sent
      /\ failures' \in 0 .. MaxFailures /\ failures' > 0
      /\ d \in Deliveries
      /\ step[x] = "delivered" => sent[d] > 0
      /\ \A q \in Deliveries : Explained(q)
  BY OutboxAssumption DEF CompleteFails, OutboxInv, Loop, TypeOK
<1>2. /\ step' \in [Runs -> Steps] /\ batch' \in [Runs -> SUBSET Deliveries]
      /\ current' \in [Runs -> Deliveries \cup {None}]
      /\ \A y \in Runs : Loop(y)'
      /\ \A y \in Runs, q \in Deliveries : Waits(y, q)' => Waits(y, q)
  <2>1. Thrown(x)
    BY DEF CompleteFails
  <2> QED
    BY <1>1, <2>1, BatchIsThrown
<1>3. /\ status' \in [Deliveries -> Settled \cup {"absent", "pending", "leased", "retry"}]
      /\ owner' \in [Deliveries -> Workers \cup {None}]
      /\ \A q \in Deliveries : owner'[q] # None <=> status'[q] = "leased"
      /\ lease' \in [Deliveries -> 0 .. Lease]
      /\ wait' \in [Deliveries -> 0 .. RetryDelay]
      /\ outcome' \in [Deliveries -> [1 .. AttemptsCheck -> Outcomes \cup {"none"}]]
      /\ attempts' = attempts
      /\ \A q \in Deliveries : Explained(q)'
      /\ \A q \in Deliveries : status'[q] # "deleted" => status[q] # "deleted"
  <2>1. CASE Owned(x, d) /\ CompleteRow(d, step[x])
    <3>1. /\ status' \in [Deliveries -> Settled \cup {"absent", "pending", "leased", "retry"}]
          /\ owner' \in [Deliveries -> Workers \cup {None}]
          /\ \A q \in Deliveries : owner'[q] # None <=> status'[q] = "leased"
          /\ lease' \in [Deliveries -> 0 .. Lease]
          /\ wait' \in [Deliveries -> 0 .. RetryDelay]
          /\ outcome' \in [Deliveries -> [1 .. AttemptsCheck -> Outcomes \cup {"none"}]]
          /\ attempts' = attempts
          /\ \A q \in Deliveries : Explained(q)'
          /\ status'[d] \in Outcomes
          /\ \A q \in Deliveries \ {d} : status'[q] = status[q]
      BY <1>1, <2>1, CompletedRows
    <3> QED
      BY <2>1, <3>1 DEF Owned, Outcomes
  <2>2. CASE UNCHANGED rows
    BY <1>1, <2>2 DEF rows, TypeOK, Explained
  <2> QED
    BY <2>1, <2>2 DEF CompleteFails
<1>4. TypeOK'
  BY <1>1, <1>2, <1>3 DEF TypeOK, Steps
<1>5. \A q \in Deliveries : Counted(q)'
  BY <1>1, <1>2, <1>3, FewerWait DEF OutboxInv
<1>6. InTurn'
  BY <1>1 DEF InTurn
<1> QED
  BY <1>2, <1>3, <1>4, <1>5, <1>6 DEF OutboxInv

LEMMA CrashKeepsInv ==
    ASSUME OutboxInv, NEW w \in Workers, Crash(w)
    PROVE  OutboxInv'
<1> DEFINE hit == {x \in Runs : WorkerOf[x] = w}
<1>1. /\ TypeOK /\ UNCHANGED <<status, attempts, owner, lease, wait, outcome, sent>>
      /\ failures' \in 0 .. MaxFailures /\ failures' > 0
      /\ step' = [x \in Runs |-> IF x \in hit THEN "idle" ELSE step[x]]
      /\ batch' = [x \in Runs |-> IF x \in hit THEN {} ELSE batch[x]]
      /\ current' = [x \in Runs |-> IF x \in hit THEN None ELSE current[x]]
  BY OutboxAssumption DEF Crash, OutboxInv, TypeOK, rows
<1> HIDE DEF hit
<1>2. TypeOK'
  BY <1>1 DEF TypeOK
<1>3. \A x \in Runs : Loop(x)'
  BY <1>1 DEF OutboxInv, Loop, Outcomes
<1>4. \A q \in Deliveries : Explained(q)'
  BY <1>1 DEF OutboxInv, Explained
<1>5. \A x \in Runs, q \in Deliveries : Waits(x, q)' => Waits(x, q)
  BY <1>1 DEF Waits
<1>6. \A q \in Deliveries : Counted(q)'
  BY <1>1, <1>5, FewerWait DEF OutboxInv
<1>7. InTurn'
  BY <1>1 DEF InTurn
<1> QED
  BY <1>2, <1>3, <1>4, <1>6, <1>7 DEF OutboxInv

LEMMA TickKeepsInv ==
    ASSUME OutboxInv, Tick
    PROVE  OutboxInv'
<1> USE OutboxAssumption
<1>1. /\ TypeOK /\ UNCHANGED <<status, attempts, owner, outcome, sent, step, batch, current>>
      /\ lease' = [d \in Deliveries |-> Less(lease[d])]
      /\ wait' = [d \in Deliveries |-> Less(wait[d])]
  BY DEF Tick, OutboxInv, runs
<1>2. \A d \in Deliveries : lease[d] \in 0 .. Lease /\ wait[d] \in 0 .. RetryDelay
  BY <1>1 DEF TypeOK
<1>3. /\ \A d \in Deliveries : lease'[d] = IF lease[d] > 0 THEN lease[d] - 1 ELSE 0
      /\ lease' \in [Deliveries -> 0 .. Lease] /\ wait' \in [Deliveries -> 0 .. RetryDelay]
  BY <1>1, <1>2 DEF Less
<1>4. failures' \in 0 .. MaxFailures /\ failures' >= failures
      /\ (Overtaken => failures' > 0)
  BY <1>1 DEF Tick, TypeOK
<1>5. TypeOK'
  BY <1>1, <1>3, <1>4 DEF TypeOK
<1>6. \A x \in Runs : Loop(x)'
  BY <1>1 DEF OutboxInv, Loop
<1>7. \A q \in Deliveries : Explained(q)'
  BY <1>1 DEF OutboxInv, Explained
<1>8. \A x \in Runs, q \in Deliveries : Waits(x, q)' <=> Waits(x, q)
  BY <1>1 DEF Waits
<1>9. \A q \in Deliveries : Counted(q)'
  BY <1>1, <1>8, FewerWait DEF OutboxInv
<1>10. InTurn'
  <2> SUFFICES ASSUME failures' = 0 PROVE InTurn'
    BY DEF InTurn
  <2>1. failures = 0 /\ ~Overtaken
    BY <1>1, <1>4 DEF TypeOK
  <2>2. \A x \in Runs : \A d \in batch[x] : lease[d] # 1 /\ d \in Deliveries
    BY <1>1, <2>1 DEF Overtaken, TypeOK
  <2>3. \A x \in Runs : \A d \in batch[x] : lease[d] > 0 => lease'[d] > 0
    BY <1>2, <1>3, <2>2
  <2> QED
    BY <1>1, <1>8, <2>1, <2>3 DEF OutboxInv, InTurn
<1> QED
  BY <1>5, <1>6, <1>7, <1>9, <1>10 DEF OutboxInv

-----------------------------------------------------------------------------
(* The theorems.                                                           *)

LEMMA InitHolds == Init => OutboxInv
<1> SUFFICES ASSUME Init PROVE OutboxInv
  OBVIOUS
<1> USE OutboxAssumption
<1>1. TypeOK
  BY DEF Init, TypeOK
<1>2. \A x \in Runs : Loop(x)
  BY DEF Init, Loop, Outcomes
<1>3. \A d \in Deliveries : Explained(d)
  BY DEF Init, Explained, Outcomes
<1>4. \A x \in Runs : batch[x] = {} /\ step[x] = "idle"
  BY DEF Init
<1>5. \A d \in Deliveries : Counted(d)
  <2> TAKE d \in Deliveries
  <2>1. Waiting(d) = {}
    BY <1>4 DEF Waiting, Waits
  <2>2. sent[d] = 0 /\ attempts[d] = 0
    BY DEF Init
  <2> QED
    BY <2>1, <2>2, FS_EmptySet DEF Counted
<1>6. InTurn
  BY <1>4 DEF Init, InTurn
<1> QED
  BY <1>1, <1>2, <1>3, <1>5, <1>6 DEF OutboxInv

LEMMA NextKeepsInv ==
    ASSUME OutboxInv, [Next]_vars
    PROVE  OutboxInv'
<1>1. CASE UNCHANGED vars
  <2>1. UNCHANGED <<status, attempts, owner, lease, wait, outcome, sent, step, batch,
                    current, failures>>
    BY <1>1 DEF vars, rows, runs
  <2>2. \A d \in Deliveries : Waiting(d)' = Waiting(d)
    BY <2>1 DEF Waiting, Waits
  <2>3. \A d \in Deliveries : Counted(d)'
    BY <2>1, <2>2 DEF OutboxInv, Counted
  <2>4. InTurn'
    BY <2>1 DEF OutboxInv, InTurn, Waits
  <2> QED
    BY <2>1, <2>3, <2>4 DEF OutboxInv, TypeOK, Loop, Explained
<1>2. ASSUME NEW d \in Deliveries, Dispatch(d) \/ Delete(d) PROVE OutboxInv'
  BY <1>2, DispatchKeepsInv, DeleteKeepsInv
<1>3. ASSUME NEW x \in Runs, Claim(x) \/ Complete(x) \/ CompleteFails(x) PROVE OutboxInv'
  BY <1>3, ClaimKeepsInv, CompleteKeepsInv, CompleteFailsKeepsInv
<1>4. ASSUME NEW x \in Runs, NEW d \in Deliveries, Send(x, d) \/ SendFails(x, d)
      PROVE  OutboxInv'
  BY <1>4, SendKeepsInv, SendFailsKeepsInv
<1>5. ASSUME NEW w \in Workers, Crash(w) PROVE OutboxInv'
  BY <1>5, CrashKeepsInv
<1>6. CASE Tick
  BY <1>6, TickKeepsInv
<1> QED
  BY <1>1, <1>2, <1>3, <1>4, <1>5, <1>6 DEF Next

LEMMA InvHolds == Spec => []OutboxInv
<1>1. OutboxInv /\ [Next]_vars => OutboxInv'
  BY NextKeepsInv
<1> QED
  BY <1>1, InitHolds, PTL DEF Spec

\* The rows and the runs keep their types, and exactly the leased rows have an owner.
THEOREM TypeCorrect == Spec => []TypeOK
<1>1. OutboxInv => TypeOK
  BY DEF OutboxInv
<1> QED
  BY <1>1, InvHolds, PTL

\* However many runs drain the outbox at once, a message goes out once until a call
\* fails, a process dies or a lease ends under a batch, and then once for each claim.
THEOREM SentOnce == Spec => []SentAgainOnlyAfterFailure
<1>1. ASSUME OutboxInv, NEW d \in Deliveries, status[d] # "deleted"
      PROVE  sent[d] <= attempts[d]
  <2>1. /\ sent[d] \in Nat /\ attempts[d] \in Nat /\ Cardinality(Waiting(d)) \in Nat
        /\ sent[d] + Cardinality(Waiting(d)) <= attempts[d]
    BY <1>1, FS_CardinalityType DEF OutboxInv, TypeOK, Counted
  <2> QED
    BY <2>1
<1>2. OutboxInv => SentAgainOnlyAfterFailure
  BY <1>1 DEF OutboxInv, InTurn, SentAgainOnlyAfterFailure
<1> QED
  BY <1>2, InvHolds, PTL

\* The last recorded attempt says why a row is where it is, although runs of one process
\* pass for each other and late ones report results of their own.
THEOREM AttemptsExplain == Spec => []AttemptsExplainTheRow
<1>1. OutboxInv => AttemptsExplainTheRow
  BY DEF OutboxInv, Explained, AttemptsExplainTheRow
<1> QED
  BY <1>1, InvHolds, PTL

\* No run that comes late takes a settled delivery back: claims pass it over, and a
\* completion needs the lease.
THEOREM SettledStays == Spec => SettledStaysSettled
<1> DEFINE Stays == \A d \in Deliveries :
               status[d] \in Settled => status'[d] \in {status[d], "deleted"}
<1>1. OutboxInv /\ [Next]_vars => [Stays]_vars
  <2> SUFFICES ASSUME OutboxInv, Next PROVE Stays
    OBVIOUS
  <2>1. status \in [Deliveries -> Settled \cup {"absent", "pending", "leased", "retry"}]
    BY DEF OutboxInv, TypeOK
  <2>2. ASSUME NEW d \in Deliveries, Dispatch(d) \/ Delete(d) PROVE Stays
    BY <2>1, <2>2 DEF Dispatch, Delete, Settled
  <2>3. ASSUME NEW x \in Runs, Claim(x) PROVE Stays
    BY <2>3 DEF Claim, NextBatches, Claimable, Settled
  <2>4. ASSUME NEW x \in Runs, NEW result, Owned(x, current[x]), CompleteRow(current[x], result)
        PROVE  Stays
    BY <2>1, <2>4 DEF Owned, CompleteRow, Settled
  <2>5. ASSUME UNCHANGED status PROVE Stays
    BY <2>5
  <2>6. ASSUME NEW x \in Runs, Complete(x) \/ CompleteFails(x) PROVE Stays
    BY <2>4, <2>5, <2>6 DEF Complete, CompleteFails, rows
  <2>7. ASSUME NEW x \in Runs, NEW d \in Deliveries, Send(x, d) \/ SendFails(x, d)
        PROVE  UNCHANGED status
    BY <2>7 DEF Send, SendFails, rows
  <2>8. ASSUME NEW w \in Workers, Crash(w) \/ Tick PROVE UNCHANGED status
    BY <2>8 DEF Crash, Tick, rows
  <2>9. ASSUME Tick PROVE UNCHANGED status
    BY <2>9 DEF Tick
  <2> QED
    BY <2>2, <2>3, <2>5, <2>6, <2>7, <2>8, <2>9 DEF Next
<1> QED
  BY <1>1, InvHolds, PTL DEF Spec, SettledStaysSettled
=============================================================================
