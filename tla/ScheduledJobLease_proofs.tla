---------------------- MODULE ScheduledJobLease_proofs ----------------------
(***************************************************************************)
(* For any processes, executions and durations: the columns keep their     *)
(* type, and a job runs once at a time where each process executes one     *)
(* queue job at a time and renewals are in time.                           *)
(***************************************************************************)
EXTENDS ScheduledJobLease, TLAPS

\* The columns of the job and the steps of its executions keep their type.
THEOREM TypeCorrect == Spec => []TypeOK
<1>1. Init => TypeOK
  BY LeaseAssumption DEF Init, TypeOK, LastCalls
<1>2. TypeOK /\ [Next]_vars => TypeOK'
  <2> SUFFICES ASSUME TypeOK, [Next]_vars PROVE TypeOK'
    OBVIOUS
  <2> USE LeaseAssumption DEF TypeOK, Goto, LastCalls
  <2> DEFINE Steps == LastCalls \cup {"idle", "running"}
  <2>1. ASSUME NEW x \in Executions, Claim(x) PROVE TypeOK'
    BY <2>1 DEF Claim, Running
  <2>2. ASSUME NEW x \in Executions, Renew(x) PROVE TypeOK'
    <3>1. CASE Owned(x) /\ lease > 0
      BY <2>2, <3>1 DEF Renew
    <3>2. CASE ~(Owned(x) /\ lease > 0)
      <4>1. lost' = [lost EXCEPT ![x] = TRUE] /\ UNCHANGED lease
        BY <2>2, <3>2 DEF Renew
      <4>2. UNCHANGED <<owner, wait, holder, exec, failures>>
        BY <2>2 DEF Renew
      <4> QED
        BY <4>1, <4>2
    <3> QED
      BY <3>1, <3>2
  <2>3. ASSUME NEW x \in Executions, RenewalFails(x) PROVE TypeOK'
    BY <2>3 DEF RenewalFails, row
  <2>4. ASSUME NEW x \in Executions, RunReturns(x) PROVE TypeOK'
    BY <2>4 DEF RunReturns, row
  <2>5. ASSUME NEW x \in Executions, RunThrows(x) PROVE TypeOK'
    BY <2>5 DEF RunThrows, Caught, row
  <2>6. ASSUME NEW x \in Executions, exec[x] \in LastCalls, SettleRow(x) \/ UNCHANGED row
        PROVE  /\ owner' \in Processes \cup {None} /\ lease' \in 0 .. Lease
               /\ wait' \in 0 .. Interval
               /\ holder' \in Executions \cup {None}
    BY <2>6 DEF SettleRow, NextRunIn, row
  <2>7. ASSUME NEW x \in Executions, AfterError(x) \/ Goto(x, "idle")
        PROVE  exec' \in [Executions -> Steps]
    BY <2>7 DEF AfterError, Caught
  <2>8. ASSUME NEW x \in Executions, Settle(x) PROVE TypeOK'
    BY <2>8, <2>6, <2>7 DEF Settle
  <2>9. ASSUME NEW x \in Executions, SettleFails(x) PROVE TypeOK'
    BY <2>9, <2>6, <2>7 DEF SettleFails
  <2>10. ASSUME NEW p \in Processes, Crash(p) PROVE TypeOK'
    BY <2>10 DEF Crash, row
  <2>11. CASE Tick
    BY <2>11 DEF Tick, Less
  <2>12. CASE UNCHANGED vars
    BY <2>12 DEF vars
  <2> QED
    BY <2>1, <2>2, <2>3, <2>4, <2>5, <2>8, <2>9, <2>10, <2>11, <2>12 DEF Next
<1> QED
  BY <1>1, <1>2, PTL DEF Spec

-----------------------------------------------------------------------------
\* The inductive invariant behind OneRunAtATime: the lease of the row is the one
\* of the run that believes to hold it, and it has not ended.
LeaseIsTheRuns ==
    \A x \in Executions : Holds(x) => owner = ProcessOf[x] /\ lease > 0

\* Where each process executes one queue job of this name at a time and renewals
\* are in time, two runs that both believe to hold the lease never overlap,
\* whatever crashes, throws or loses its answer.
THEOREM Exclusive ==
    ASSUME Separate, RenewalsInTime
    PROVE  Spec => []OneRunAtATime
<1>1. Init => LeaseIsTheRuns
  BY DEF Init, LeaseIsTheRuns, Holds
<1>2. TypeOK /\ LeaseIsTheRuns /\ [Next]_vars => LeaseIsTheRuns'
  <2> SUFFICES ASSUME TypeOK, LeaseIsTheRuns, [Next]_vars,
                      NEW x \in Executions, Holds(x)'
               PROVE  (owner = ProcessOf[x] /\ lease > 0)'
    BY DEF LeaseIsTheRuns
  <2> USE LeaseAssumption DEF TypeOK, LeaseIsTheRuns, Holds, Goto
  <2>1. ASSUME NEW y \in Executions, Claim(y) PROVE (owner = ProcessOf[x] /\ lease > 0)'
    BY <2>1 DEF Claim, Claimable, Running
  <2>2. ASSUME NEW y \in Executions, Renew(y) PROVE (owner = ProcessOf[x] /\ lease > 0)'
    BY <2>2 DEF Renew
  <2>3. ASSUME NEW y \in Executions, RenewalFails(y)
        PROVE  (owner = ProcessOf[x] /\ lease > 0)'
    BY <2>3 DEF RenewalFails, row
  <2>4. ASSUME NEW y \in Executions, RunReturns(y) \/ RunThrows(y)
        PROVE  (owner = ProcessOf[x] /\ lease > 0)'
    BY <2>4 DEF RunReturns, RunThrows, Caught, row
  <2>5. ASSUME NEW y \in Executions, Settle(y) \/ SettleFails(y)
        PROVE  (owner = ProcessOf[x] /\ lease > 0)'
    <3>1. x # y /\ Holds(x)
      BY <2>5 DEF Settle, SettleFails, AfterError, Caught, LastCalls
    <3>2. ~Owned(y)
      BY <3>1 DEF Separate, Owned
    <3> QED
      BY <2>5, <3>1, <3>2 DEF Settle, SettleFails, SettleRow, row
  <2>6. ASSUME NEW p \in Processes, Crash(p) PROVE (owner = ProcessOf[x] /\ lease > 0)'
    BY <2>6 DEF Crash, row
  <2>7. CASE Tick
    BY <2>7, RenewalsInTime DEF Tick, Less
  <2>8. CASE UNCHANGED vars
    BY <2>8 DEF vars
  <2> QED
    BY <2>1, <2>2, <2>3, <2>4, <2>5, <2>6, <2>7, <2>8 DEF Next
<1>3. LeaseIsTheRuns => OneRunAtATime
  BY DEF LeaseIsTheRuns, OneRunAtATime, Separate
<1> QED
  BY <1>1, <1>2, <1>3, TypeCorrect, PTL DEF Spec

=============================================================================
