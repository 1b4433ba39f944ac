------------------------- MODULE ScheduledJobLease -------------------------
(***************************************************************************)
(* The database lease of one scheduled job (migrations 00037, 00072 and    *)
(* 00115) and the worker runtime that runs the job under it.               *)
(*                                                                         *)
(* The queue hands the job to any process, and to several executions of    *)
(* one process; the lease decides who runs.  The owner it records is the   *)
(* process.  Times count down.                                             *)
(***************************************************************************)
EXTENDS Integers

CONSTANTS
    Processes,      \* worker processes; each has one ownerId
    Executions,     \* queue jobs the processes can execute at once
    ProcessOf,      \* the process of each execution
    Lease,          \* seconds a claim or a renewal leases the job for
    Interval,       \* seconds between two runs
    RetryInterval,  \* the shorter one after a run that failed for good
    RenewalsInTime, \* TRUE where renewals reach the database before expiry
    MaxFailures,    \* bound on renewals that fail and on processes that die
    None

ASSUME LeaseAssumption ==
    /\ ProcessOf \in [Executions -> Processes]
    /\ Lease \in Nat \ {0} /\ Interval \in Nat \ {0}
    /\ RetryInterval \in 1 .. Interval /\ MaxFailures \in Nat
    /\ RenewalsInTime \in BOOLEAN
    /\ None \notin Processes \cup Executions

VARIABLES
    owner,      \* scheduled_jobs.owner_id
    lease,      \* what is left until leased_until
    wait,       \* what is left until next_run_at
    holder,     \* the execution whose claim the lease is (in no column)
    exec,       \* the step each execution is at
    lost,       \* its leaseLost flag
    failures

row == <<owner, lease, wait, holder>>
vars == <<owner, lease, wait, holder, exec, lost, failures>>

Init ==
    /\ owner = None /\ lease = 0 /\ wait = 0 /\ holder = None
    /\ exec = [x \in Executions |-> "idle"]
    /\ lost = [x \in Executions |-> FALSE]
    /\ failures = 0

Running(x) == exec[x] # "idle"

\* job.run() is under way and nothing told it that the lease is gone.
Holds(x) == exec[x] = "running" /\ ~lost[x]

Goto(x, step) == exec' = [exec EXCEPT ![x] = step]

-----------------------------------------------------------------------------
(* The functions of the database.                                          *)

\* Mutants: a lease is taken over while it lasts; a lease is never taken over.
ClaimableWhenDue == wait = 0
ClaimableIfFree == wait = 0 /\ owner = None

Claimable == wait = 0 /\ lease = 0

\* Completion and release are fenced by the owner alone; refused, they raise.
Owned(x) == owner = ProcessOf[x]

LastCalls == {"complete", "complete-error", "release"}

-----------------------------------------------------------------------------
(* ScheduledWorkerRuntime.execute.                                         *)

\* claim_scheduled_job; a queue job that cannot claim it is skipped.
Claim(x) ==
    /\ ~Running(x) /\ Claimable
    /\ owner' = ProcessOf[x] /\ lease' = Lease /\ holder' = x
    /\ Goto(x, "running")
    /\ lost' = [lost EXCEPT ![x] = FALSE]
    /\ UNCHANGED <<wait, failures>>

\* The renewal timer, which is cleared only when the run is over.
Renew(x) ==
    /\ Running(x)
    /\ IF Owned(x) /\ lease > 0
       THEN lease' = Lease /\ UNCHANGED lost
       ELSE lost' = [lost EXCEPT ![x] = TRUE] /\ UNCHANGED lease
    /\ UNCHANGED <<owner, wait, holder, exec, failures>>

RenewalFails(x) ==
    /\ failures < MaxFailures
    /\ Running(x)
    /\ failures' = failures + 1
    /\ lost' = [lost EXCEPT ![x] = TRUE]
    /\ UNCHANGED <<row, exec>>

\* Where the catch block goes: a lost lease leaves without touching the row, the
\* last attempt of the queue job completes with an error, another one releases
\* the job for its retry.
Caught(x) == IF lost[x] THEN {"idle"} ELSE {"complete-error", "release"}

\* job.run() returned; a lost lease is thrown.
RunReturns(x) ==
    /\ exec[x] = "running"
    /\ Goto(x, IF lost[x] THEN "idle" ELSE "complete")
    /\ UNCHANGED <<row, lost, failures>>

RunThrows(x) ==
    /\ exec[x] = "running"
    /\ \E step \in Caught(x) : Goto(x, step)
    /\ UNCHANGED <<row, lost, failures>>

\* complete_scheduled_job, with and without an error, and
\* release_scheduled_job_for_retry: when the job may run next.
NextRunIn(step) == CASE step = "complete"       -> Interval
                     [] step = "complete-error" -> RetryInterval
                     [] step = "release"        -> 0

SettleRow(x) ==
    IF Owned(x)
    THEN owner' = None /\ lease' = 0 /\ holder' = None /\ wait' = NextRunIn(exec[x])
    ELSE UNCHANGED row

\* A refused completion throws into the catch block like a run that failed.
AfterError(x) ==
    \E step \in IF exec[x] = "complete" THEN Caught(x) ELSE {"idle"} : Goto(x, step)

Settle(x) ==
    /\ exec[x] \in LastCalls
    /\ SettleRow(x)
    /\ IF Owned(x) THEN Goto(x, "idle") ELSE AfterError(x)
    /\ UNCHANGED <<lost, failures>>

\* The call throws before it reaches the database, or after it took effect.
SettleFails(x) ==
    /\ failures < MaxFailures
    /\ exec[x] \in LastCalls
    /\ failures' = failures + 1
    /\ SettleRow(x) \/ UNCHANGED row
    /\ AfterError(x)
    /\ UNCHANGED lost

\* The process dies; its lease stays until it ends.
Crash(p) ==
    /\ failures < MaxFailures
    /\ \E x \in Executions : ProcessOf[x] = p /\ Running(x)
    /\ failures' = failures + 1
    /\ exec' = [x \in Executions |-> IF ProcessOf[x] = p THEN "idle" ELSE exec[x]]
    /\ UNCHANGED <<row, lost>>

Less(n) == IF n > 0 THEN n - 1 ELSE 0

\* A third of the lease passes between renewals; where they are in time the lease
\* of a healthy run does not end.
Tick ==
    /\ RenewalsInTime => \A x \in Executions : Holds(x) => lease # 1
    /\ lease' = Less(lease) /\ wait' = Less(wait)
    /\ UNCHANGED <<owner, holder, exec, lost, failures>>

Next ==
    \/ \E x \in Executions : Claim(x) \/ Renew(x) \/ RenewalFails(x)
                             \/ RunReturns(x) \/ RunThrows(x)
                             \/ Settle(x) \/ SettleFails(x)
    \/ \E p \in Processes : Crash(p)
    \/ Tick

Spec == Init /\ [][Next]_vars

\* Time passes, the queue keeps delivering the job, and a run ends.
FairSpec ==
    /\ Spec
    /\ WF_vars(Tick)
    /\ WF_vars(\E x \in Executions : Claim(x))
    /\ \A x \in Executions : WF_vars(Renew(x)) /\ WF_vars(RunReturns(x) \/ RunThrows(x))
                             /\ WF_vars(Settle(x))

-----------------------------------------------------------------------------
(* Properties.                                                             *)

TypeOK ==
    /\ owner \in Processes \cup {None}
    /\ lease \in 0 .. Lease
    /\ wait \in 0 .. Interval
    /\ holder \in Executions \cup {None}
    /\ exec \in [Executions -> LastCalls \cup {"idle", "running"}]
    /\ lost \in [Executions -> BOOLEAN]
    /\ failures \in 0 .. MaxFailures

\* The lease makes a job run once at a time: of two runs that overlap, one knows
\* that its lease is gone.  It takes renewals that reach the database in time, and
\* processes that execute one queue job of this name at a time (Separate).
OneRunAtATime == \A x, y \in Executions : Holds(x) /\ Holds(y) => x = y

Separate == \A x, y \in Executions : ProcessOf[x] = ProcessOf[y] => x = y

\* The job runs again and again: a process that dies holding the lease, a release
\* that never arrives or a refused completion does not leave it leased for ever.
JobRunsAgain == []<>(\E x \in Executions : exec[x] = "running")

=============================================================================
