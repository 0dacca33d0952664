------------------------------ MODULE JobStore ------------------------------
(***************************************************************************)
(* The job table of src/backend/src/queue/jobStore.ts: one row per job, and *)
(* one operator per SQL statement that writes it.  Every statement is one   *)
(* SQLite transaction over a file that several backend processes share, so  *)
(* each is a function from the table to the table, applied in one step.     *)
(*                                                                          *)
(* Time is relative.  A row keeps how long its lease has left and how long  *)
(* its next run is still delayed, and TimePasses moves every row one unit   *)
(* nearer.  Only the order of creation instants matters, so createdAt stays *)
(* an absolute number drawn from CreationTimes.                             *)
(***************************************************************************)
EXTENDS Integers, FiniteSets

CONSTANTS Jobs,           \* job ids; nanoid never issues one twice
          Workers,        \* worker ids that can own a lease
          NoOwner,        \* leaseOwner = NULL, and with it leaseExpiresAt = NULL
          Priorities,     \* the weights of PRIORITY_WEIGHTS in use
          CreationTimes,  \* instants at which rows may be inserted
          MaxAttempts,    \* JOB_MAX_ATTEMPTS, stamped on every row
          LeaseTtl,       \* JOB_LEASE_TTL_MS, in model time units
          BackoffBase,    \* JOB_BACKOFF_BASE_MS
          BackoffCap      \* JOB_BACKOFF_MAX_MS

ASSUME OwnersAssumption == NoOwner \notin Workers
ASSUME RowAssumption ==
  /\ Priorities \subseteq Nat
  /\ CreationTimes \subseteq Nat
  /\ MaxAttempts \in Nat \ {0}
  /\ LeaseTtl \in Nat \ {0}
  /\ BackoffBase \in Nat \ {0}
  /\ BackoffCap \in Nat \ {0}

VARIABLE jobs   \* the table: a row per job id, unsubmitted and purged included

\* "unsubmitted" and "purged" stand for an id that has no row yet, or no longer.
Statuses == {"unsubmitted", "pending", "active", "failed", "completed",
             "dead-letter", "purged"}

Row == [status     : Statuses,
        priority   : Priorities \cup {0},
        createdAt  : CreationTimes \cup {0},
        attempts   : 0 .. MaxAttempts,
        nextRunIn  : 0 .. BackoffCap,          \* 0: nextRunAt <= now
        leaseOwner : Workers \cup {NoOwner},
        leaseLeft  : -1 .. LeaseTtl]           \* -1: leaseExpiresAt < now, or NULL

Unlease(row) == [row EXCEPT !.leaseOwner = NoOwner, !.leaseLeft = -1]

Blank == [status |-> "unsubmitted", priority |-> 0, createdAt |-> 0, attempts |-> 0,
          nextRunIn |-> 0, leaseOwner |-> NoOwner, leaseLeft |-> -1]

StoreInit == jobs = [j \in Jobs |-> Blank]

(***************************************************************************)
(* Statements.  "runnable" and the ORDER BY of claimNextPendingJob come     *)
(* first: highest priority, then oldest; rows tied on both come in any      *)
(* order.                                                                   *)
(***************************************************************************)
\* Mutants: a claim without its status guard; one that forgets failed rows.
MutantClaimableTwice(row) == row.status \in {"pending", "active", "failed"}
MutantClaimableOnce(row)  == row.status = "pending"

Claimable(row) ==
  \/ row.status = "pending"
  \/ row.status = "failed" /\ row.attempts < MaxAttempts

Runnable(j) == Claimable(jobs[j]) /\ jobs[j].nextRunIn = 0

Precedes(i, j) ==
  \/ jobs[i].priority > jobs[j].priority
  \/ jobs[i].priority = jobs[j].priority /\ jobs[i].createdAt < jobs[j].createdAt

NextPending == {j \in Jobs : Runnable(j) /\ \A i \in Jobs : Runnable(i) => ~Precedes(i, j)}

\* insert, as enqueue calls it: the clock never goes back, so no row is older
\* than one inserted before it.
Inserted(j, p, c) ==
  [jobs EXCEPT ![j] = [status |-> "pending", priority |-> p, createdAt |-> c, attempts |-> 0,
                       nextRunIn |-> 0, leaseOwner |-> NoOwner, leaseLeft |-> -1]]

NotBackdated(c) == \A j \in Jobs : jobs[j].createdAt <= c

\* claimNextPendingJob: status and lease in one conditional UPDATE.
Claimed(j, w) ==
  [jobs EXCEPT ![j] = [@ EXCEPT !.status = "active", !.leaseOwner = w, !.leaseLeft = LeaseTtl]]

OwnsLease(j, w) == jobs[j].status = "active" /\ jobs[j].leaseOwner = w

\* Mutant: a heartbeat that only touches updatedAt.
MutantLeaseExtended(j, w) == jobs

\* extendLease; the caller needs to know whether the row matched.
LeaseExtended(j, w) ==
  IF OwnsLease(j, w) THEN [jobs EXCEPT ![j].leaseLeft = LeaseTtl] ELSE jobs

\* releaseLease, for each job of S in turn: the rows stay active.
LeasesReleased(S, w) ==
  [j \in Jobs |-> IF j \in S /\ OwnsLease(j, w) THEN Unlease(jobs[j]) ELSE jobs[j]]

\* updateStatus with an expectedStatus guard.  The lease columns are not touched.
StatusUpdated(j, expected, row) ==
  IF jobs[j].status \in expected THEN [jobs EXCEPT ![j] = row] ELSE jobs

\* Mutant: the recovery of before issue #648, which ignored leases.
MutantStale(row) == row.status = "active"

\* recoverIncompleteJobs: the attempt that was cut short is not counted.
Stale(row) == row.status = "active" /\ (row.leaseOwner = NoOwner \/ row.leaseLeft < 0)

\* Mutant: recovery grants a fresh budget, as a replay does.
MutantRecovered ==
  [j \in Jobs |-> IF Stale(jobs[j])
                  THEN Unlease([jobs[j] EXCEPT !.status = "pending", !.attempts = 0, !.nextRunIn = 0])
                  ELSE jobs[j]]

Recovered ==
  [j \in Jobs |-> IF Stale(jobs[j])
                  THEN Unlease([jobs[j] EXCEPT !.status = "pending", !.nextRunIn = 0])
                  ELSE jobs[j]]

\* retryDeadLetterJob: a fresh retry budget.
Replayed(j) ==
  IF jobs[j].status = "dead-letter"
  THEN [jobs EXCEPT ![j] = Unlease([@ EXCEPT !.status = "pending", !.attempts = 0, !.nextRunIn = 0])]
  ELSE jobs

\* purgeDeadLetters: S is what the cutoff selects among the parked rows.
Purged(S) ==
  [j \in Jobs |-> IF j \in S /\ jobs[j].status = "dead-letter"
                  THEN [jobs[j] EXCEPT !.status = "purged"]
                  ELSE jobs[j]]

\* hasPendingJobForTask, for the jobs S of one task.
HasPendingJob(S) == \E j \in S : jobs[j].status \in {"pending", "active", "failed"}

(***************************************************************************)
(* backoff.ts: floor(random * min(cap, base * 2^(attempt - 1))), random in  *)
(* [0, 1): every delay below the ceiling, and never the ceiling.            *)
(***************************************************************************)
\* Mutant: the exponential without its cap.
MutantBackoffDelays(attempt) == 0 .. BackoffBase * 2 ^ (attempt - 1) - 1

BackoffDelays(attempt) ==
  {delay \in 0 .. BackoffCap - 1 : delay < BackoffBase * 2 ^ (attempt - 1)}

\* One unit of time, for every row.
TimePasses ==
  [j \in Jobs |->
    [jobs[j] EXCEPT !.nextRunIn = IF @ > 0 THEN @ - 1 ELSE 0,
                    !.leaseLeft = IF @ >= 0 THEN @ - 1 ELSE -1]]
=============================================================================
