--------------------------- MODULE JobSubmission ---------------------------
(***************************************************************************)
(* JobQueue.enqueueUnique (src/backend/src/queue/index.ts): look for a job  *)
(* of the task, then insert one.  Each half is a statement of its own on    *)
(* the shared table.  Within a process nothing comes between them; between  *)
(* processes everything may.                                                *)
(*                                                                          *)
(* The worker's side is kept to the statuses the gate looks at: a job runs  *)
(* as in JobStore and ends completed, failed for a retry, or parked.        *)
(***************************************************************************)
EXTENDS JobStore

CONSTANTS Tasks,
          TaskOf,        \* TaskOf[j]: the task job j was created for
          Callers,       \* backend processes that submit jobs
          NoTask

ASSUME SubmissionAssumption ==
  /\ TaskOf \in [Jobs -> Tasks]
  /\ NoTask \notin Tasks
  /\ IsFiniteSet(Callers)

VARIABLE passed   \* passed[c]: the task whose check caller c has just passed

submissionVars == <<jobs, passed>>

JobsOf(t) == {j \in Jobs : TaskOf[j] = t}

SubmissionInit == StoreInit /\ passed = [c \in Callers |-> NoTask]

\* Mutant: enqueue in place of enqueueUnique.
MutantCheck(c, t) ==
  /\ passed[c] = NoTask
  /\ passed' = [passed EXCEPT ![c] = t]
  /\ UNCHANGED jobs

\* The gate lets the task through; a DuplicateJobError changes nothing.
CheckPending(c, t) ==
  /\ passed[c] = NoTask
  /\ ~HasPendingJob(JobsOf(t))
  /\ passed' = [passed EXCEPT ![c] = t]
  /\ UNCHANGED jobs

\* enqueue, the call right after the check: its process does nothing in between.
InsertJob(c, j) ==
  /\ passed[c] = TaskOf[j]
  /\ jobs[j].status = "unsubmitted"
  /\ \E p \in Priorities, at \in CreationTimes : NotBackdated(at) /\ jobs' = Inserted(j, p, at)
  /\ passed' = [passed EXCEPT ![c] = NoTask]

ClaimNext(w, j) ==
  /\ j \in NextPending
  /\ jobs' = Claimed(j, w)
  /\ UNCHANGED passed

JobLeaves(j, status, attempts) ==
  /\ jobs[j].status = "active"
  /\ jobs' = StatusUpdated(j, {"active"}, [jobs[j] EXCEPT !.status = status, !.attempts = attempts])
  /\ UNCHANGED passed

JobCompletes(j) == JobLeaves(j, "completed", jobs[j].attempts)

JobFails(j) ==
  LET attempts == jobs[j].attempts + 1 IN
  JobLeaves(j, IF attempts < MaxAttempts THEN "failed" ELSE "dead-letter", attempts)

\* A caller between its two statements blocks its own event loop, not the others'.
SubmissionNext ==
  \/ \E c \in Callers, t \in Tasks : CheckPending(c, t)
  \/ \E c \in Callers, j \in Jobs : InsertJob(c, j)
  \/ \E w \in Workers, j \in Jobs : ClaimNext(w, j)
  \/ \E j \in Jobs : JobCompletes(j) \/ JobFails(j)

SubmissionSpec == SubmissionInit /\ [][SubmissionNext]_submissionVars

OpenJobs(t) == {j \in JobsOf(t) : HasPendingJob({j})}

\* The gate's real promise: a task never has more jobs queued or running than there
\* are processes submitting it, since each passes at most one check ahead of its
\* insert.  With one process that is the promise of enqueueUnique.
OpenJobsPerCaller ==
  \A t \in Tasks :
    Cardinality(OpenJobs(t)) + Cardinality({c \in Callers : passed[c] = t}) <= Cardinality(Callers)
=============================================================================
