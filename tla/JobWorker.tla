----------------------------- MODULE JobWorker -----------------------------
(***************************************************************************)
(* Several backend processes, each with one JobWorker                       *)
(* (src/backend/src/queue/worker.ts), over one job table: polling and       *)
(* claiming, running handlers, renewing leases, retrying and parking,       *)
(* graceful stop, crash and the recovery pass of the next start.            *)
(*                                                                          *)
(* A process that comes back is a new worker with a fresh workerId in the   *)
(* code.  Here it keeps its name: its slots and timers are gone, and a      *)
(* timer is what it takes to renew or release a lease, so the old leases    *)
(* are as foreign to it as under a fresh name.                              *)
(***************************************************************************)
EXTENDS JobStore

CONSTANTS NoJob,            \* a slot that runs nothing
          Slots,            \* one per unit of a worker's concurrency
          Heartbeat,        \* JOB_LEASE_HEARTBEAT_MS
          MaxLate,          \* how late the event loop may fire a heartbeat
          DrainMayTimeOut,  \* may handlers outlast the timeout of stop()?
          MaxDisruptions    \* bound on crashes, restarts, failed writes and replays

ASSUME WorkerAssumption ==
  /\ NoJob \notin Jobs
  /\ Heartbeat \in Nat \ {0}
  /\ MaxLate \in Nat
  /\ DrainMayTimeOut \in BOOLEAN
  /\ MaxDisruptions \in Nat

VARIABLES mode,         \* mode[w]: where the process is between start and exit
          slot,         \* slot[w][s]: the handler run in a slot, with its job snapshot
          timer,        \* timer[w][j]: leaseHeartbeatTimers
          disruptions   \* how much of MaxDisruptions is spent

vars == <<jobs, mode, slot, timer, disruptions>>

\* "stopping" waits in stop(); "draining" is after it, while close() still waits.
Modes == {"down", "running", "stopping", "draining"}

Run  == [job : Jobs \cup {NoJob}, attempts : 0 .. MaxAttempts - 1]
Free == [job |-> NoJob, attempts |-> 0]

\* missed: the last beat was dropped by a failing database.
Timer == [armed : BOOLEAN, due : -MaxLate .. Heartbeat, missed : BOOLEAN]
Armed  == [armed |-> TRUE, due |-> Heartbeat, missed |-> FALSE]
Missed == [armed |-> TRUE, due |-> Heartbeat, missed |-> TRUE]
Off    == [armed |-> FALSE, due |-> Heartbeat, missed |-> FALSE]

TypeOK ==
  /\ jobs \in [Jobs -> Row]
  /\ mode \in [Workers -> Modes]
  /\ slot \in [Workers -> [Slots -> Run]]
  /\ timer \in [Workers -> [Jobs -> Timer]]
  /\ disruptions \in 0 .. MaxDisruptions

Init ==
  /\ StoreInit
  /\ mode = [w \in Workers |-> "down"]
  /\ slot = [w \in Workers |-> [s \in Slots |-> Free]]
  /\ timer = [w \in Workers |-> [j \in Jobs |-> Off]]
  /\ disruptions = 0

Idle(w)       == \A s \in Slots : slot[w][s] = Free
Heartbeats(w) == {j \in Jobs : timer[w][j].armed}
Executes(w, s, j) == slot[w][s].job = j

Undisturbed == UNCHANGED disruptions
Disturb == disruptions < MaxDisruptions /\ disruptions' = disruptions + 1

-----------------------------------------------------------------------------
\* The queue's callers.

\* JobQueue.enqueue, from any process: the row starts pending and due.
Enqueue(j) ==
  /\ jobs[j].status = "unsubmitted"
  /\ \E p \in Priorities, c \in CreationTimes : NotBackdated(c) /\ jobs' = Inserted(j, p, c)
  /\ Undisturbed
  /\ UNCHANGED <<mode, slot, timer>>

\* DeadLetterQueue.replay, an operator's call.
Replay(j) ==
  /\ jobs[j].status = "dead-letter"
  /\ jobs' = Replayed(j)
  /\ Disturb
  /\ UNCHANGED <<mode, slot, timer>>

\* DeadLetterQueue.purge, for whatever set of parked rows has aged out.
Purge ==
  /\ \E S \in SUBSET {j \in Jobs : jobs[j].status = "dead-letter"} :
       S # {} /\ jobs' = Purged(S)
  /\ Undisturbed
  /\ UNCHANGED <<mode, slot, timer>>

-----------------------------------------------------------------------------
\* The life of a worker process.

\* start: the one recovery pass a process ever makes; a throwing one is logged.
Boot(w) ==
  /\ mode[w] = "down"
  /\ mode' = [mode EXCEPT ![w] = "running"]
  /\ \/ jobs' = Recovered /\ Undisturbed
     \/ UNCHANGED jobs /\ Disturb
  /\ UNCHANGED <<slot, timer>>

\* stop, up to its first await: no further claim.
Stop(w) ==
  /\ mode[w] = "running"
  /\ mode' = [mode EXCEPT ![w] = "stopping"]
  /\ Disturb
  /\ UNCHANGED <<jobs, slot, timer>>

\* stop, after the drain loop: every timer goes, and the lease of its job unless
\* that write throws.
StopReturns(w) ==
  /\ mode[w] = "stopping"
  /\ Idle(w) \/ DrainMayTimeOut
  /\ mode' = [mode EXCEPT ![w] = "draining"]
  /\ timer' = [timer EXCEPT ![w] = [j \in Jobs |-> Off]]
  /\ \/ jobs' = LeasesReleased(Heartbeats(w), w) /\ Undisturbed
     \/ \E kept \in (SUBSET Heartbeats(w)) \ {{}} :
          jobs' = LeasesReleased(Heartbeats(w) \ kept, w) /\ Disturb
  /\ UNCHANGED slot

\* close: the process outlives stop() until its last handler has settled.
Exit(w) ==
  /\ mode[w] = "draining"
  /\ Idle(w)
  /\ mode' = [mode EXCEPT ![w] = "down"]
  /\ Undisturbed
  /\ UNCHANGED <<jobs, slot, timer>>

Crash(w) ==
  /\ mode[w] # "down"
  /\ mode' = [mode EXCEPT ![w] = "down"]
  /\ slot' = [slot EXCEPT ![w] = [s \in Slots |-> Free]]
  /\ timer' = [timer EXCEPT ![w] = [j \in Jobs |-> Off]]
  /\ Disturb
  /\ UNCHANGED jobs

-----------------------------------------------------------------------------
\* Running jobs.

\* One turn of processJobs' loop, with the synchronous head of executeJob: the
\* claim, the snapshot the handler works from, and the heartbeat timer.
Claim(w, s, j) ==
  /\ mode[w] = "running"
  /\ slot[w][s] = Free
  /\ j \in NextPending
  /\ jobs' = Claimed(j, w)
  /\ slot' = [slot EXCEPT ![w][s] = [job |-> j, attempts |-> jobs[j].attempts]]
  /\ timer' = [timer EXCEPT ![w][j] = Armed]
  /\ Undisturbed
  /\ UNCHANGED mode

\* The interval callback: renew, or stop beating when the row is not ours.
Beat(w, j) ==
  /\ timer[w][j].armed
  /\ timer[w][j].due <= 0
  /\ jobs' = LeaseExtended(j, w)
  /\ timer' = [timer EXCEPT ![w][j] = IF OwnsLease(j, w) THEN Armed ELSE Off]
  /\ Undisturbed
  /\ UNCHANGED <<mode, slot>>

\* The same callback when extendLease throws: logged, and the interval goes on.
\* Two dropped beats in a row are outside what the lease is sized for.
BeatDropped(w, j) ==
  /\ timer[w][j].armed
  /\ timer[w][j].due <= 0
  /\ ~timer[w][j].missed
  /\ timer' = [timer EXCEPT ![w][j] = Missed]
  /\ Disturb
  /\ UNCHANGED <<jobs, mode, slot>>

\* The tail of executeJob: the slot is free and the job's timer, keyed by job id
\* alone, is cleared.
SlotFreed(w, s) ==
  /\ slot' = [slot EXCEPT ![w][s] = Free]
  /\ timer' = [timer EXCEPT ![w][slot[w][s].job] = Off]
  /\ UNCHANGED mode

\* The handler resolved and the completion was written, or its guard missed.
Complete(w, s) ==
  LET j == slot[w][s].job IN
  /\ j # NoJob
  /\ jobs' = StatusUpdated(j, {"active"}, [jobs[j] EXCEPT !.status = "completed"])
  /\ SlotFreed(w, s)
  /\ Undisturbed

\* Mutant: <= for <, one retry more than the budget.
MutantRetry(w, s) ==
  LET j == slot[w][s].job
      attempts == slot[w][s].attempts + 1
  IN
  /\ j # NoJob
  /\ attempts <= MaxAttempts
  /\ jobs' = StatusUpdated(j, {"active"}, [jobs[j] EXCEPT !.status = "failed", !.attempts = attempts])
  /\ SlotFreed(w, s)
  /\ Undisturbed

\* The handler rejected, or its completion could not be written: one more attempt
\* than the snapshot's, and a jittered delay while the budget lasts.
Retry(w, s) ==
  LET j == slot[w][s].job
      attempts == slot[w][s].attempts + 1
  IN
  /\ j # NoJob
  /\ attempts < MaxAttempts
  /\ \E delay \in BackoffDelays(attempts) :
       jobs' = StatusUpdated(j, {"active"},
                 [jobs[j] EXCEPT !.status = "failed", !.attempts = attempts, !.nextRunIn = delay])
  /\ SlotFreed(w, s)
  /\ Undisturbed

\* Mutant: parking without a guard on the status.
MutantPark(w, s) ==
  LET j == slot[w][s].job
      attempts == slot[w][s].attempts + 1
  IN
  /\ j # NoJob
  /\ attempts >= MaxAttempts
  /\ jobs' = [jobs EXCEPT ![j].status = "dead-letter", ![j].attempts = attempts]
  /\ SlotFreed(w, s)
  /\ Undisturbed

\* The same on the last attempt: DeadLetterQueue.push, whose guard also takes
\* rows that another pass has already put back in the queue.
Park(w, s) ==
  LET j == slot[w][s].job
      attempts == slot[w][s].attempts + 1
  IN
  /\ j # NoJob
  /\ attempts >= MaxAttempts
  /\ jobs' = StatusUpdated(j, {"active", "failed", "pending"},
               [jobs[j] EXCEPT !.status = "dead-letter", !.attempts = attempts])
  /\ SlotFreed(w, s)
  /\ Undisturbed

\* The write that records the outcome throws: the row stays as it was.
FinishUnrecorded(w, s) ==
  /\ slot[w][s].job # NoJob
  /\ SlotFreed(w, s)
  /\ Disturb
  /\ UNCHANGED jobs

-----------------------------------------------------------------------------
\* A unit of time, which no armed timer may spend being more than MaxLate late.
Tick ==
  /\ \A w \in Workers, j \in Jobs : timer[w][j].armed => timer[w][j].due > -MaxLate
  /\ jobs' = TimePasses
  /\ timer' = [w \in Workers |-> [j \in Jobs |->
                 IF timer[w][j].armed THEN [timer[w][j] EXCEPT !.due = @ - 1] ELSE timer[w][j]]]
  /\ Undisturbed
  /\ UNCHANGED <<mode, slot>>

Finish(w, s) == Complete(w, s) \/ Retry(w, s) \/ Park(w, s) \/ FinishUnrecorded(w, s)

Next ==
  \/ Purge
  \/ Tick
  \/ \E j \in Jobs : Enqueue(j) \/ Replay(j)
  \/ \E w \in Workers : Boot(w) \/ Stop(w) \/ StopReturns(w) \/ Exit(w) \/ Crash(w)
  \/ \E w \in Workers, j \in Jobs : Beat(w, j) \/ BeatDropped(w, j)
  \/ \E w \in Workers, s \in Slots : Finish(w, s)
  \/ \E w \in Workers, s \in Slots, j \in Jobs : Claim(w, s, j)

Spec == Init /\ [][Next]_vars

(***************************************************************************)
(* The scheduling liveness rests on: a supervisor restarts a process that   *)
(* is down, the poll loop claims whenever a slot is free, timers fire,      *)
(* handlers settle (the coordinator gives every dispatch a timeout), and    *)
(* the outcome of a settled handler is written.  Nothing obliges a process  *)
(* to stop, to crash or to fail a write.                                    *)
(***************************************************************************)
Settle(w, s) == Complete(w, s) \/ Retry(w, s) \/ Park(w, s)

Fairness ==
  /\ WF_vars(Tick)
  /\ \A w \in Workers :
       /\ WF_vars(Boot(w))
       /\ WF_vars(StopReturns(w))
       /\ WF_vars(Exit(w))
       /\ WF_vars(\E s \in Slots, j \in Jobs : Claim(w, s, j))
       /\ \A j \in Jobs : WF_vars(Beat(w, j))
       /\ \A s \in Slots : WF_vars(Settle(w, s))

FairSpec == Spec /\ Fairness

-----------------------------------------------------------------------------
(***************************************************************************)
(* What the lease is sized for (worker.ts:14-22): one beat in a row may be  *)
(* dropped and each may be late, and shutdown waits for its handlers.       *)
(***************************************************************************)
Punctual == 2 * (Heartbeat + MaxLate) <= LeaseTtl /\ ~DrainMayTimeOut

\* No two handler runs of one job are ever in progress, in one process or in two:
\* claims are atomic and recovery takes only jobs whose lease has lapsed.
NoDoubleExecution ==
  \A j \in Jobs, w1, w2 \in Workers, s1, s2 \in Slots :
    Executes(w1, s1, j) /\ Executes(w2, s2, j) => w1 = w2 /\ s1 = s2

\* A handler that runs has its job's row behind it: active, leased to its worker
\* and not up for recovery, with the attempts its snapshot has.
RunsAreLeased ==
  \A w \in Workers, s \in Slots, j \in Jobs :
    Executes(w, s, j) => /\ OwnsLease(j, w)
                         /\ ~Stale(jobs[j])
                         /\ jobs[j].attempts = slot[w][s].attempts

\* Why a punctual worker keeps its leases: exactly the jobs in its slots have a
\* timer, and what is left of the lease covers what is left to the next beat, with
\* one more interval in hand unless the last beat was dropped.
LeaseCovers(w, j) ==
  jobs[j].leaseLeft >= timer[w][j].due + LeaseTtl - Heartbeat
                       - IF timer[w][j].missed THEN Heartbeat + MaxLate ELSE 0

LeaseInv ==
  \A w \in Workers :
    /\ \A s \in Slots, j \in Jobs : Executes(w, s, j) =>
         /\ OwnsLease(j, w)
         /\ jobs[j].attempts = slot[w][s].attempts
         /\ timer[w][j].armed
         /\ LeaseCovers(w, j)
         /\ \A s2 \in Slots : Executes(w, s2, j) => s2 = s
    /\ \A j \in Heartbeats(w) : \E s \in Slots : Executes(w, s, j)

\* The attempts column counts recorded failures one by one and only a replay of
\* a parked job resets it: no worker writes back an older count.
AttemptsCountFailures ==
  [][\A j \in Jobs : jobs'[j].attempts # jobs[j].attempts =>
       \/ jobs'[j].attempts = jobs[j].attempts + 1
       \/ jobs[j].status = "dead-letter" /\ jobs'[j].attempts = 0]_vars

\* However late a worker's outcome comes, a completed job stays completed and a
\* parked one leaves the dead-letter set by a replay or a purge only.
TerminalStays ==
  [][\A j \in Jobs :
       /\ jobs[j].status = "completed" => jobs'[j].status = "completed"
       /\ jobs[j].status = "dead-letter" /\ jobs'[j].status # "dead-letter" =>
            \/ jobs'[j].status = "purged"
            \/ jobs'[j].status = "pending" /\ jobs'[j].attempts = 0]_vars

\* Whatever a worker that lost its lease writes, a job that still has to run has
\* attempts left to be claimed with, and only a parked one has none.
BudgetDecidesParking ==
  \A j \in Jobs :
    /\ jobs[j].status \in {"pending", "active", "failed"} => jobs[j].attempts < MaxAttempts
    /\ jobs[j].status = "dead-letter" => jobs[j].attempts = MaxAttempts

\* Nobody runs this active job: what a crash or a lost write leaves behind.
Stranded(j) ==
  jobs[j].status = "active" /\ \A w \in Workers, s \in Slots : ~Executes(w, s, j)

Settled(j) == jobs[j].status \in {"completed", "dead-letter", "purged"}

\* Every job that is submitted ends completed or parked, or is left stranded by a
\* crash or a lost write: none waits for ever behind a retry delay, a full
\* worker, a restart or another job.
EveryJobSettles ==
  \A j \in Jobs : jobs[j].status = "pending" ~> Settled(j) \/ Stranded(j)

\* A graceful stop ends with the process down.
ShutdownEnds == \A w \in Workers : mode[w] = "stopping" ~> mode[w] = "down"

\* Neither a job nor a worker that stops waits for ever: the slots and the queue drain.
QueueDrains == EveryJobSettles /\ ShutdownEnds

-----------------------------------------------------------------------------
(***************************************************************************)
(* The lifecycle the queue promises.  A job is running while a slot runs    *)
(* it; an active row that nobody runs is stranded.                          *)
(***************************************************************************)
Phase(j) ==
  CASE jobs[j].status \in {"pending", "failed"} -> "queued"
    [] jobs[j].status = "active" -> IF Stranded(j) THEN "stranded" ELSE "running"
    [] jobs[j].status = "dead-letter" -> "parked"
    [] OTHER -> jobs[j].status

Lifecycle == INSTANCE JobLifecycle WITH
  phase <- [j \in Jobs |-> Phase(j)], failures <- [j \in Jobs |-> jobs[j].attempts]

\* With punctual heartbeats, claims, outcomes, crashes, recovery, replay and purge
\* are the steps of one lifecycle per job, and everything else leaves it alone.
ImplementsLifecycle == Lifecycle!Spec

=============================================================================
