--------------------------- MODULE TaskExecution ---------------------------
(***************************************************************************)
(* The execution of one task by the coordinator                            *)
(* (src/backend/src/coordinator/coordinator.ts): the job handler, the walk *)
(* over the task's DAG with its concurrency limiter, node outcomes and     *)
(* payment releases, cancellation over the API, process crash and shutdown,*)
(* and the retries the job queue grants.                                   *)
(*                                                                         *)
(* A run of executeDAG works on a copy of the DAG in memory and writes to  *)
(* the task row as it goes.  Between two awaits a process does not yield,  *)
(* so everything from the end of one await to the next one is a step.  The *)
(* queue behind the handler is the lifecycle of JobLifecycle, with one job.*)
(***************************************************************************)
EXTENDS Naturals, FiniteSets, Sequences

CONSTANTS NodeCount,       \* nodes are numbered in the order of the dag array
          Deps,            \* Deps[n]: dependencies of n, by number
          Concurrency,     \* slots of the coordinator's ConcurrencyLimiter
          Hosts,           \* backend processes over one database
          NoHost,
          Runs,            \* names for calls of the handler that have work left
          Job,             \* the job of the task
          MaxAttempts,     \* JOB_MAX_ATTEMPTS
          MayCancel,       \* does the wallet that owns the task cancel it?
          MayCrash,        \* do processes crash?
          MaxDisruptions   \* bound on crashes, shutdowns, lost verdicts and replays

Nodes == 1 .. NodeCount

ASSUME ExecutionAssumption ==
  /\ NodeCount \in Nat \ {0}
  /\ Deps \in [Nodes -> SUBSET Nat]
  /\ Concurrency \in Nat \ {0}
  /\ NoHost \notin Hosts
  /\ MaxAttempts \in Nat \ {0}
  /\ MayCancel \in BOOLEAN /\ MayCrash \in BOOLEAN
  /\ MaxDisruptions \in Nat

VARIABLES task,         \* the tasks row: its status and the node statuses of dagJson
          paid,         \* nodes whose escrow has been released
          run,          \* run[x]: a call of the handler and its executeDAG
          phase,        \* where the job is, as in JobLifecycle
          failures,     \* failed attempts of the job, as in JobLifecycle
          disruptions   \* how much of MaxDisruptions is spent

vars == <<task, paid, run, phase, failures, disruptions>>

Queue == INSTANCE JobLifecycle WITH Jobs <- {Job}

TaskStatuses == {"queued", "running", "completed", "failed", "cancelled", "payment_failed"}

\* "blocked" is a failed node whose error is upstream_failed or dependency_not_found.
NodeStatuses == {"pending", "running", "completed", "failed", "blocked", "cancelled"}

\* A run is claimed until its handler reads the task, and settled once executeDAG
\* has resolved; a settled run is kept only while nodes of it are still in flight.
NoRun == [stage |-> "none", host |-> NoHost,
          status |-> [n \in Nodes |-> "pending"],   \* the copy of the DAG
          completed |-> {}, failed |-> {},          \* the accounting sets
          waiting |-> <<>>,                         \* ConcurrencyLimiter.queue
          working |-> {}, paying |-> {},            \* nodes awaiting their agent, their release
          aborted |-> FALSE, payFault |-> FALSE]

Stages == {"none", "claimed", "executing", "settled"}

Active(r)   == r.working \cup r.paying
Waiting(r)  == {r.waiting[i] : i \in DOMAIN r.waiting}
InFlight(r) == Active(r) \cup Waiting(r)

TypeOK ==
  /\ task \in [status : TaskStatuses, nodes : [Nodes -> NodeStatuses]]
  /\ paid \subseteq Nodes
  /\ phase \in [{Job} -> Queue!Phases]
  /\ failures \in [{Job} -> 0 .. MaxAttempts]
  /\ disruptions \in 0 .. MaxDisruptions
  /\ \A x \in Runs :
       LET r == run[x] IN
       /\ r.stage \in Stages
       /\ r.host \in Hosts \cup {NoHost}
       /\ r.status \in [Nodes -> NodeStatuses]
       /\ r.completed \subseteq Nodes /\ r.failed \subseteq Nodes
       /\ r.working \subseteq Nodes /\ r.paying \subseteq Nodes
       /\ r.waiting \in Seq(Nodes) /\ Len(r.waiting) = Cardinality(Waiting(r))
       /\ Cardinality(Active(r)) <= Concurrency
       /\ r.aborted \in BOOLEAN /\ r.payFault \in BOOLEAN

Init ==
  /\ task = [status |-> "queued", nodes |-> [n \in Nodes |-> "pending"]]
  /\ paid = {}
  /\ run = [x \in Runs |-> NoRun]
  /\ Queue!Init
  /\ disruptions = 0

Undisturbed == UNCHANGED disruptions
Disturb == disruptions < MaxDisruptions /\ disruptions' = disruptions + 1

-----------------------------------------------------------------------------
(***************************************************************************)
(* The scheduler of executeDAG, as functions from a run to the run.        *)
(***************************************************************************)

\* ConcurrencyLimiter: queued nodes start in order while there are slots, and a
\* node that starts is running at once.
Admit(r) ==
  LET free    == Concurrency - Cardinality(Active(r))
      count   == IF Len(r.waiting) < free THEN Len(r.waiting) ELSE free
      started == {r.waiting[i] : i \in 1 .. count}
  IN [r EXCEPT !.waiting = SubSeq(@, count + 1, Len(@)),
               !.working = @ \cup started,
               !.status  = [n \in Nodes |-> IF n \in started THEN "running" ELSE @[n]]]

\* Nodes queued in the limiter are still pending, so they are cancelled too; the
\* limiter starts them nevertheless.
CancelPending(r) ==
  LET pending == {n \in Nodes : r.status[n] = "pending"} IN
  [r EXCEPT !.status = [n \in Nodes |-> IF n \in pending THEN "cancelled" ELSE @[n]],
            !.failed = @ \cup pending]

\* Mutant: an upstream failure does not fail the nodes behind it.
MutantBlocks(r, deadlocked, failed, n) == ~(Deps[n] \subseteq Nodes)

Blocks(r, deadlocked, failed, n) ==
  \/ Deps[n] \cap failed # {}
  \/ ~(Deps[n] \subseteq Nodes)
  \/ deadlocked /\ InFlight(r) = {} /\ ~(Deps[n] \subseteq r.completed)

\* One pass over the array, in which a failure blocks the nodes that come later.
FailBlocked(r, deadlocked) ==
  LET blocked == CHOOSE B \in SUBSET Nodes :
        \A n \in Nodes : n \in B <=>
          r.status[n] = "pending" /\ Blocks(r, deadlocked, r.failed \cup {m \in B : m < n}, n)
  IN [r EXCEPT !.status = [n \in Nodes |-> IF n \in blocked THEN "blocked" ELSE @[n]],
               !.failed = @ \cup blocked]

\* The nodes of S in the order of the array.
InOrder(S) ==
  CHOOSE s \in [1 .. Cardinality(S) -> S] : \A i, j \in DOMAIN s : i < j => s[i] < s[j]

Ready(r, n) ==
  /\ r.status[n] = "pending"
  /\ n \notin Waiting(r)
  /\ Deps[n] \subseteq r.completed

ScheduleReady(r) ==
  LET ready == InOrder({n \in Nodes : Ready(r, n)})
  IN IF r.aborted THEN CancelPending(r)
     ELSE IF ready = <<>> /\ InFlight(r) = {} THEN FailBlocked(r, TRUE)
     ELSE Admit([r EXCEPT !.waiting = @ \o ready])

\* A node has its outcome: the limiter gives its slot to the next one in line, then
\* the finally of scheduleReadyNodes runs.
Account(r, n, outcome) ==
  LET counted == IF outcome = "completed"
                 THEN [r EXCEPT !.completed = @ \cup {n}]
                 ELSE [r EXCEPT !.failed = @ \cup {n}]
      freed   == [counted EXCEPT !.working = @ \ {n}, !.paying = @ \ {n}]
  IN FailBlocked(ScheduleReady(Admit(freed)), FALSE)

MutantOutcomeUncancelled(r) ==
  IF Cardinality(r.completed) + Cardinality(r.failed) # NodeCount THEN "running"
  ELSE IF r.failed # {} THEN "failed" ELSE IF r.payFault THEN "payment_failed" ELSE "completed"

\* finishIfSettled: what the task becomes, "running" while it goes on.
Outcome(r) ==
  CASE r.aborted /\ InFlight(r) = {} -> "cancelled"
    [] OTHER ->
         IF Cardinality(r.completed) + Cardinality(r.failed) # NodeCount THEN "running"
         ELSE IF r.failed # {} THEN "failed"
         ELSE IF r.payFault THEN "payment_failed"
         ELSE "completed"

-----------------------------------------------------------------------------
(***************************************************************************)
(* What a step of a run writes.                                            *)
(***************************************************************************)
Vacated(r) == IF r.stage = "settled" /\ InFlight(r) = {} THEN NoRun ELSE r

\* updateNode, once per node that changed; cancelled nodes are stored as failed.
Stored(nodes, old, new) ==
  [n \in Nodes |-> IF new.status[n] = old.status[n] THEN nodes[n]
                   ELSE IF new.status[n] = "cancelled" THEN "failed"
                   ELSE new.status[n]]

\* Mutant: payment_failed is retried like a failure.
MutantVerdict(outcome) ==
  IF outcome \in {"failed", "payment_failed"} THEN Queue!Fail(Job) ELSE Queue!Succeed(Job)

\* The end of createTaskJobHandler, and what the worker records of it.
Verdict(outcome) == IF outcome = "failed" THEN Queue!Fail(Job) ELSE Queue!Succeed(Job)

\* Run x goes on from `old` as r; `row` is what the step found in the task row.
GoesOn(x, row, old, r) ==
  /\ r.stage = "settled" \/ Outcome(r) = "running"
  /\ run' = [run EXCEPT ![x] = Vacated(r)]
  /\ task' = [row EXCEPT !.nodes = Stored(row.nodes, old, r)]
  /\ UNCHANGED <<phase, failures>>
  /\ Undisturbed

\* executeDAG resolves: the whole copy is written, and the handler's verdict goes
\* to the queue, unless the worker fails to record it.
Settles(x, r) ==
  /\ r.stage = "executing"
  /\ Outcome(r) # "running"
  /\ run' = [run EXCEPT ![x] = Vacated([r EXCEPT !.stage = "settled"])]
  /\ task' = [status |-> Outcome(r), nodes |-> r.status]
  /\ \/ Verdict(Outcome(r)) /\ Undisturbed
     \/ Queue!Move(Job, "running", "stranded") /\ UNCHANGED failures /\ Disturb

Step(x, row, old, new) == \E r \in {new} : GoesOn(x, row, old, r) \/ Settles(x, r)

-----------------------------------------------------------------------------
\* POST /api/tasks, after it created the row: the job.
Submit ==
  /\ Queue!Submit(Job)
  /\ Undisturbed
  /\ UNCHANGED <<task, paid, run>>

\* A worker of host h claims the job and calls the handler.
Claim(x, h) ==
  /\ run[x] = NoRun
  /\ Queue!Start(Job)
  /\ run' = [run EXCEPT ![x] = [NoRun EXCEPT !.stage = "claimed", !.host = h]]
  /\ Undisturbed
  /\ UNCHANGED <<task, paid>>

\* The handler finds its task cancelled.
Skip(x) ==
  /\ run[x].stage = "claimed"
  /\ task.status = "cancelled"
  /\ run' = [run EXCEPT ![x] = NoRun]
  /\ Queue!Succeed(Job)
  /\ Undisturbed
  /\ UNCHANGED <<task, paid>>

\* Mutant: a retry starts over with every node.
MutantReset(nodes) == [n \in Nodes |-> "pending"]

\* Failed nodes get another go; completed ones, and any left running, stay.
Reset(nodes) ==
  [n \in Nodes |-> IF nodes[n] \in {"failed", "blocked"} THEN "pending" ELSE nodes[n]]

\* The handler resets the DAG and executeDAG makes its first scheduling pass.
Enter(x) ==
  LET nodes == Reset(task.nodes)
      start == [run[x] EXCEPT !.stage = "executing", !.status = nodes,
                              !.completed = {n \in Nodes : nodes[n] = "completed"}]
  IN /\ run[x].stage = "claimed"
     /\ task.status # "cancelled"
     /\ Step(x, [status |-> "running", nodes |-> nodes], start, ScheduleReady(start))
     /\ UNCHANGED paid

\* Mutant: the release comes before the node's own record.
MutantResult(x, n) ==
  /\ n \in run[x].working
  /\ Step(x, task, run[x], [run[x] EXCEPT !.working = @ \ {n}, !.paying = @ \cup {n}])
  /\ UNCHANGED paid

\* runNode: the agent answered; the node is recorded and its payment is released.
Result(x, n) ==
  /\ n \in run[x].working
  /\ Step(x, task, run[x], [run[x] EXCEPT !.status[n] = "completed",
                                         !.working = @ \ {n}, !.paying = @ \cup {n}])
  /\ UNCHANGED paid

\* The dispatch failed for good, or the task's budget is spent.
ResultFailed(x, n) ==
  /\ n \in run[x].working
  /\ Step(x, task, run[x], Account([run[x] EXCEPT !.status[n] = "failed"], n, "failed"))
  /\ UNCHANGED paid

Released(x, n) ==
  /\ n \in run[x].paying
  /\ paid' = paid \cup {n}
  /\ Step(x, task, run[x], Account(run[x], n, "completed"))

\* A release that throws is remembered by the coordinator of this run only.
ReleaseFailed(x, n) ==
  /\ n \in run[x].paying
  /\ Step(x, task, run[x], Account([run[x] EXCEPT !.payFault = TRUE], n, "completed"))
  /\ UNCHANGED paid

-----------------------------------------------------------------------------
\* DELETE /api/tasks/:id, served by host h.  Controllers are registered per process
\* while executeDAG runs, and the first abort removes them.
Controlled(h) == {x \in Runs : run[x].stage = "executing" /\ run[x].host = h /\ ~run[x].aborted}

\* The host that serves the request runs the task itself: the abort listener cancels
\* what is pending, and settles the run at once if nothing is in flight.
Abort(h) ==
  /\ MayCancel
  /\ task.status = "running"
  /\ \E x \in Controlled(h) :
       Step(x, [task EXCEPT !.status = "cancelled"], run[x],
            CancelPending([run[x] EXCEPT !.aborted = TRUE]))
  /\ UNCHANGED paid

\* Another host, or no run at all: the row is all the request can reach.
CancelRow(h) ==
  /\ MayCancel
  /\ \/ task.status = "queued"
     \/ task.status = "running" /\ Controlled(h) = {}
  /\ task' = [task EXCEPT !.status = "cancelled"]
  /\ Undisturbed
  /\ UNCHANGED <<paid, run, phase, failures>>

OnHost(h) == {x \in Runs : run[x].host = h}
Handling(h) == {x \in OnHost(h) : run[x].stage \in {"claimed", "executing"}}

\* The process dies; its job, if it had it, is nobody's.
Crash(h) ==
  /\ MayCrash
  /\ OnHost(h) # {}
  /\ run' = [x \in Runs |-> IF x \in OnHost(h) THEN NoRun ELSE run[x]]
  /\ \/ Handling(h) # {} /\ Queue!Move(Job, "running", "stranded")
     \/ Handling(h) = {} /\ UNCHANGED phase
  /\ Disturb
  /\ UNCHANGED <<task, paid, failures>>

\* Every running task of the database fails, whoever runs it.
FailRunningTasks ==
  IF task.status # "running" THEN task
  ELSE [status |-> "failed",
        nodes  |-> [n \in Nodes |-> IF task.nodes[n] \in {"running", "pending"}
                                   THEN "failed" ELSE task.nodes[n]]]

\* Graceful shutdown of host h: its handlers have settled, its leftovers die with it.
Shutdown(h) ==
  /\ Handling(h) = {}
  /\ task.status = "running" \/ OnHost(h) # {}
  /\ task' = FailRunningTasks
  /\ run' = [x \in Runs |-> IF x \in OnHost(h) THEN NoRun ELSE run[x]]
  /\ Disturb
  /\ UNCHANGED <<paid, phase, failures>>

\* Some process starts after the lease of a stranded job has lapsed.
Resume ==
  /\ Queue!Move(Job, "stranded", "queued")
  /\ Undisturbed
  /\ UNCHANGED <<task, paid, run, failures>>

Replay ==
  /\ Queue!Replay(Job)
  /\ Disturb
  /\ UNCHANGED <<task, paid, run>>

Finish(x, n) == Result(x, n) \/ ResultFailed(x, n) \/ Released(x, n) \/ ReleaseFailed(x, n)

Next ==
  \/ Submit \/ Resume \/ Replay
  \/ \E h \in Hosts : Abort(h) \/ CancelRow(h) \/ Crash(h) \/ Shutdown(h)
  \/ \E x \in Runs, h \in Hosts : Claim(x, h)
  \/ \E x \in Runs : Skip(x) \/ Enter(x)
  \/ \E x \in Runs, n \in Nodes : Finish(x, n)

Spec == Init /\ [][Next]_vars

(***************************************************************************)
(* Workers poll, handlers run, every dispatch and every release has a      *)
(* deadline, and a stranded job is resumed by some later start.  Nothing   *)
(* obliges anyone to cancel, crash, shut down or replay.                   *)
(***************************************************************************)
Fairness ==
  /\ WF_vars(Submit)
  /\ WF_vars(Resume)
  /\ WF_vars(\E x \in Runs, h \in Hosts : Claim(x, h))
  /\ \A x \in Runs : WF_vars(Skip(x) \/ Enter(x))
  /\ \A x \in Runs, n \in Nodes : WF_vars(Finish(x, n))

FairSpec == Spec /\ Fairness

-----------------------------------------------------------------------------
\* A node recorded as completed is never taken back, not by a retry, a crash, a
\* second attempt or a shutdown of another process: its work and its payment are
\* not repeated.
FinishedNodesStay ==
  \A n \in Nodes : task.nodes[n] = "completed" => task'.nodes[n] = "completed"

\* An escrow is released only for work that the row shows as completed, so a process
\* that dies between the two leaves no payment without a result.
PaidWorkIsRecorded == \A n \in paid : task.nodes[n] = "completed"

\* A node that an agent works on has every input recorded as completed, whichever
\* attempt produced it.
WorkFollowsInputs ==
  \A x \in Runs : \A n \in run[x].working : \A d \in Deps[n] : task.nodes[d] = "completed"

\* A node given up as blocked could not have run: one of its inputs is not recorded as
\* completed, also when nodes that were queued in the limiter or in flight at the time
\* have come in since.
BlockedForGood ==
  \A n \in Nodes : task.nodes[n] = "blocked" =>
    ~(Deps[n] \subseteq {d \in Nodes : task.nodes[d] = "completed"})

\* The queue and the task agree on how it ended, across retries, lost verdicts and
\* shutdowns: a completed job never leaves a task running or failed behind it, a
\* parked one has a failed task, and a task that succeeded has all its nodes.
JobFollowsTask ==
  /\ phase[Job] = "completed" => task.status \in {"completed", "payment_failed", "cancelled"}
  /\ phase[Job] = "parked" => task.status = "failed"
  /\ task.status \in {"completed", "payment_failed"} =>
       \A n \in Nodes : task.nodes[n] = "completed"

\* Once the process that runs a task has aborted it, the task is cancelled for good,
\* whatever its nodes in flight come back with and whoever settles it.
AbortSticks == (\E x \in Runs : run[x].aborted) => task'.status = "cancelled"

\* What is recorded of finished work and of a cancellation stands, whichever attempt,
\* process or shutdown writes the row next.
RecordStands == [][FinishedNodesStay /\ AbortSticks]_vars

\* executeDAG resolves only when nothing of its run is still in flight.
NoStragglers == \A x \in Runs : run[x].stage # "settled"

\* Two runs never work on one node at a time, even when the earlier one was settled
\* with nodes in flight and the task is retried.
OneRunPerNode ==
  \A x, y \in Runs : x # y => Active(run[x]) \cap Active(run[y]) = {}

\* A job in the queue is carried to its end: every run settles, whatever fails in it.
JobSettles == phase[Job] = "queued" ~> phase[Job] \in {"completed", "parked"}

\* The limit that RunIsSound and WorkIsSound need: however many nodes there are of which
\* none is an input of another, the limiter has a slot for each.
LimitSuffices ==
  \A S \in SUBSET Nodes : (\A m, n \in S : m \notin Deps[n]) => Cardinality(S) <= Concurrency

\* Under any limit of concurrency, states are well typed and a node has one run at most.
TaskInv == TypeOK /\ OneRunPerNode

\* With a limit that suffices, a run that has settled has left no node behind in flight,
\* the job's fate follows the task's, and what a failure blocks is never started.
RunIsSound == NoStragglers /\ JobFollowsTask /\ BlockedForGood

\* No node works before its inputs are there, and none is paid without a recorded result,
\* whatever crashes, retries and cancellations come between.
WorkIsSound == PaidWorkIsRecorded /\ WorkFollowsInputs
=============================================================================
