---------------------------- MODULE JobLifecycle ----------------------------
(***************************************************************************)
(* What the queue promises for each job, whoever runs it: at most one run   *)
(* in progress, every recorded failure counted once, parked exactly when    *)
(* the budget is spent.  A run may be cut short without a verdict; its job  *)
(* is then stranded until somebody resumes it, at no cost to the budget.    *)
(***************************************************************************)
EXTENDS Naturals

CONSTANTS Jobs, MaxAttempts

VARIABLES phase,     \* phase[j]: where the job is
          failures   \* failures[j]: failed runs since it was submitted or replayed

Phases == {"unsubmitted", "queued", "running", "stranded", "completed", "parked", "purged"}

Init ==
  /\ phase = [j \in Jobs |-> "unsubmitted"]
  /\ failures = [j \in Jobs |-> 0]

Move(j, from, to) == phase[j] = from /\ phase' = [phase EXCEPT ![j] = to]

MoveAll(from, to) ==
  \E S \in SUBSET {j \in Jobs : phase[j] = from} :
    phase' = [j \in Jobs |-> IF j \in S THEN to ELSE phase[j]]

Submit(j)  == Move(j, "unsubmitted", "queued")  /\ UNCHANGED failures
Start(j)   == Move(j, "queued", "running")      /\ UNCHANGED failures
Succeed(j) == Move(j, "running", "completed")   /\ UNCHANGED failures

Fail(j) ==
  /\ failures' = [failures EXCEPT ![j] = @ + 1]
  /\ \/ failures[j] + 1 < MaxAttempts /\ Move(j, "running", "queued")
     \/ failures[j] + 1 = MaxAttempts /\ Move(j, "running", "parked")

Replay(j) == Move(j, "parked", "queued") /\ failures' = [failures EXCEPT ![j] = 0]

Abandon == MoveAll("running", "stranded") /\ UNCHANGED failures
Resume  == MoveAll("stranded", "queued")  /\ UNCHANGED failures
Purge   == MoveAll("parked", "purged")    /\ UNCHANGED failures

Next ==
  \/ Abandon \/ Resume \/ Purge
  \/ \E j \in Jobs : Submit(j) \/ Start(j) \/ Succeed(j) \/ Fail(j) \/ Replay(j)

Spec == Init /\ [][Next]_<<phase, failures>>
=============================================================================
