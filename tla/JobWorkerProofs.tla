-------------------------- MODULE JobWorkerProofs --------------------------
(***************************************************************************)
(* Proofs about JobWorker, for any number of jobs, workers and slots.       *)
(***************************************************************************)
EXTENDS JobWorker, TLAPS

USE OwnersAssumption, RowAssumption, WorkerAssumption

-----------------------------------------------------------------------------
(***************************************************************************)
(* Every statement of the job store keeps the table well typed and the      *)
(* attempts of its rows within the budget.                                  *)
(***************************************************************************)
Table == [Jobs -> Row]

LEMMA BlankIsRow == Blank \in Row
  BY DEF Blank, Row, Statuses

LEMMA FieldTypes ==
  ASSUME NEW row \in Row
  PROVE  /\ \A x \in Statuses : [row EXCEPT !.status = x] \in Row
         /\ \A x \in 0 .. MaxAttempts : [row EXCEPT !.attempts = x] \in Row
         /\ \A x \in 0 .. BackoffCap : [row EXCEPT !.nextRunIn = x] \in Row
         /\ \A x \in Workers \cup {NoOwner} : [row EXCEPT !.leaseOwner = x] \in Row
         /\ \A x \in -1 .. LeaseTtl : [row EXCEPT !.leaseLeft = x] \in Row
  BY DEF Row

LEMMA FieldValues ==
  /\ 0 \in 0 .. MaxAttempts /\ 0 \in 0 .. BackoffCap
  /\ -1 \in -1 .. LeaseTtl /\ LeaseTtl \in -1 .. LeaseTtl
  OBVIOUS

LEMMA UnleaseType ==
  ASSUME NEW row \in Row
  PROVE  Unlease(row) \in Row
<1>1. [row EXCEPT !.leaseOwner = NoOwner] \in Row
  BY FieldTypes
<1>2. [[row EXCEPT !.leaseOwner = NoOwner] EXCEPT !.leaseLeft = -1] \in Row
  BY <1>1, FieldTypes, FieldValues
<1> QED
  BY <1>2 DEF Unlease

LEMMA RequeuedType ==
  ASSUME NEW row \in Row
  PROVE  [row EXCEPT !.status = "pending", !.nextRunIn = 0] \in Row
<1>1. [row EXCEPT !.status = "pending"] \in Row
  BY FieldTypes DEF Statuses
<1>2. [[row EXCEPT !.status = "pending"] EXCEPT !.nextRunIn = 0] \in Row
  BY <1>1, FieldTypes, FieldValues
<1> QED
  BY <1>2

LEMMA InsertedType ==
  ASSUME jobs \in Table, NEW j \in Jobs, NEW p \in Priorities, NEW c \in CreationTimes
  PROVE  Inserted(j, p, c) \in Table
<1>1. [status |-> "pending", priority |-> p, createdAt |-> c, attempts |-> 0,
       nextRunIn |-> 0, leaseOwner |-> NoOwner, leaseLeft |-> -1] \in Row
  BY FieldValues DEF Row, Statuses
<1> QED
  BY <1>1 DEF Table, Inserted

LEMMA ClaimedType ==
  ASSUME jobs \in Table, NEW j \in Jobs, NEW w \in Workers
  PROVE  Claimed(j, w) \in Table
<1>1. [jobs[j] EXCEPT !.status = "active"] \in Row
  BY FieldTypes DEF Statuses, Table
<1>2. [[jobs[j] EXCEPT !.status = "active"] EXCEPT !.leaseOwner = w] \in Row
  BY <1>1, FieldTypes
<1>3. [[[jobs[j] EXCEPT !.status = "active"] EXCEPT !.leaseOwner = w]
         EXCEPT !.leaseLeft = LeaseTtl] \in Row
  BY <1>2, FieldTypes, FieldValues
<1> QED
  BY <1>3 DEF Table, Claimed

LEMMA LeaseExtendedType ==
  ASSUME jobs \in Table, NEW j \in Jobs, NEW w \in Workers
  PROVE  LeaseExtended(j, w) \in Table
<1>1. [jobs[j] EXCEPT !.leaseLeft = LeaseTtl] \in Row
  BY FieldTypes, FieldValues DEF Table
<1> QED
  BY <1>1 DEF Table, LeaseExtended

LEMMA LeasesReleasedType ==
  ASSUME jobs \in Table, NEW S, NEW w \in Workers
  PROVE  LeasesReleased(S, w) \in Table
  BY UnleaseType DEF Table, LeasesReleased

LEMMA StatusUpdatedType ==
  ASSUME jobs \in Table, NEW j \in Jobs, NEW expected, NEW row \in Row
  PROVE  StatusUpdated(j, expected, row) \in Table
  BY DEF Table, StatusUpdated

LEMMA RecoveredType ==
  ASSUME jobs \in Table
  PROVE  Recovered \in Table
<1>1. \A j \in Jobs : Unlease([jobs[j] EXCEPT !.status = "pending", !.nextRunIn = 0]) \in Row
  BY UnleaseType, RequeuedType DEF Table
<1> QED
  BY <1>1 DEF Table, Recovered

LEMMA ReplayedType ==
  ASSUME jobs \in Table, NEW j \in Jobs
  PROVE  Replayed(j) \in Table
<1> DEFINE p == [jobs[j] EXCEPT !.status = "pending"]
           a == [p EXCEPT !.attempts = 0]
           n == [a EXCEPT !.nextRunIn = 0]
<1>1. p \in Row
  BY FieldTypes DEF Table, Statuses
<1>2. a \in Row
  <2> HIDE DEF p
  <2> QED BY <1>1, FieldTypes, FieldValues
<1>3. n \in Row
  <2> HIDE DEF a
  <2> QED BY <1>2, FieldTypes, FieldValues
<1>4. Unlease([jobs[j] EXCEPT !.status = "pending", !.attempts = 0, !.nextRunIn = 0]) \in Row
  BY <1>3, UnleaseType
<1> QED
  BY <1>4 DEF Table, Replayed

LEMMA PurgedType ==
  ASSUME jobs \in Table, NEW S
  PROVE  Purged(S) \in Table
<1>1. \A j \in Jobs : [jobs[j] EXCEPT !.status = "purged"] \in Row
  BY FieldTypes DEF Table, Statuses
<1> QED
  BY <1>1 DEF Table, Purged

LEMMA TimePassesType ==
  ASSUME jobs \in Table
  PROVE  TimePasses \in Table
<1> SUFFICES ASSUME NEW j \in Jobs
             PROVE  [jobs[j] EXCEPT !.nextRunIn = IF @ > 0 THEN @ - 1 ELSE 0,
                                    !.leaseLeft = IF @ >= 0 THEN @ - 1 ELSE -1] \in Row
  BY DEF Table, TimePasses
<1>1. jobs[j] \in Row
  BY DEF Table
<1> DEFINE run == IF jobs[j].nextRunIn > 0 THEN jobs[j].nextRunIn - 1 ELSE 0
           left == IF jobs[j].leaseLeft >= 0 THEN jobs[j].leaseLeft - 1 ELSE -1
<1>2. run \in 0 .. BackoffCap /\ left \in -1 .. LeaseTtl
  BY <1>1 DEF Row
<1> HIDE DEF run, left
<1>3. [jobs[j] EXCEPT !.nextRunIn = run] \in Row
  BY <1>1, <1>2, FieldTypes
<1>4. [[jobs[j] EXCEPT !.nextRunIn = run] EXCEPT !.leaseLeft = left] \in Row
  BY <1>2, <1>3, FieldTypes
<1> QED
  BY <1>1, <1>4 DEF run, left, Row

-----------------------------------------------------------------------------
(***************************************************************************)
(* What each statement does to the rows, field by field.                    *)
(***************************************************************************)
LEMMA InsertedEffect ==
  ASSUME jobs \in Table, NEW j \in Jobs, NEW p \in Priorities, NEW c \in CreationTimes
  PROVE  /\ Inserted(j, p, c)[j].status = "pending"
         /\ Inserted(j, p, c)[j].attempts = 0
         /\ \A i \in Jobs \ {j} : Inserted(j, p, c)[i] = jobs[i]
  BY DEF Table, Inserted

LEMMA ClaimedEffect ==
  ASSUME jobs \in Table, NEW j \in Jobs, NEW w \in Workers
  PROVE  /\ Claimed(j, w)[j].status = "active"
         /\ Claimed(j, w)[j].attempts = jobs[j].attempts
         /\ Claimed(j, w)[j].leaseOwner = w
         /\ Claimed(j, w)[j].leaseLeft = LeaseTtl
         /\ \A i \in Jobs \ {j} : Claimed(j, w)[i] = jobs[i]
  BY DEF Table, Claimed, Row

LEMMA LeaseExtendedEffect ==
  ASSUME jobs \in Table, NEW j \in Jobs, NEW w \in Workers
  PROVE  /\ LeaseExtended(j, w)[j].status = jobs[j].status
         /\ LeaseExtended(j, w)[j].attempts = jobs[j].attempts
         /\ LeaseExtended(j, w)[j].leaseOwner = jobs[j].leaseOwner
         /\ OwnsLease(j, w) => LeaseExtended(j, w)[j].leaseLeft = LeaseTtl
         /\ \A i \in Jobs \ {j} : LeaseExtended(j, w)[i] = jobs[i]
  BY DEF Table, LeaseExtended, Row

LEMMA LeasesReleasedEffect ==
  ASSUME jobs \in Table, NEW S, NEW w \in Workers, NEW i \in Jobs
  PROVE  /\ LeasesReleased(S, w)[i].status = jobs[i].status
         /\ LeasesReleased(S, w)[i].attempts = jobs[i].attempts
         /\ i \notin S => LeasesReleased(S, w)[i] = jobs[i]
  BY DEF Table, LeasesReleased, Unlease, Row

LEMMA StatusUpdatedEffect ==
  ASSUME jobs \in Table, NEW j \in Jobs, NEW expected, NEW row \in Row
  PROVE  /\ jobs[j].status \in expected => StatusUpdated(j, expected, row)[j] = row
         /\ jobs[j].status \notin expected => StatusUpdated(j, expected, row)[j] = jobs[j]
         /\ \A i \in Jobs \ {j} : StatusUpdated(j, expected, row)[i] = jobs[i]
  BY DEF Table, StatusUpdated

LEMMA RecoveredEffect ==
  ASSUME jobs \in Table, NEW i \in Jobs
  PROVE  /\ Recovered[i].attempts = jobs[i].attempts
         /\ Stale(jobs[i]) => Recovered[i].status = "pending"
         /\ ~Stale(jobs[i]) => Recovered[i] = jobs[i]
  BY DEF Table, Recovered, Unlease, Row

LEMMA ReplayedEffect ==
  ASSUME jobs \in Table, NEW j \in Jobs, jobs[j].status = "dead-letter"
  PROVE  /\ Replayed(j)[j].status = "pending"
         /\ Replayed(j)[j].attempts = 0
         /\ \A i \in Jobs \ {j} : Replayed(j)[i] = jobs[i]
  BY DEF Table, Replayed, Unlease, Row

LEMMA PurgedEffect ==
  ASSUME jobs \in Table, NEW S, NEW i \in Jobs
  PROVE  \/ Purged(S)[i] = jobs[i]
         \/ jobs[i].status = "dead-letter" /\ Purged(S)[i].status = "purged"
  BY DEF Table, Purged, Row

LEMMA TimePassesEffect ==
  ASSUME jobs \in Table, NEW i \in Jobs
  PROVE  /\ TimePasses[i].status = jobs[i].status
         /\ TimePasses[i].attempts = jobs[i].attempts
         /\ TimePasses[i].leaseOwner = jobs[i].leaseOwner
         /\ jobs[i].leaseLeft >= 0 => TimePasses[i].leaseLeft = jobs[i].leaseLeft - 1
  BY DEF Table, TimePasses, Row

-----------------------------------------------------------------------------
(***************************************************************************)
(* Types, and the retry budget.  Both hold however late the heartbeats are: *)
(* a worker that lost its lease writes the count of its own snapshot, and   *)
(* that is below the budget since the snapshot was claimable.               *)
(***************************************************************************)
TypeInv == TypeOK /\ BudgetDecidesParking

LEMMA SlotFreedType ==
  ASSUME TypeOK, NEW w \in Workers, NEW s \in Slots, SlotFreed(w, s), slot[w][s].job # NoJob
  PROVE  /\ mode' \in [Workers -> Modes]
         /\ slot' \in [Workers -> [Slots -> Run]]
         /\ timer' \in [Workers -> [Jobs -> Timer]]
<1>1. Free \in Run /\ Off \in Timer
  BY DEF Free, Run, Off, Timer
<1> QED
  BY <1>1 DEF TypeOK, SlotFreed

LEMMA OutcomeRows ==
  ASSUME TypeOK, NEW w \in Workers, NEW s \in Slots, slot[w][s].job # NoJob
  PROVE  LET j == slot[w][s].job
             n == slot[w][s].attempts + 1
         IN  /\ j \in Jobs
             /\ n \in 0 .. MaxAttempts
             /\ [jobs[j] EXCEPT !.status = "completed"] \in Row
             /\ \A d \in 0 .. BackoffCap :
                  [jobs[j] EXCEPT !.status = "failed", !.attempts = n, !.nextRunIn = d] \in Row
             /\ [jobs[j] EXCEPT !.status = "dead-letter", !.attempts = n] \in Row
<1> DEFINE j == slot[w][s].job
           n == slot[w][s].attempts + 1
<1>1. j \in Jobs /\ n \in 0 .. MaxAttempts
  BY DEF TypeOK, Run
<1>2. jobs[j] \in Row
  BY <1>1 DEF TypeOK
<1> HIDE DEF j, n
<1>3. [jobs[j] EXCEPT !.status = "completed"] \in Row
  BY <1>2, FieldTypes DEF Statuses
<1>4. ASSUME NEW d \in 0 .. BackoffCap
      PROVE  [jobs[j] EXCEPT !.status = "failed", !.attempts = n, !.nextRunIn = d] \in Row
  <2>1. [jobs[j] EXCEPT !.status = "failed"] \in Row
    BY <1>2, FieldTypes DEF Statuses
  <2>2. [[jobs[j] EXCEPT !.status = "failed"] EXCEPT !.attempts = n] \in Row
    BY <1>1, <2>1, FieldTypes
  <2>3. [[[jobs[j] EXCEPT !.status = "failed"] EXCEPT !.attempts = n] EXCEPT !.nextRunIn = d] \in Row
    BY <2>2, FieldTypes
  <2> QED
    BY <2>3
<1>5. [jobs[j] EXCEPT !.status = "dead-letter", !.attempts = n] \in Row
  <2>1. [jobs[j] EXCEPT !.status = "dead-letter"] \in Row
    BY <1>2, FieldTypes DEF Statuses
  <2>2. [[jobs[j] EXCEPT !.status = "dead-letter"] EXCEPT !.attempts = n] \in Row
    BY <1>1, <2>1, FieldTypes
  <2> QED
    BY <2>2
<1> QED
  BY <1>1, <1>3, <1>4, <1>5 DEF j, n

\* The row an outcome writes keeps to the budget, as long as a parked row has
\* spent it; the slot's snapshot bounds the attempts of the others.
LEMMA TypeInvStep == TypeInv /\ [Next]_vars => TypeInv'
<1> SUFFICES ASSUME TypeInv, [Next]_vars PROVE TypeInv'
  OBVIOUS
<1>0. jobs \in Table /\ TypeOK /\ BudgetDecidesParking
  BY DEF TypeInv, TypeOK, Table
<1> DEFINE Budget(row) ==
             /\ row.status \in {"pending", "active", "failed"} => row.attempts < MaxAttempts
             /\ row.status = "dead-letter" => row.attempts = MaxAttempts
<1>a. \A j \in Jobs : Budget(jobs[j])
  BY <1>0 DEF BudgetDecidesParking
<1>b. Undisturbed \/ Disturb => disruptions' \in 0 .. MaxDisruptions
  BY <1>0 DEF TypeOK, Undisturbed, Disturb
<1>c. /\ mode' \in [Workers -> Modes] /\ slot' \in [Workers -> [Slots -> Run]]
      /\ timer' \in [Workers -> [Jobs -> Timer]] /\ jobs' \in Table
      /\ Undisturbed \/ Disturb
      /\ \A i \in Jobs : Budget(jobs'[i])
      => TypeInv'
  BY <1>b DEF TypeInv, TypeOK, BudgetDecidesParking, Table
<1>d. Free \in Run /\ Off \in Timer /\ Armed \in Timer /\ Missed \in Timer
  BY DEF Free, Run, Off, Armed, Missed, Timer
<1> HIDE DEF Budget
<1>1. CASE Purge
  <2>1. PICK S : jobs' = Purged(S)
    BY <1>1 DEF Purge
  <2>2. ASSUME NEW i \in Jobs PROVE Budget(jobs'[i])
    BY <1>0, <1>a, <2>1, PurgedEffect DEF Budget
  <2> QED
    BY <1>0, <1>1, <1>c, <2>1, <2>2, PurgedType DEF Purge, TypeOK
<1>2. CASE Tick
  <2>1. ASSUME NEW i \in Jobs PROVE Budget(jobs'[i])
    BY <1>0, <1>2, <1>a, TimePassesEffect DEF Budget, Tick
  <2>2. timer' \in [Workers -> [Jobs -> Timer]]
    <3>1. ASSUME NEW w \in Workers, NEW j \in Jobs, timer[w][j].armed
          PROVE  [timer[w][j] EXCEPT !.due = @ - 1] \in Timer
      <4>1. timer[w][j] \in Timer /\ timer[w][j].due > -MaxLate
        BY <1>0, <1>2, <3>1 DEF Tick, TypeOK
      <4> QED
        BY <4>1 DEF Timer
    <3> QED
      BY <1>0, <1>2, <3>1 DEF Tick, TypeOK
  <2> QED
    BY <1>0, <1>2, <1>c, <2>1, <2>2, TimePassesType DEF Tick, TypeOK
<1>3. ASSUME NEW j \in Jobs, Enqueue(j) PROVE TypeInv'
  <2>1. PICK p \in Priorities, c \in CreationTimes : jobs' = Inserted(j, p, c)
    BY <1>3 DEF Enqueue
  <2>2. ASSUME NEW i \in Jobs PROVE Budget(jobs'[i])
    BY <1>0, <1>a, <2>1, InsertedEffect DEF Budget
  <2> QED
    BY <1>0, <1>3, <1>c, <2>1, <2>2, InsertedType DEF Enqueue, TypeOK
<1>4. ASSUME NEW j \in Jobs, Replay(j) PROVE TypeInv'
  <2>1. ASSUME NEW i \in Jobs PROVE Budget(jobs'[i])
    BY <1>0, <1>4, <1>a, ReplayedEffect DEF Budget, Replay
  <2> QED
    BY <1>0, <1>4, <1>c, <2>1, ReplayedType DEF Replay, TypeOK
<1>5. ASSUME NEW w \in Workers, Boot(w) PROVE TypeInv'
  <2>1. ASSUME NEW i \in Jobs PROVE Budget(jobs'[i])
    BY <1>0, <1>5, <1>a, RecoveredEffect DEF Budget, Boot, Stale
  <2>2. jobs' \in Table /\ mode' \in [Workers -> Modes] /\ (Undisturbed \/ Disturb)
    BY <1>0, <1>5, RecoveredType DEF Boot, TypeOK, Modes
  <2> QED
    BY <1>0, <1>5, <1>c, <2>1, <2>2 DEF Boot, TypeOK
<1>6. ASSUME NEW w \in Workers, Stop(w) \/ Exit(w) PROVE TypeInv'
  <2>1. mode' \in [Workers -> Modes] /\ UNCHANGED <<jobs, slot, timer>> /\ (Undisturbed \/ Disturb)
    BY <1>0, <1>6 DEF Stop, Exit, TypeOK, Modes
  <2> QED
    BY <1>0, <1>a, <1>c, <2>1 DEF TypeOK
<1>7. ASSUME NEW w \in Workers, StopReturns(w) PROVE TypeInv'
  <2>1. PICK S : jobs' = LeasesReleased(S, w)
    BY <1>7 DEF StopReturns
  <2>2. ASSUME NEW i \in Jobs PROVE Budget(jobs'[i])
    BY <1>0, <1>a, <2>1, LeasesReleasedEffect DEF Budget
  <2>3. /\ mode' \in [Workers -> Modes] /\ timer' \in [Workers -> [Jobs -> Timer]]
        /\ slot' = slot /\ (Undisturbed \/ Disturb)
    BY <1>0, <1>7, <1>d DEF StopReturns, TypeOK, Modes
  <2> QED
    BY <1>0, <1>c, <2>1, <2>2, <2>3, LeasesReleasedType DEF TypeOK
<1>8. ASSUME NEW w \in Workers, Crash(w) PROVE TypeInv'
  <2>1. /\ mode' \in [Workers -> Modes] /\ timer' \in [Workers -> [Jobs -> Timer]]
        /\ slot' \in [Workers -> [Slots -> Run]]
    BY <1>0, <1>8, <1>d DEF Crash, TypeOK, Modes
  <2> QED
    BY <1>0, <1>8, <1>a, <1>c, <2>1 DEF Crash
<1>9. ASSUME NEW w \in Workers, NEW j \in Jobs, Beat(w, j) PROVE TypeInv'
  <2>1. ASSUME NEW i \in Jobs PROVE Budget(jobs'[i])
    BY <1>0, <1>9, <1>a, LeaseExtendedEffect DEF Budget, Beat
  <2>2. timer' \in [Workers -> [Jobs -> Timer]]
    BY <1>0, <1>9, <1>d DEF Beat, TypeOK
  <2> QED
    BY <1>0, <1>9, <1>c, <2>1, <2>2, LeaseExtendedType DEF Beat, TypeOK
<1>10. ASSUME NEW w \in Workers, NEW j \in Jobs, BeatDropped(w, j) PROVE TypeInv'
  <2>1. timer' \in [Workers -> [Jobs -> Timer]]
    BY <1>0, <1>10, <1>d DEF BeatDropped, TypeOK
  <2> QED
    BY <1>0, <1>10, <1>a, <1>c, <2>1 DEF BeatDropped, TypeOK
<1>11. ASSUME NEW w \in Workers, NEW s \in Slots, Finish(w, s) PROVE TypeInv'
  <2> DEFINE j == slot[w][s].job
             n == slot[w][s].attempts + 1
  <2>1. j # NoJob /\ SlotFreed(w, s) /\ (Undisturbed \/ Disturb)
    BY <1>11 DEF Finish, Complete, Retry, Park, FinishUnrecorded
  <2>2. SUFFICES jobs' \in Table /\ \A i \in Jobs : Budget(jobs'[i])
    <3>1. /\ mode' \in [Workers -> Modes] /\ slot' \in [Workers -> [Slots -> Run]]
          /\ timer' \in [Workers -> [Jobs -> Timer]]
      BY <1>0, <2>1, SlotFreedType
    <3> QED
      BY <1>c, <2>1, <3>1
  <2>3. j \in Jobs /\ n \in 0 .. MaxAttempts
    BY <1>0, <2>1, OutcomeRows
  <2>4. jobs[j] \in Row
    BY <1>0, <2>3 DEF Table
  <2>5. ASSUME NEW expected, NEW row \in Row, Budget(row),
               jobs' = StatusUpdated(j, expected, row)
        PROVE  jobs' \in Table /\ \A i \in Jobs : Budget(jobs'[i])
    <3>1. jobs' \in Table
      BY <1>0, <2>3, <2>5, StatusUpdatedType
    <3>2. ASSUME NEW i \in Jobs PROVE Budget(jobs'[i])
      BY <1>0, <1>a, <2>3, <2>5, StatusUpdatedEffect
    <3> QED
      BY <3>1, <3>2
  <2>6. CASE Complete(w, s)
    <3>1. /\ [jobs[j] EXCEPT !.status = "completed"] \in Row
          /\ Budget([jobs[j] EXCEPT !.status = "completed"])
      BY <1>0, <2>1, <2>4, OutcomeRows DEF Budget, Row
    <3> QED
      BY <2>5, <2>6, <3>1 DEF Complete
  <2>7. CASE Retry(w, s)
    <3>1. PICK d \in BackoffDelays(n) :
            jobs' = StatusUpdated(j, {"active"},
                      [jobs[j] EXCEPT !.status = "failed", !.attempts = n, !.nextRunIn = d])
      BY <2>7 DEF Retry
    <3>2. d \in 0 .. BackoffCap
      BY DEF BackoffDelays
    <3>3. [jobs[j] EXCEPT !.status = "failed", !.attempts = n, !.nextRunIn = d] \in Row
      BY <1>0, <2>1, <3>2, OutcomeRows
    <3>4. n < MaxAttempts
      BY <2>7 DEF Retry
    <3>5. Budget([jobs[j] EXCEPT !.status = "failed", !.attempts = n, !.nextRunIn = d])
      BY <2>4, <3>4 DEF Budget, Row
    <3> QED
      BY <2>5, <3>1, <3>3, <3>5
  <2>8. CASE Park(w, s)
    <3>1. [jobs[j] EXCEPT !.status = "dead-letter", !.attempts = n] \in Row
      BY <1>0, <2>1, OutcomeRows
    <3>2. n = MaxAttempts
      BY <2>3, <2>8 DEF Park
    <3>3. Budget([jobs[j] EXCEPT !.status = "dead-letter", !.attempts = n])
      BY <2>4, <3>2 DEF Budget, Row
    <3> QED
      BY <2>5, <2>8, <3>1, <3>3 DEF Park
  <2>9. CASE FinishUnrecorded(w, s)
    BY <1>0, <1>a, <2>9 DEF FinishUnrecorded
  <2> QED
    BY <1>11, <2>6, <2>7, <2>8, <2>9 DEF Finish
<1>12. ASSUME NEW w \in Workers, NEW s \in Slots, NEW j \in Jobs, Claim(w, s, j) PROVE TypeInv'
  <2>1. jobs[j].attempts \in 0 .. MaxAttempts - 1
    <3>1. jobs[j] \in Row /\ Claimable(jobs[j]) /\ Budget(jobs[j])
      BY <1>0, <1>12, <1>a DEF Claim, NextPending, Runnable, Table
    <3> QED
      BY <3>1 DEF Claimable, Budget, Row
  <2>2. ASSUME NEW i \in Jobs PROVE Budget(jobs'[i])
    BY <1>0, <1>12, <1>a, <2>1, ClaimedEffect DEF Budget, Claim
  <2>3. slot' \in [Workers -> [Slots -> Run]] /\ timer' \in [Workers -> [Jobs -> Timer]]
    <3>1. [job |-> j, attempts |-> jobs[j].attempts] \in Run
      BY <2>1 DEF Run
    <3> QED
      BY <1>0, <1>12, <1>d, <3>1 DEF Claim, TypeOK
  <2> QED
    BY <1>0, <1>12, <1>c, <2>2, <2>3, ClaimedType DEF Claim, TypeOK
<1>13. CASE UNCHANGED vars
  BY <1>0, <1>13, <1>a, <1>c DEF vars, TypeOK, Undisturbed
<1> QED
  BY <1>1, <1>2, <1>3, <1>4, <1>5, <1>6, <1>7, <1>8, <1>9, <1>10, <1>11, <1>12, <1>13 DEF Next

LEMMA TypeInvInit == Init => TypeInv
<1> SUFFICES ASSUME Init PROVE TypeInv
  OBVIOUS
<1>1. Free \in Run /\ Off \in Timer
  BY DEF Free, Run, Off, Timer
<1>2. jobs \in [Jobs -> Row]
  BY BlankIsRow DEF Init, StoreInit
<1>3. BudgetDecidesParking
  BY DEF Init, StoreInit, BudgetDecidesParking, Blank
<1> QED
  BY <1>1, <1>2, <1>3 DEF Init, TypeInv, TypeOK, Modes

\* Every reachable state is well typed: worker.ts and jobStore.ts keep the
\* attempts, delays, leases and timers of every row within their ranges.
THEOREM TypeCorrect == Spec => []TypeOK
<1>1. TypeInv => TypeOK
  BY DEF TypeInv
<1> QED
  BY <1>1, TypeInvInit, TypeInvStep, PTL DEF Spec

\* BudgetDecidesParking holds in every reachable state, lapsed leases included.
THEOREM BudgetCorrect == Spec => []BudgetDecidesParking
<1>1. TypeInv => BudgetDecidesParking
  BY DEF TypeInv
<1> QED
  BY <1>1, TypeInvInit, TypeInvStep, PTL DEF Spec

-----------------------------------------------------------------------------
\* What a step may make of a row's status; nothing here depends on who holds the lease.
Kept(i) ==
  /\ jobs[i].status = "completed" => jobs'[i].status = "completed"
  /\ jobs[i].status = "dead-letter" /\ jobs'[i].status # "dead-letter" =>
       \/ jobs'[i].status = "purged"
       \/ jobs'[i].status = "pending" /\ jobs'[i].attempts = 0

LEMMA UpdateKeeps ==
  ASSUME jobs \in Table, NEW j \in Jobs, NEW expected, NEW row \in Row,
         "completed" \notin expected, "dead-letter" \notin expected,
         jobs' = StatusUpdated(j, expected, row), NEW i \in Jobs
  PROVE  Kept(i)
<1>1. CASE i = j /\ jobs[j].status \in expected
  BY <1>1 DEF Kept
<1>2. CASE i = j /\ jobs[j].status \notin expected
  <2>1. jobs'[i] = jobs[i]
    BY <1>2, StatusUpdatedEffect
  <2> QED
    BY <2>1 DEF Kept
<1>3. CASE i # j
  <2>1. jobs'[i] = jobs[i]
    BY <1>3, StatusUpdatedEffect
  <2> QED
    BY <2>1 DEF Kept
<1> QED
  BY <1>1, <1>2, <1>3

LEMMA OutcomeKeeps ==
  ASSUME TypeOK, NEW w \in Workers, NEW s \in Slots, Finish(w, s), NEW i \in Jobs
  PROVE  Kept(i)
<1> DEFINE j == slot[w][s].job
           n == slot[w][s].attempts + 1
<1>1. jobs \in Table
  BY DEF TypeOK, Table
<1>2. slot[w][s].job # NoJob
  BY DEF Finish, Complete, Retry, Park, FinishUnrecorded
<1>3. /\ j \in Jobs
      /\ [jobs[j] EXCEPT !.status = "completed"] \in Row
      /\ \A d \in 0 .. BackoffCap :
           [jobs[j] EXCEPT !.status = "failed", !.attempts = n, !.nextRunIn = d] \in Row
      /\ [jobs[j] EXCEPT !.status = "dead-letter", !.attempts = n] \in Row
  BY <1>2, OutcomeRows
<1>4. ASSUME NEW expected, NEW row \in Row, jobs' = StatusUpdated(j, expected, row),
             "completed" \notin expected, "dead-letter" \notin expected
      PROVE  Kept(i)
  BY <1>1, <1>3, <1>4, UpdateKeeps
<1>5. CASE Complete(w, s)
  BY <1>3, <1>4, <1>5 DEF Complete
<1>6. CASE Retry(w, s)
  <2>1. PICK d \in BackoffDelays(n) : jobs' = StatusUpdated(j, {"active"},
             [jobs[j] EXCEPT !.status = "failed", !.attempts = n, !.nextRunIn = d])
    BY <1>6 DEF Retry
  <2>2. d \in 0 .. BackoffCap
    <3>1. d \in 0 .. BackoffCap - 1
      BY DEF BackoffDelays
    <3> QED
      BY <3>1, RowAssumption
  <2> QED
    BY <1>3, <1>4, <2>1, <2>2
<1>7. CASE Park(w, s)
  BY <1>3, <1>4, <1>7 DEF Park
<1>8. CASE FinishUnrecorded(w, s)
  BY <1>8 DEF FinishUnrecorded, Kept
<1> QED
  BY <1>5, <1>6, <1>7, <1>8 DEF Finish

LEMMA StepKeeps ==
  ASSUME TypeInv, [Next]_vars, NEW i \in Jobs
  PROVE  Kept(i)
<1>1. TypeOK /\ jobs \in Table
  BY DEF TypeInv, TypeOK, Table
<1>2. ASSUME jobs' = jobs \/ jobs'[i].status = jobs[i].status
      PROVE  Kept(i)
  BY <1>2 DEF Kept
<1>3. CASE Purge
  <2>1. PICK S : jobs' = Purged(S)
    BY <1>3 DEF Purge
  <2> QED
    BY <1>1, <2>1, PurgedEffect DEF Kept
<1>4. CASE Tick
  BY <1>1, <1>2, <1>4, TimePassesEffect DEF Tick
<1>5. ASSUME NEW j \in Jobs, Enqueue(j) PROVE Kept(i)
  <2>1. PICK p \in Priorities, c \in CreationTimes : jobs' = Inserted(j, p, c)
    BY <1>5 DEF Enqueue
  <2>2. jobs[j].status = "unsubmitted"
    BY <1>5 DEF Enqueue
  <2>3. i # j => jobs'[i] = jobs[i]
    BY <1>1, <2>1, InsertedEffect
  <2> QED
    BY <2>2, <2>3 DEF Kept
<1>6. ASSUME NEW j \in Jobs, Replay(j) PROVE Kept(i)
  <2>1. jobs' = Replayed(j) /\ jobs[j].status = "dead-letter"
    BY <1>6 DEF Replay
  <2> QED
    BY <1>1, <2>1, ReplayedEffect DEF Kept
<1>7. ASSUME NEW w \in Workers, Boot(w) PROVE Kept(i)
  <2>1. CASE jobs' = Recovered
    BY <1>1, <2>1, RecoveredEffect DEF Kept, Stale
  <2> QED
    BY <1>2, <1>7, <2>1 DEF Boot
<1>8. ASSUME NEW w \in Workers, StopReturns(w) PROVE Kept(i)
  <2>1. PICK S : jobs' = LeasesReleased(S, w)
    BY <1>8 DEF StopReturns
  <2> QED
    BY <1>1, <1>2, <2>1, LeasesReleasedEffect
<1>9. ASSUME NEW w \in Workers, Stop(w) \/ Exit(w) \/ Crash(w) PROVE Kept(i)
  BY <1>2, <1>9 DEF Stop, Exit, Crash
<1>10. ASSUME NEW w \in Workers, NEW j \in Jobs, Beat(w, j) PROVE Kept(i)
  <2>1. jobs' = LeaseExtended(j, w)
    BY <1>10 DEF Beat
  <2> QED
    BY <1>1, <1>2, <2>1, LeaseExtendedEffect
<1>11. ASSUME NEW w \in Workers, NEW j \in Jobs, BeatDropped(w, j) PROVE Kept(i)
  BY <1>2, <1>11 DEF BeatDropped
<1>12. ASSUME NEW w \in Workers, NEW s \in Slots, Finish(w, s) PROVE Kept(i)
  BY <1>1, <1>12, OutcomeKeeps
<1>13. ASSUME NEW w \in Workers, NEW s \in Slots, NEW j \in Jobs, Claim(w, s, j) PROVE Kept(i)
  <2>1. jobs' = Claimed(j, w) /\ jobs[j].status \in {"pending", "failed"}
    BY <1>13 DEF Claim, NextPending, Runnable, Claimable
  <2>2. i # j => jobs'[i] = jobs[i]
    BY <1>1, <2>1, ClaimedEffect
  <2> QED
    BY <2>1, <2>2 DEF Kept
<1>14. CASE UNCHANGED vars
  BY <1>2, <1>14 DEF vars
<1> QED
  BY <1>3, <1>4, <1>5, <1>6, <1>7, <1>8, <1>9, <1>10, <1>11, <1>12, <1>13, <1>14 DEF Next

(* However late a worker's outcome comes and whoever recovered its job in   *)
(* between, completed jobs stay completed and parked ones leave by a replay *)
(* or a purge only (updateStatus, DeadLetterQueue).                         *)
THEOREM TerminalStaysHolds == Spec => TerminalStays
<1> DEFINE A == \A j \in Jobs :
                  /\ jobs[j].status = "completed" => jobs'[j].status = "completed"
                  /\ jobs[j].status = "dead-letter" /\ jobs'[j].status # "dead-letter" =>
                       \/ jobs'[j].status = "purged"
                       \/ jobs'[j].status = "pending" /\ jobs'[j].attempts = 0
<1>1. TypeInv /\ [Next]_vars => A
  BY StepKeeps DEF Kept
<1> HIDE DEF A
<1>2. Spec => [][A]_vars
  BY <1>1, TypeInvInit, TypeInvStep, PTL DEF Spec
<1> QED
  BY <1>2 DEF A, TerminalStays

-----------------------------------------------------------------------------
(***************************************************************************)
(* Punctual heartbeats keep every lease.  LeaseInv is inductive, given the  *)
(* types: a run has its row, its timer and enough of its lease.             *)
(***************************************************************************)
LEMMA LeaseLasts ==
  ASSUME Punctual, TypeOK, LeaseInv,
         NEW w \in Workers, NEW s \in Slots, NEW j \in Jobs, Executes(w, s, j)
  PROVE  jobs[j].leaseLeft >= 0 /\ ~Stale(jobs[j])
<1>1. OwnsLease(j, w) /\ LeaseCovers(w, j)
  BY DEF LeaseInv
<1>2. jobs[j] \in Row /\ timer[w][j] \in Timer
  BY DEF TypeOK
<1>3. jobs[j].leaseLeft >= 0
  BY <1>1, <1>2 DEF LeaseCovers, Punctual, Row, Timer
<1> QED
  BY <1>1, <1>2, <1>3 DEF Stale, OwnsLease, Row

LEMMA OneRunPerJob ==
  ASSUME LeaseInv, NEW j \in Jobs, NEW w1 \in Workers, NEW w2 \in Workers,
         NEW s1 \in Slots, NEW s2 \in Slots, Executes(w1, s1, j), Executes(w2, s2, j)
  PROVE  w1 = w2 /\ s1 = s2
<1>1. OwnsLease(j, w1) /\ OwnsLease(j, w2)
  BY DEF LeaseInv
<1>2. w1 = w2
  BY <1>1 DEF OwnsLease
<1> QED
  BY <1>2 DEF LeaseInv

\* What LeaseInv says of one run.
Backed(w, s, j) ==
  /\ OwnsLease(j, w)
  /\ jobs[j].attempts = slot[w][s].attempts
  /\ timer[w][j].armed
  /\ LeaseCovers(w, j)

LEMMA BackedFrame ==
  ASSUME NEW w \in Workers, NEW s \in Slots, NEW j \in Jobs, Backed(w, s, j),
         jobs'[j] = jobs[j], slot'[w][s] = slot[w][s], timer'[w][j] = timer[w][j]
  PROVE  Backed(w, s, j)'
  BY DEF Backed, OwnsLease, LeaseCovers

LEMMA LeaseInvParts ==
  ASSUME LeaseInv
  PROVE  /\ \A w \in Workers, s \in Slots, j \in Jobs : Executes(w, s, j) => Backed(w, s, j)
         /\ \A w \in Workers, s1, s2 \in Slots, j \in Jobs :
              Executes(w, s1, j) /\ Executes(w, s2, j) => s1 = s2
         /\ \A w \in Workers, j \in Jobs :
              timer[w][j].armed => \E s \in Slots : Executes(w, s, j)
  BY DEF LeaseInv, Backed, Heartbeats

LEMMA LeaseInvRestored ==
  ASSUME \A w \in Workers, s \in Slots, j \in Jobs : Executes(w, s, j)' => Backed(w, s, j)',
         \A w \in Workers, s1, s2 \in Slots, j \in Jobs :
           Executes(w, s1, j)' /\ Executes(w, s2, j)' => s1 = s2,
         \A w \in Workers, j \in Jobs :
           timer'[w][j].armed => \E s \in Slots : Executes(w, s, j)'
  PROVE  LeaseInv'
  BY DEF LeaseInv, Backed, Heartbeats

LEMMA LeaseInvStep ==
  ASSUME Punctual, TypeInv, LeaseInv, [Next]_vars
  PROVE  LeaseInv'
<1>0. /\ TypeOK /\ jobs \in Table
      /\ \A w \in Workers, s \in Slots, j \in Jobs : Executes(w, s, j) => Backed(w, s, j)
      /\ \A w \in Workers, s1, s2 \in Slots, j \in Jobs :
           Executes(w, s1, j) /\ Executes(w, s2, j) => s1 = s2
      /\ \A w \in Workers, j \in Jobs :
           timer[w][j].armed => \E s \in Slots : Executes(w, s, j)
  BY LeaseInvParts DEF TypeInv, TypeOK, Table
<1>a. ASSUME NEW w \in Workers, NEW s \in Slots, NEW j \in Jobs, Executes(w, s, j)
      PROVE  /\ jobs[j] \in Row /\ timer[w][j] \in Timer
             /\ jobs[j].status = "active" /\ jobs[j].leaseOwner = w
             /\ jobs[j].leaseLeft >= 0 /\ ~Stale(jobs[j])
  BY <1>0, <1>a, LeaseLasts DEF Backed, OwnsLease, TypeOK
\* Most steps leave the slots and the timers alone, and the rows of running jobs.
<1>b. ASSUME UNCHANGED <<slot, timer>>,
             \A w \in Workers, s \in Slots, j \in Jobs :
               Executes(w, s, j) => jobs'[j] = jobs[j]
      PROVE  LeaseInv'
  <2>1. ASSUME NEW w \in Workers, NEW s \in Slots, NEW j \in Jobs, Executes(w, s, j)'
        PROVE  Backed(w, s, j)'
    BY <1>0, <1>b, <2>1, BackedFrame DEF Executes
  <2> QED
    BY <1>0, <1>b, <2>1, LeaseInvRestored DEF Executes
<1>1. CASE Purge
  <2>1. PICK S : jobs' = Purged(S)
    BY <1>1 DEF Purge
  <2>2. ASSUME NEW w \in Workers, NEW s \in Slots, NEW j \in Jobs, Executes(w, s, j)
        PROVE  jobs'[j] = jobs[j]
    <3>1. jobs[j].status # "dead-letter"
      BY <1>a, <2>2
    <3> QED
      BY <1>0, <2>1, <3>1, PurgedEffect
  <2> QED
    BY <1>1, <1>b, <2>2 DEF Purge
<1>2. CASE Tick
  <2>1. ASSUME NEW w \in Workers, NEW s \in Slots, NEW j \in Jobs, Executes(w, s, j)'
        PROVE  Backed(w, s, j)'
    <3>1. Executes(w, s, j) /\ Backed(w, s, j)
      BY <1>0, <1>2, <2>1 DEF Tick, Executes
    <3>2. /\ jobs'[j].status = jobs[j].status /\ jobs'[j].attempts = jobs[j].attempts
          /\ jobs'[j].leaseOwner = jobs[j].leaseOwner
          /\ jobs'[j].leaseLeft = jobs[j].leaseLeft - 1
      BY <1>0, <1>2, <1>a, <3>1, TimePassesEffect DEF Tick
    <3>3. timer'[w][j] = [timer[w][j] EXCEPT !.due = @ - 1]
      BY <1>2, <3>1 DEF Tick, Backed
    <3>4. /\ timer'[w][j].armed /\ timer'[w][j].missed = timer[w][j].missed
          /\ timer'[w][j].due = timer[w][j].due - 1
      BY <1>a, <3>1, <3>3 DEF Timer, Backed
    <3>5. LeaseCovers(w, j)'
      BY <1>a, <3>1, <3>2, <3>4 DEF Backed, LeaseCovers, Row, Timer
    <3> QED
      BY <1>2, <3>1, <3>2, <3>4, <3>5 DEF Backed, OwnsLease, Tick
  <2>2. ASSUME NEW w \in Workers, NEW j \in Jobs, timer'[w][j].armed
        PROVE  timer[w][j].armed
    BY <1>0, <1>2, <2>2 DEF Tick, TypeOK, Timer
  <2> QED
    BY <1>0, <1>2, <2>1, <2>2, LeaseInvRestored DEF Tick, Executes
<1>3. ASSUME NEW j \in Jobs, Enqueue(j) PROVE LeaseInv'
  <2>1. PICK p \in Priorities, c \in CreationTimes : jobs' = Inserted(j, p, c)
    BY <1>3 DEF Enqueue
  <2>2. jobs[j].status = "unsubmitted"
    BY <1>3 DEF Enqueue
  <2>3. ASSUME NEW w \in Workers, NEW s \in Slots, NEW i \in Jobs, Executes(w, s, i)
        PROVE  jobs'[i] = jobs[i]
    <3>1. i # j
      BY <1>a, <2>2, <2>3
    <3> QED
      BY <1>0, <2>1, <3>1, InsertedEffect
  <2> QED
    BY <1>3, <1>b, <2>3 DEF Enqueue
<1>4. ASSUME NEW j \in Jobs, Replay(j) PROVE LeaseInv'
  <2>1. jobs[j].status = "dead-letter" /\ jobs' = Replayed(j)
    BY <1>4 DEF Replay
  <2>2. ASSUME NEW w \in Workers, NEW s \in Slots, NEW i \in Jobs, Executes(w, s, i)
        PROVE  jobs'[i] = jobs[i]
    <3>1. i # j
      BY <1>a, <2>1, <2>2
    <3> QED
      BY <1>0, <2>1, <3>1, ReplayedEffect
  <2> QED
    BY <1>4, <1>b, <2>2 DEF Replay
<1>5. ASSUME NEW w \in Workers, Boot(w) PROVE LeaseInv'
  <2>1. jobs' = Recovered \/ jobs' = jobs
    BY <1>5 DEF Boot
  <2>2. ASSUME NEW v \in Workers, NEW s \in Slots, NEW j \in Jobs, Executes(v, s, j)
        PROVE  jobs'[j] = jobs[j]
    <3>1. ~Stale(jobs[j])
      BY <1>a, <2>2
    <3> QED
      BY <1>0, <2>1, <3>1, RecoveredEffect
  <2> QED
    BY <1>5, <1>b, <2>2 DEF Boot
<1>6. ASSUME NEW w \in Workers, Stop(w) \/ Exit(w) PROVE LeaseInv'
  BY <1>6, <1>b DEF Stop, Exit
\* A drain that waits for its handlers ends with no slot in use, so no timer.
<1>7. ASSUME NEW w \in Workers, StopReturns(w) PROVE LeaseInv'
  <2>1. \A s \in Slots, j \in Jobs : ~Executes(w, s, j)
    BY <1>7 DEF StopReturns, Punctual, Idle, Executes, Free
  <2>2. Heartbeats(w) = {}
    BY <1>0, <2>1 DEF Heartbeats
  <2>3. PICK S \in SUBSET Heartbeats(w) : jobs' = LeasesReleased(S, w)
    BY <1>7 DEF StopReturns
  <2>4. \A j \in Jobs : jobs'[j] = jobs[j]
    BY <1>0, <2>2, <2>3, LeasesReleasedEffect
  <2>5. ASSUME NEW v \in Workers, NEW s \in Slots, NEW j \in Jobs, Executes(v, s, j)'
        PROVE  Backed(v, s, j)'
    <3>1. Executes(v, s, j) /\ v # w
      BY <1>7, <2>1, <2>5 DEF StopReturns, Executes
    <3>2. timer'[v][j] = timer[v][j]
      BY <1>0, <1>7, <3>1 DEF StopReturns, TypeOK
    <3> QED
      BY <1>0, <1>7, <2>4, <3>1, <3>2, BackedFrame DEF StopReturns
  <2>6. ASSUME NEW v \in Workers, NEW j \in Jobs, timer'[v][j].armed
        PROVE  timer[v][j].armed
    BY <1>0, <1>7, <2>6 DEF StopReturns, TypeOK, Off
  <2> QED
    BY <1>0, <1>7, <2>5, <2>6, LeaseInvRestored DEF StopReturns, Executes
<1>8. ASSUME NEW w \in Workers, Crash(w) PROVE LeaseInv'
  <2>1. ASSUME NEW v \in Workers, NEW s \in Slots, NEW j \in Jobs, Executes(v, s, j)'
        PROVE  v # w /\ Executes(v, s, j)
    BY <1>0, <1>8, <2>1 DEF Crash, TypeOK, Executes, Free
  <2>2. ASSUME NEW v \in Workers, NEW j \in Jobs, timer'[v][j].armed
        PROVE  v # w /\ timer[v][j].armed
    BY <1>0, <1>8, <2>2 DEF Crash, TypeOK, Off
  <2>3. \A v \in Workers \ {w} : slot'[v] = slot[v] /\ timer'[v] = timer[v]
    BY <1>0, <1>8 DEF Crash, TypeOK
  <2>4. ASSUME NEW v \in Workers, NEW s \in Slots, NEW j \in Jobs, Executes(v, s, j)'
        PROVE  Backed(v, s, j)'
    BY <1>0, <1>8, <2>1, <2>3, <2>4, BackedFrame DEF Crash
  <2>5. ASSUME NEW v \in Workers, NEW j \in Jobs, timer'[v][j].armed
        PROVE  \E s \in Slots : Executes(v, s, j)'
    BY <1>0, <2>2, <2>3, <2>5 DEF Executes
  <2> QED
    BY <1>0, <2>1, <2>4, <2>5, LeaseInvRestored
<1>9. ASSUME NEW w \in Workers, NEW j \in Jobs, Beat(w, j) PROVE LeaseInv'
  <2>1. PICK s \in Slots : Executes(w, s, j)
    BY <1>0, <1>9 DEF Beat
  <2>2. OwnsLease(j, w)
    BY <1>0, <2>1 DEF Backed
  <2>3. timer'[w][j] = Armed /\ \A v \in Workers, i \in Jobs :
          v # w \/ i # j => timer'[v][i] = timer[v][i]
    BY <1>0, <1>9, <2>2 DEF Beat, TypeOK
  <2>4. ASSUME NEW v \in Workers, NEW t \in Slots, NEW i \in Jobs, Executes(v, t, i)'
        PROVE  Backed(v, t, i)'
    <3>1. Executes(v, t, i) /\ Backed(v, t, i)
      BY <1>0, <1>9, <2>4 DEF Beat, Executes
    <3>2. CASE i = j
      <4>1. v = w
        BY <1>a, <2>2, <3>1, <3>2 DEF OwnsLease
      <4>2. /\ jobs'[j].status = jobs[j].status /\ jobs'[j].attempts = jobs[j].attempts
            /\ jobs'[j].leaseOwner = jobs[j].leaseOwner /\ jobs'[j].leaseLeft = LeaseTtl
        BY <1>0, <1>9, <2>2, LeaseExtendedEffect DEF Beat
      <4>3. LeaseCovers(w, j)'
        BY <2>3, <4>2 DEF LeaseCovers, Armed
      <4> QED
        BY <1>9, <2>3, <3>1, <3>2, <4>1, <4>2, <4>3 DEF Beat, Backed, OwnsLease, Armed
    <3>3. CASE i # j
      <4>1. jobs'[i] = jobs[i]
        BY <1>0, <1>9, <3>3, LeaseExtendedEffect DEF Beat
      <4> QED
        BY <1>9, <2>3, <3>1, <3>3, <4>1, BackedFrame DEF Beat
    <3> QED
      BY <3>2, <3>3
  <2>5. ASSUME NEW v \in Workers, NEW i \in Jobs, timer'[v][i].armed
        PROVE  timer[v][i].armed
    BY <1>9, <2>3, <2>5 DEF Beat
  <2> QED
    BY <1>0, <1>9, <2>4, <2>5, LeaseInvRestored DEF Beat, Executes
<1>10. ASSUME NEW w \in Workers, NEW j \in Jobs, BeatDropped(w, j) PROVE LeaseInv'
  <2>1. timer'[w][j] = Missed /\ \A v \in Workers, i \in Jobs :
          v # w \/ i # j => timer'[v][i] = timer[v][i]
    BY <1>0, <1>10 DEF BeatDropped, TypeOK
  <2>2. ASSUME NEW v \in Workers, NEW t \in Slots, NEW i \in Jobs, Executes(v, t, i)'
        PROVE  Backed(v, t, i)'
    <3>1. Executes(v, t, i) /\ Backed(v, t, i)
      BY <1>0, <1>10, <2>2 DEF BeatDropped, Executes
    <3>2. CASE v = w /\ i = j
      <4>1. jobs[j].leaseLeft >= timer[w][j].due + LeaseTtl - Heartbeat
        BY <1>10, <3>1, <3>2 DEF Backed, LeaseCovers, BeatDropped
      <4>2. LeaseCovers(w, j)'
        BY <1>10, <1>a, <2>1, <3>1, <3>2, <4>1 DEF LeaseCovers, Missed, BeatDropped, Row, Timer
      <4> QED
        BY <1>10, <2>1, <3>1, <3>2, <4>2 DEF BeatDropped, Backed, OwnsLease, Missed
    <3>3. CASE ~(v = w /\ i = j)
      BY <1>10, <2>1, <3>1, <3>3, BackedFrame DEF BeatDropped
    <3> QED
      BY <3>2, <3>3
  <2>3. ASSUME NEW v \in Workers, NEW i \in Jobs, timer'[v][i].armed
        PROVE  timer[v][i].armed
    BY <1>10, <2>1, <2>3 DEF BeatDropped
  <2> QED
    BY <1>0, <1>10, <2>2, <2>3, LeaseInvRestored DEF BeatDropped, Executes
<1>11. ASSUME NEW w \in Workers, NEW s \in Slots, Finish(w, s) PROVE LeaseInv'
  <2> DEFINE j == slot[w][s].job
  <2>0. j # NoJob /\ SlotFreed(w, s)
    BY <1>11 DEF Finish, Complete, Retry, Park, FinishUnrecorded
  <2>1. j \in Jobs /\ Executes(w, s, j)
    BY <1>0, <2>0, OutcomeRows DEF Executes
  <2>2. \A i \in Jobs \ {j} : jobs'[i] = jobs[i]
    <3>1. ASSUME NEW expected, NEW row \in Row, jobs' = StatusUpdated(j, expected, row)
          PROVE  \A i \in Jobs \ {j} : jobs'[i] = jobs[i]
      BY <1>0, <2>1, <3>1, StatusUpdatedEffect
    <3>2. CASE Complete(w, s)
      <4>1. [jobs[j] EXCEPT !.status = "completed"] \in Row
        BY <1>0, <2>0, OutcomeRows
      <4> QED
        BY <3>1, <3>2, <4>1 DEF Complete
    <3>3. CASE Retry(w, s)
      <4>1. PICK d \in BackoffDelays(slot[w][s].attempts + 1) :
              jobs' = StatusUpdated(j, {"active"},
                        [jobs[j] EXCEPT !.status = "failed", !.attempts = slot[w][s].attempts + 1,
                                        !.nextRunIn = d])
        BY <3>3 DEF Retry
      <4>2. d \in 0 .. BackoffCap
        BY DEF BackoffDelays
      <4>3. [jobs[j] EXCEPT !.status = "failed", !.attempts = slot[w][s].attempts + 1,
                            !.nextRunIn = d] \in Row
        BY <1>0, <2>0, <4>2, OutcomeRows
      <4> QED
        BY <3>1, <4>1, <4>3
    <3>4. CASE Park(w, s)
      <4>1. [jobs[j] EXCEPT !.status = "dead-letter", !.attempts = slot[w][s].attempts + 1] \in Row
        BY <1>0, <2>0, OutcomeRows
      <4> QED
        BY <3>1, <3>4, <4>1 DEF Park
    <3>5. CASE FinishUnrecorded(w, s)
      BY <3>5 DEF FinishUnrecorded
    <3> QED
      BY <1>11, <3>2, <3>3, <3>4, <3>5 DEF Finish
  <2>3. /\ slot'[w][s] = Free /\ timer'[w][j] = Off
        /\ \A v \in Workers, t \in Slots : v # w \/ t # s => slot'[v][t] = slot[v][t]
        /\ \A v \in Workers, i \in Jobs : v # w \/ i # j => timer'[v][i] = timer[v][i]
    BY <1>0, <2>0, <2>1 DEF SlotFreed, TypeOK
  <2>4. ASSUME NEW v \in Workers, NEW t \in Slots, NEW i \in Jobs, Executes(v, t, i)'
        PROVE  Executes(v, t, i) /\ slot'[v][t] = slot[v][t] /\ i # j
    <3>1. Executes(v, t, i) /\ slot'[v][t] = slot[v][t] /\ (v # w \/ t # s)
      BY <2>3, <2>4 DEF Executes, Free
    <3> QED
      BY <2>1, <3>1, OneRunPerJob
  <2>5. ASSUME NEW v \in Workers, NEW t \in Slots, NEW i \in Jobs, Executes(v, t, i)'
        PROVE  Backed(v, t, i)'
    BY <1>0, <2>2, <2>3, <2>4, <2>5, BackedFrame
  <2>6. ASSUME NEW v \in Workers, NEW i \in Jobs, timer'[v][i].armed
        PROVE  \E t \in Slots : Executes(v, t, i)'
    <3>1. timer[v][i].armed /\ (v # w \/ i # j)
      BY <2>3, <2>6 DEF Off
    <3>2. PICK t \in Slots : Executes(v, t, i)
      BY <1>0, <3>1
    <3>3. v # w \/ t # s
      BY <3>1, <3>2 DEF Executes
    <3> QED
      BY <2>3, <3>2, <3>3 DEF Executes
  <2> QED
    BY <1>0, <2>4, <2>5, <2>6, LeaseInvRestored
<1>12. ASSUME NEW w \in Workers, NEW s \in Slots, NEW j \in Jobs, Claim(w, s, j)
       PROVE  LeaseInv'
  <2>1. jobs[j].status # "active"
    BY <1>12 DEF Claim, NextPending, Runnable, Claimable
  <2>2. \A v \in Workers, t \in Slots : ~Executes(v, t, j)
    BY <1>a, <2>1
  <2>3. /\ slot'[w][s] = [job |-> j, attempts |-> jobs[j].attempts] /\ timer'[w][j] = Armed
        /\ \A v \in Workers, t \in Slots : v # w \/ t # s => slot'[v][t] = slot[v][t]
        /\ \A v \in Workers, i \in Jobs : v # w \/ i # j => timer'[v][i] = timer[v][i]
    BY <1>0, <1>12 DEF Claim, TypeOK
  <2>4. ASSUME NEW v \in Workers, NEW t \in Slots, NEW i \in Jobs, Executes(v, t, i)'
        PROVE  \/ v = w /\ t = s /\ i = j
               \/ i # j /\ Executes(v, t, i) /\ slot'[v][t] = slot[v][t]
    BY <2>2, <2>3, <2>4 DEF Executes
  <2>5. ASSUME NEW v \in Workers, NEW t \in Slots, NEW i \in Jobs, Executes(v, t, i)'
        PROVE  Backed(v, t, i)'
    <3>1. CASE v = w /\ t = s /\ i = j
      <4>1. /\ jobs'[j].status = "active" /\ jobs'[j].attempts = jobs[j].attempts
            /\ jobs'[j].leaseOwner = w /\ jobs'[j].leaseLeft = LeaseTtl
        BY <1>0, <1>12, ClaimedEffect DEF Claim
      <4>2. LeaseCovers(w, j)'
        BY <2>3, <4>1 DEF LeaseCovers, Armed
      <4> QED
        BY <2>3, <3>1, <4>1, <4>2 DEF Backed, OwnsLease, Armed
    <3>2. CASE i # j /\ Executes(v, t, i) /\ slot'[v][t] = slot[v][t]
      <4>1. jobs'[i] = jobs[i]
        BY <1>0, <1>12, <3>2, ClaimedEffect DEF Claim
      <4> QED
        BY <1>0, <2>3, <3>2, <4>1, BackedFrame
    <3> QED
      BY <2>4, <2>5, <3>1, <3>2
  <2>6. ASSUME NEW v \in Workers, NEW i \in Jobs, timer'[v][i].armed
        PROVE  \E t \in Slots : Executes(v, t, i)'
    <3>1. CASE v = w /\ i = j
      BY <2>3, <3>1 DEF Executes
    <3>2. CASE ~(v = w /\ i = j)
      <4>1. PICK t \in Slots : Executes(v, t, i)
        BY <1>0, <2>3, <2>6, <3>2
      <4>2. v # w \/ t # s
        BY <1>12, <4>1 DEF Claim, Executes, Free
      <4> QED
        BY <2>3, <4>1, <4>2 DEF Executes
    <3> QED
      BY <3>1, <3>2
  <2>7. ASSUME NEW v \in Workers, NEW t1 \in Slots, NEW t2 \in Slots, NEW i \in Jobs,
               Executes(v, t1, i)', Executes(v, t2, i)'
        PROVE  t1 = t2
    BY <1>0, <2>4, <2>7
  <2> QED
    BY <2>5, <2>6, <2>7, LeaseInvRestored
<1>13. CASE UNCHANGED vars
  BY <1>13, <1>b DEF vars
<1> QED
  BY <1>1, <1>2, <1>3, <1>4, <1>5, <1>6, <1>7, <1>8, <1>9, <1>10, <1>11, <1>12, <1>13 DEF Next

LEMMA LeaseInvInit == Init => LeaseInv
  BY DEF Init, LeaseInv, Executes, Heartbeats, Free, Off

LEMMA LeaseInvHolds ==
  ASSUME Punctual
  PROVE  Spec => [](TypeInv /\ LeaseInv)
<1>1. TypeInv /\ LeaseInv /\ [Next]_vars => (TypeInv /\ LeaseInv)'
  BY TypeInvStep, LeaseInvStep
<1> QED
  BY <1>1, TypeInvInit, LeaseInvInit, PTL DEF Spec

\* A heartbeat may be dropped and every heartbeat may be late, and still no job
\* has two runs in progress, as worker.ts:17-19 claims, provided shutdown waits
\* for its handlers.
THEOREM NoDoubleExecutionHolds ==
  ASSUME Punctual
  PROVE  Spec => []NoDoubleExecution
<1>1. LeaseInv => NoDoubleExecution
  BY OneRunPerJob DEF NoDoubleExecution
<1> QED
  BY <1>1, LeaseInvHolds, PTL

\* Every run in progress has its row active, leased to it and out of recovery's
\* reach.
THEOREM RunsAreLeasedHolds ==
  ASSUME Punctual
  PROVE  Spec => []RunsAreLeased
<1>1. TypeInv /\ LeaseInv => RunsAreLeased
  BY LeaseLasts, LeaseInvParts DEF RunsAreLeased, Backed, TypeInv
<1> QED
  BY <1>1, LeaseInvHolds, PTL

-----------------------------------------------------------------------------
(***************************************************************************)
(* JobWorker implements JobLifecycle, for any number of jobs, workers and   *)
(* slots, while leases are sized for their heartbeats.                      *)
(***************************************************************************)

(***************************************************************************)
(* The shapes a step of the lifecycle can have, from what it does to the    *)
(* phase of each job.                                                       *)
(***************************************************************************)
AttemptsStay == \A j \in Jobs : jobs'[j].attempts = jobs[j].attempts

PhaseMap   == [j \in Jobs |-> Phase(j)]
FailureMap == [j \in Jobs |-> jobs[j].attempts]

LEMMA FailuresStay ==
  ASSUME AttemptsStay
  PROVE  FailureMap' = FailureMap
  BY DEF AttemptsStay, FailureMap

LEMMA MoveOne ==
  ASSUME NEW i \in Jobs, NEW a, NEW b, Phase(i) = a, Phase(i)' = b,
         \A j \in Jobs \ {i} : Phase(j)' = Phase(j)
  PROVE  Lifecycle!Move(i, a, b)
  BY DEF Lifecycle!Move

LEMMA MoveMany ==
  ASSUME NEW a, NEW b,
         \A j \in Jobs : Phase(j)' = Phase(j) \/ (Phase(j) = a /\ Phase(j)' = b)
  PROVE  Lifecycle!MoveAll(a, b)
<1> DEFINE S == {j \in Jobs : Phase(j) = a /\ Phase(j)' = b}
<1>1. S \in SUBSET {j \in Jobs : [i \in Jobs |-> Phase(i)][j] = a}
  OBVIOUS
<1>2. [j \in Jobs |-> Phase(j)]'
        = [j \in Jobs |-> IF j \in S THEN b ELSE [i \in Jobs |-> Phase(i)][j]]
  OBVIOUS
<1> QED
  BY <1>1, <1>2 DEF Lifecycle!MoveAll

-----------------------------------------------------------------------------
(***************************************************************************)
(* The phase of a job, from its status and from whether a slot runs it.     *)
(***************************************************************************)
Executing(j) == \E w \in Workers, s \in Slots : Executes(w, s, j)

LEMMA PhaseValue ==
  ASSUME NEW j \in Jobs
  PROVE  /\ jobs[j].status \in {"pending", "failed"} => Phase(j) = "queued"
         /\ jobs[j].status = "active" /\ Executing(j) => Phase(j) = "running"
         /\ jobs[j].status = "active" /\ ~Executing(j) => Phase(j) = "stranded"
         /\ jobs[j].status = "dead-letter" => Phase(j) = "parked"
         /\ jobs[j].status \in {"unsubmitted", "completed", "purged"} => Phase(j) = jobs[j].status
  BY DEF Phase, Stranded, Executing

LEMMA PhaseValueNext ==
  ASSUME NEW j \in Jobs
  PROVE  /\ jobs'[j].status \in {"pending", "failed"} => Phase(j)' = "queued"
         /\ jobs'[j].status = "active" /\ Executing(j)' => Phase(j)' = "running"
         /\ jobs'[j].status = "active" /\ ~Executing(j)' => Phase(j)' = "stranded"
         /\ jobs'[j].status = "dead-letter" => Phase(j)' = "parked"
         /\ jobs'[j].status \in {"unsubmitted", "completed", "purged"} =>
              Phase(j)' = jobs'[j].status
  BY DEF Phase, Stranded, Executing

LEMMA PhaseFrame ==
  ASSUME NEW j \in Jobs, jobs'[j].status = jobs[j].status, Executing(j)' <=> Executing(j)
  PROVE  Phase(j)' = Phase(j)
  BY DEF Phase, Stranded, Executing

LEMMA Stutter ==
  ASSUME AttemptsStay, \A j \in Jobs : Phase(j)' = Phase(j)
  PROVE  UNCHANGED <<PhaseMap, FailureMap>>
  BY FailuresStay DEF PhaseMap

\* A step that leaves every slot, status and count of attempts alone.
LEMMA QuietStep ==
  ASSUME UNCHANGED slot,
         \A j \in Jobs : jobs'[j].status = jobs[j].status /\ jobs'[j].attempts = jobs[j].attempts
  PROVE  UNCHANGED <<PhaseMap, FailureMap>>
<1>1. \A j \in Jobs : Executing(j)' <=> Executing(j)
  BY DEF Executing, Executes
<1> QED
  BY <1>1, PhaseFrame, Stutter DEF AttemptsStay

-----------------------------------------------------------------------------
(***************************************************************************)
(* The steps of the queue that some lifecycle step matches.  Each is stated *)
(* for the job it is about: the others keep their row and their runs.       *)
(***************************************************************************)
Others(j) == \A i \in Jobs \ {j} : jobs'[i] = jobs[i] /\ (Executing(i)' <=> Executing(i))

LEMMA OthersKeepPhase ==
  ASSUME NEW j \in Jobs, Others(j)
  PROVE  \A i \in Jobs \ {j} : Phase(i)' = Phase(i)
  BY PhaseFrame DEF Others

LEMMA OthersKeepFailures ==
  ASSUME NEW j \in Jobs, Others(j), jobs'[j].attempts = jobs[j].attempts
  PROVE  FailureMap' = FailureMap
  BY FailuresStay DEF Others, AttemptsStay

LEMMA SlotsUntouched ==
  ASSUME UNCHANGED slot
  PROVE  \A j \in Jobs : Executing(j)' <=> Executing(j)
  BY DEF Executing, Executes

\* A row that was never inserted has no failures behind it.
Fresh == \A j \in Jobs : jobs[j].status = "unsubmitted" => jobs[j].attempts = 0

LEMMA EnqueueSubmits ==
  ASSUME jobs \in Table, Fresh, NEW j \in Jobs, Enqueue(j)
  PROVE  Lifecycle!Submit(j)
<1>1. PICK p \in Priorities, c \in CreationTimes : jobs' = Inserted(j, p, c)
  BY DEF Enqueue
<1>2. jobs'[j].status = "pending" /\ jobs'[j].attempts = jobs[j].attempts /\ Others(j)
  BY <1>1, InsertedEffect, SlotsUntouched DEF Enqueue, Others, Fresh
<1>3. Lifecycle!Move(j, "unsubmitted", "queued")
  BY <1>2, MoveOne, OthersKeepPhase, PhaseValue, PhaseValueNext DEF Enqueue
<1> QED
  BY <1>2, <1>3, OthersKeepFailures DEF Lifecycle!Submit, FailureMap

LEMMA ReplayReplays ==
  ASSUME jobs \in Table, NEW j \in Jobs, Replay(j)
  PROVE  Lifecycle!Replay(j)
<1>1. jobs[j].status = "dead-letter" /\ jobs' = Replayed(j)
  BY DEF Replay
<1>2. jobs'[j].status = "pending" /\ jobs'[j].attempts = 0 /\ Others(j)
  BY <1>1, ReplayedEffect, SlotsUntouched DEF Replay, Others
<1>3. Lifecycle!Move(j, "parked", "queued")
  BY <1>1, <1>2, MoveOne, OthersKeepPhase, PhaseValue, PhaseValueNext
<1>4. FailureMap' = [FailureMap EXCEPT ![j] = 0]
  BY <1>2 DEF FailureMap, Others
<1> QED
  BY <1>3, <1>4 DEF Lifecycle!Replay, FailureMap

LEMMA PurgePurges ==
  ASSUME jobs \in Table, Purge
  PROVE  Lifecycle!Purge
<1>1. PICK S : jobs' = Purged(S)
  BY DEF Purge
<1>2. \A j \in Jobs : jobs'[j].attempts = jobs[j].attempts
  BY <1>1 DEF Table, Purged, Row
<1>3. ASSUME NEW j \in Jobs
      PROVE  Phase(j)' = Phase(j) \/ (Phase(j) = "parked" /\ Phase(j)' = "purged")
  <2>1. CASE jobs'[j] = jobs[j]
    BY <2>1, PhaseFrame, SlotsUntouched DEF Purge
  <2>2. CASE jobs[j].status = "dead-letter" /\ jobs'[j].status = "purged"
    BY <2>2, PhaseValue, PhaseValueNext
  <2> QED
    BY <1>1, <2>1, <2>2, PurgedEffect
<1> QED
  BY <1>2, <1>3, FailuresStay, MoveMany DEF Lifecycle!Purge, FailureMap, AttemptsStay

\* Recovery takes rows that nobody runs, since the row of a run is never stale.
LEMMA BootResumes ==
  ASSUME Punctual, TypeOK, LeaseInv, jobs \in Table, NEW w \in Workers, Boot(w)
  PROVE  Lifecycle!Resume \/ UNCHANGED <<PhaseMap, FailureMap>>
<1>1. CASE jobs' = Recovered
  <2>1. \A j \in Jobs : jobs'[j].attempts = jobs[j].attempts
    BY <1>1, RecoveredEffect
  <2>2. ASSUME NEW j \in Jobs
        PROVE  Phase(j)' = Phase(j) \/ (Phase(j) = "stranded" /\ Phase(j)' = "queued")
    <3>1. CASE Stale(jobs[j])
      <4>1. ~Executing(j) /\ jobs[j].status = "active"
        BY <3>1, LeaseLasts DEF Executing, Stale
      <4> QED
        BY <1>1, <3>1, <4>1, RecoveredEffect, PhaseValue, PhaseValueNext
    <3>2. CASE ~Stale(jobs[j])
      BY <1>1, <3>2, RecoveredEffect, PhaseFrame, SlotsUntouched DEF Boot
    <3> QED
      BY <3>1, <3>2
  <2> QED
    BY <2>1, <2>2, FailuresStay, MoveMany DEF Lifecycle!Resume, FailureMap, AttemptsStay
<1>2. CASE jobs' = jobs
  BY <1>2, QuietStep DEF Boot
<1> QED
  BY <1>1, <1>2 DEF Boot

\* Runs end without a verdict: in a crash, or when the outcome cannot be written.
LEMMA RunsCutShort ==
  ASSUME LeaseInv, UNCHANGED jobs,
         \A w \in Workers, s \in Slots, j \in Jobs : Executes(w, s, j)' => Executes(w, s, j)
  PROVE  Lifecycle!Abandon
<1>1. ASSUME NEW j \in Jobs
      PROVE  Phase(j)' = Phase(j) \/ (Phase(j) = "running" /\ Phase(j)' = "stranded")
  <2>1. CASE Executing(j) /\ ~Executing(j)'
    <3>1. jobs[j].status = "active"
      BY <2>1, LeaseInvParts DEF Executing, Backed, OwnsLease
    <3> QED
      BY <2>1, <3>1, PhaseValue, PhaseValueNext
  <2>2. CASE Executing(j)' <=> Executing(j)
    BY <2>2, PhaseFrame
  <2> QED
    BY <2>1, <2>2 DEF Executing
<1> QED
  BY <1>1, FailuresStay, MoveMany DEF Lifecycle!Abandon, FailureMap, AttemptsStay

LEMMA CrashAbandons ==
  ASSUME TypeOK, LeaseInv, NEW w \in Workers, Crash(w)
  PROVE  Lifecycle!Abandon
<1>1. ASSUME NEW v \in Workers, NEW s \in Slots, NEW j \in Jobs, Executes(v, s, j)'
      PROVE  Executes(v, s, j)
  BY <1>1 DEF Crash, TypeOK, Executes, Free
<1> QED
  BY <1>1, RunsCutShort DEF Crash

LEMMA StepOfTime ==
  ASSUME jobs \in Table, Tick
  PROVE  UNCHANGED <<PhaseMap, FailureMap>>
  BY TimePassesEffect, QuietStep DEF Tick

LEMMA BeatIsQuiet ==
  ASSUME jobs \in Table, NEW w \in Workers, NEW j \in Jobs, Beat(w, j)
  PROVE  UNCHANGED <<PhaseMap, FailureMap>>
<1>1. \A i \in Jobs : jobs'[i].status = jobs[i].status /\ jobs'[i].attempts = jobs[i].attempts
  BY LeaseExtendedEffect DEF Beat
<1> QED
  BY <1>1, QuietStep DEF Beat

LEMMA StopIsQuiet ==
  ASSUME jobs \in Table, NEW w \in Workers, StopReturns(w)
  PROVE  UNCHANGED <<PhaseMap, FailureMap>>
<1>1. PICK S : jobs' = LeasesReleased(S, w)
  BY DEF StopReturns
<1> QED
  BY <1>1, LeasesReleasedEffect, QuietStep DEF StopReturns

LEMMA ClaimStarts ==
  ASSUME TypeOK, LeaseInv, jobs \in Table,
         NEW w \in Workers, NEW s \in Slots, NEW j \in Jobs, Claim(w, s, j)
  PROVE  Lifecycle!Start(j)
<1>1. jobs[j].status \in {"pending", "failed"}
  BY DEF Claim, NextPending, Runnable, Claimable
<1>2. /\ slot'[w][s].job = j
      /\ \A v \in Workers, t \in Slots : v # w \/ t # s => slot'[v][t] = slot[v][t]
  BY DEF Claim, TypeOK
<1>3. jobs'[j].status = "active" /\ Executing(j)'
  BY <1>2, ClaimedEffect DEF Claim, Executing, Executes
<1>4. Others(j)
  <2>1. ASSUME NEW i \in Jobs \ {j} PROVE Executing(i)' <=> Executing(i)
    <3>1. \A v \in Workers, t \in Slots : Executes(v, t, i)' <=> Executes(v, t, i)
      BY <1>2, <2>1 DEF Executes, Claim, Free
    <3> QED
      BY <3>1 DEF Executing
  <2> QED
    BY <2>1, ClaimedEffect DEF Others, Claim
<1>5. Lifecycle!Move(j, "queued", "running")
  BY <1>1, <1>3, <1>4, MoveOne, OthersKeepPhase, PhaseValue, PhaseValueNext
<1>6. FailureMap' = FailureMap
  BY <1>4, ClaimedEffect, OthersKeepFailures DEF Claim
<1> QED
  BY <1>5, <1>6 DEF Lifecycle!Start, FailureMap

-----------------------------------------------------------------------------
(***************************************************************************)
(* The outcome of a run.  LeaseInv makes its guards succeed: the row is     *)
(* active, and has the attempts of the snapshot.                            *)
(***************************************************************************)
LEMMA SlotFreedEnds ==
  ASSUME TypeOK, LeaseInv, NEW w \in Workers, NEW s \in Slots, NEW j \in Jobs,
         Executes(w, s, j), SlotFreed(w, s)
  PROVE  /\ \A v \in Workers, t \in Slots, i \in Jobs : Executes(v, t, i)' => Executes(v, t, i)
         /\ ~Executing(j)'
         /\ \A i \in Jobs \ {j} : Executing(i)' <=> Executing(i)
<1>1. /\ slot'[w][s] = Free
      /\ \A v \in Workers, t \in Slots : v # w \/ t # s => slot'[v][t] = slot[v][t]
  BY DEF SlotFreed, TypeOK
<1>2. ASSUME NEW v \in Workers, NEW t \in Slots, NEW i \in Jobs
      PROVE  Executes(v, t, i)' <=> Executes(v, t, i) /\ ~(v = w /\ t = s)
  BY <1>1 DEF Executes, Free
<1>3. ~Executing(j)'
  BY <1>2, OneRunPerJob DEF Executing
<1>4. ASSUME NEW i \in Jobs \ {j} PROVE Executing(i)' <=> Executing(i)
  <2>1. ~Executes(w, s, i)
    BY <1>4 DEF Executes
  <2> QED
    BY <1>2, <1>4, <2>1 DEF Executing
<1> QED
  BY <1>2, <1>3, <1>4

LEMMA RunInProgress ==
  ASSUME LeaseInv, NEW w \in Workers, NEW s \in Slots, NEW j \in Jobs, Executes(w, s, j)
  PROVE  /\ jobs[j].status = "active" /\ Phase(j) = "running"
         /\ jobs[j].attempts = slot[w][s].attempts
<1>1. jobs[j].status = "active" /\ jobs[j].attempts = slot[w][s].attempts
  BY LeaseInvParts DEF Backed, OwnsLease
<1> QED
  BY <1>1, PhaseValue DEF Executing

\* A write of the outcome that finds the row active moves this job and no other.
LEMMA OutcomeWritten ==
  ASSUME TypeOK, LeaseInv, NEW w \in Workers, NEW s \in Slots, NEW j \in Jobs,
         Executes(w, s, j), SlotFreed(w, s),
         NEW expected, "active" \in expected, NEW row \in Row,
         jobs' = StatusUpdated(j, expected, row)
  PROVE  jobs'[j] = row /\ Others(j)
<1>1. jobs'[j] = row /\ \A i \in Jobs \ {j} : jobs'[i] = jobs[i]
  BY RunInProgress, StatusUpdatedEffect DEF TypeOK, Table
<1> QED
  BY <1>1, SlotFreedEnds DEF Others

LEMMA CompleteSucceeds ==
  ASSUME TypeOK, LeaseInv, NEW w \in Workers, NEW s \in Slots, NEW j \in Jobs,
         Executes(w, s, j), Complete(w, s)
  PROVE  Lifecycle!Succeed(j)
<1> DEFINE row == [jobs[j] EXCEPT !.status = "completed"]
<1>1. SlotFreed(w, s) /\ jobs' = StatusUpdated(j, {"active"}, row)
  BY DEF Complete, Executes
<1>2. row \in Row
  BY OutcomeRows DEF Executes
<1>3. jobs'[j] = row /\ Others(j)
  <2> HIDE DEF row
  <2> QED BY <1>1, <1>2, OutcomeWritten
<1>4. jobs'[j].status = "completed" /\ jobs'[j].attempts = jobs[j].attempts
  BY <1>3 DEF TypeOK, Row
<1>5. Lifecycle!Move(j, "running", "completed")
  BY <1>3, <1>4, RunInProgress, MoveOne, OthersKeepPhase, PhaseValueNext
<1>6. FailureMap' = FailureMap
  BY <1>3, <1>4, OthersKeepFailures
<1> QED
  BY <1>5, <1>6 DEF Lifecycle!Succeed, FailureMap

LEMMA RetryFails ==
  ASSUME TypeOK, LeaseInv, NEW w \in Workers, NEW s \in Slots, NEW j \in Jobs,
         Executes(w, s, j), Retry(w, s)
  PROVE  Lifecycle!Fail(j)
<1> DEFINE n == slot[w][s].attempts + 1
<1>1. SlotFreed(w, s) /\ n < MaxAttempts /\ n = jobs[j].attempts + 1
  BY RunInProgress DEF Retry
<1>2. PICK d \in BackoffDelays(n) :
        jobs' = StatusUpdated(j, {"active"},
                  [jobs[j] EXCEPT !.status = "failed", !.attempts = n, !.nextRunIn = d])
  BY DEF Retry, Executes
<1> DEFINE row == [jobs[j] EXCEPT !.status = "failed", !.attempts = n, !.nextRunIn = d]
<1>3. d \in 0 .. BackoffCap
  BY DEF BackoffDelays
<1>4. row \in Row
  BY <1>3, OutcomeRows DEF Executes
<1>5. jobs'[j] = row /\ Others(j)
  <2> HIDE DEF row
  <2> QED BY <1>1, <1>2, <1>4, OutcomeWritten DEF row
<1> HIDE DEF n
<1>6. jobs'[j].status = "failed" /\ jobs'[j].attempts = n
  BY <1>5 DEF TypeOK, Row
<1>7. Lifecycle!Move(j, "running", "queued")
  BY <1>5, <1>6, RunInProgress, MoveOne, OthersKeepPhase, PhaseValueNext
<1>8. FailureMap' = [FailureMap EXCEPT ![j] = @ + 1] /\ FailureMap[j] + 1 < MaxAttempts
  BY <1>1, <1>5, <1>6 DEF FailureMap, Others
<1> QED
  BY <1>7, <1>8 DEF Lifecycle!Fail, FailureMap

LEMMA ParkFails ==
  ASSUME TypeOK, LeaseInv, NEW w \in Workers, NEW s \in Slots, NEW j \in Jobs,
         Executes(w, s, j), Park(w, s)
  PROVE  Lifecycle!Fail(j)
<1> DEFINE n == slot[w][s].attempts + 1
           row == [jobs[j] EXCEPT !.status = "dead-letter", !.attempts = n]
<1>1. /\ SlotFreed(w, s) /\ n >= MaxAttempts /\ n = jobs[j].attempts + 1
      /\ jobs' = StatusUpdated(j, {"active", "failed", "pending"}, row)
  BY RunInProgress DEF Park, Executes
<1>2. row \in Row /\ n \in 0 .. MaxAttempts
  BY OutcomeRows DEF Executes
<1>3. jobs'[j] = row /\ Others(j)
  <2> HIDE DEF row
  <2> QED BY <1>1, <1>2, OutcomeWritten
<1> HIDE DEF n
<1>4. jobs'[j].status = "dead-letter" /\ jobs'[j].attempts = n
  BY <1>3 DEF TypeOK, Row
<1>5. n = MaxAttempts
  BY <1>1, <1>2
<1>6. Lifecycle!Move(j, "running", "parked")
  BY <1>3, <1>4, RunInProgress, MoveOne, OthersKeepPhase, PhaseValueNext
<1>7. FailureMap' = [FailureMap EXCEPT ![j] = @ + 1] /\ FailureMap[j] + 1 = MaxAttempts
  BY <1>1, <1>3, <1>4, <1>5 DEF FailureMap, Others
<1> QED
  BY <1>6, <1>7 DEF Lifecycle!Fail, FailureMap

-----------------------------------------------------------------------------
LEMMA RefinesStep ==
  ASSUME Punctual, TypeInv, LeaseInv, Fresh, [Next]_vars
  PROVE  Lifecycle!Next \/ UNCHANGED <<PhaseMap, FailureMap>>
<1>0. TypeOK /\ jobs \in Table
  BY DEF TypeInv, TypeOK, Table
<1>1. CASE Purge
  BY <1>0, <1>1, PurgePurges DEF Lifecycle!Next
<1>2. CASE Tick
  BY <1>0, <1>2, StepOfTime
<1>3. ASSUME NEW j \in Jobs, Enqueue(j) PROVE Lifecycle!Next
  BY <1>0, <1>3, EnqueueSubmits DEF Lifecycle!Next
<1>4. ASSUME NEW j \in Jobs, Replay(j) PROVE Lifecycle!Next
  BY <1>0, <1>4, ReplayReplays DEF Lifecycle!Next
<1>5. ASSUME NEW w \in Workers, Boot(w)
      PROVE  Lifecycle!Next \/ UNCHANGED <<PhaseMap, FailureMap>>
  BY <1>0, <1>5, BootResumes DEF Lifecycle!Next
<1>6. ASSUME NEW w \in Workers, Stop(w) \/ Exit(w) PROVE UNCHANGED <<PhaseMap, FailureMap>>
  BY <1>6, QuietStep DEF Stop, Exit
<1>7. ASSUME NEW w \in Workers, StopReturns(w) PROVE UNCHANGED <<PhaseMap, FailureMap>>
  BY <1>0, <1>7, StopIsQuiet
<1>8. ASSUME NEW w \in Workers, Crash(w) PROVE Lifecycle!Next
  BY <1>0, <1>8, CrashAbandons DEF Lifecycle!Next
<1>9. ASSUME NEW w \in Workers, NEW j \in Jobs, Beat(w, j) \/ BeatDropped(w, j)
      PROVE  UNCHANGED <<PhaseMap, FailureMap>>
  BY <1>0, <1>9, BeatIsQuiet, QuietStep DEF BeatDropped
<1>10. ASSUME NEW w \in Workers, NEW s \in Slots, Finish(w, s) PROVE Lifecycle!Next
  <2>1. PICK j \in Jobs : Executes(w, s, j)
    <3>1. slot[w][s].job # NoJob
      BY <1>10 DEF Finish, Complete, Retry, Park, FinishUnrecorded
    <3> QED
      BY <1>0, <3>1 DEF Executes, TypeOK, Run
  <2>2. CASE Complete(w, s)
    BY <1>0, <2>1, <2>2, CompleteSucceeds DEF Lifecycle!Next
  <2>3. CASE Retry(w, s) \/ Park(w, s)
    BY <1>0, <2>1, <2>3, RetryFails, ParkFails DEF Lifecycle!Next
  <2>4. CASE FinishUnrecorded(w, s)
    BY <1>0, <2>1, <2>4, SlotFreedEnds, RunsCutShort DEF FinishUnrecorded, Lifecycle!Next
  <2> QED
    BY <1>10, <2>2, <2>3, <2>4 DEF Finish
<1>11. ASSUME NEW w \in Workers, NEW s \in Slots, NEW j \in Jobs, Claim(w, s, j)
       PROVE  Lifecycle!Next
  BY <1>0, <1>11, ClaimStarts DEF Lifecycle!Next
<1>12. CASE UNCHANGED vars
  BY <1>12, QuietStep DEF vars
<1> QED
  BY <1>1, <1>2, <1>3, <1>4, <1>5, <1>6, <1>7, <1>8, <1>9, <1>10, <1>11, <1>12 DEF Next

\* No step makes a row unsubmitted, and only Submit touches one that is.
LEMMA UnsubmittedPhase ==
  ASSUME TypeOK, NEW j \in Jobs
  PROVE  jobs[j].status = "unsubmitted" <=> Phase(j) = "unsubmitted"
<1>1. jobs[j].status \in Statuses
  BY DEF TypeOK, Row
<1> QED
  BY <1>1, PhaseValue DEF Statuses

LEMMA UnsubmittedPhaseNext ==
  ASSUME TypeOK', NEW j \in Jobs
  PROVE  jobs'[j].status = "unsubmitted" <=> Phase(j)' = "unsubmitted"
<1>1. jobs'[j].status \in Statuses
  BY DEF TypeOK, Row
<1> QED
  BY <1>1, PhaseValueNext DEF Statuses

LEMMA FreshStep ==
  ASSUME TypeOK, TypeOK', Fresh, Lifecycle!Next \/ UNCHANGED <<PhaseMap, FailureMap>>
  PROVE  Fresh'
<1> DEFINE HeldBack == \A j \in Jobs : PhaseMap'[j] = "unsubmitted" =>
                     PhaseMap[j] = "unsubmitted" /\ FailureMap'[j] = FailureMap[j]
<1>1. HeldBack
  <2>1. CASE UNCHANGED <<PhaseMap, FailureMap>>
    BY <2>1
  <2>2. CASE Lifecycle!Abandon \/ Lifecycle!Resume \/ Lifecycle!Purge
    BY <2>2 DEF Lifecycle!Abandon, Lifecycle!Resume, Lifecycle!Purge, Lifecycle!MoveAll,
                PhaseMap, FailureMap
  <2>3. ASSUME NEW i \in Jobs, Lifecycle!Submit(i) \/ Lifecycle!Start(i) \/ Lifecycle!Succeed(i)
                                 \/ Lifecycle!Fail(i) \/ Lifecycle!Replay(i)
        PROVE  HeldBack
    BY <2>3 DEF Lifecycle!Submit, Lifecycle!Start, Lifecycle!Succeed, Lifecycle!Fail,
                Lifecycle!Replay, Lifecycle!Move, PhaseMap, FailureMap
  <2> QED
    BY <2>1, <2>2, <2>3 DEF Lifecycle!Next
<1>2. ASSUME NEW j \in Jobs, jobs'[j].status = "unsubmitted"
      PROVE  jobs[j].status = "unsubmitted" /\ jobs'[j].attempts = jobs[j].attempts
  BY <1>1, <1>2, UnsubmittedPhase, UnsubmittedPhaseNext DEF PhaseMap, FailureMap
<1> QED
  BY <1>2 DEF Fresh

LEMMA RefinesInit == Init => Fresh /\ Lifecycle!Init
<1> SUFFICES ASSUME Init PROVE Fresh /\ Lifecycle!Init
  OBVIOUS
<1>1. \A j \in Jobs : jobs[j].status = "unsubmitted" /\ jobs[j].attempts = 0
  BY DEF Init, StoreInit, Blank
<1> QED
  BY <1>1, PhaseValue DEF Fresh, Lifecycle!Init

\* JobWorker implements JobLifecycle: while heartbeats are punctual, the two
\* processes' claims, outcomes, crashes, recovery, replay and purge move every
\* job through one lifecycle, whatever the number of jobs, workers and slots.
THEOREM RefinesLifecycle ==
  ASSUME Punctual
  PROVE  Spec => ImplementsLifecycle
<1>1. TypeInv /\ LeaseInv /\ TypeInv' /\ Fresh /\ [Next]_vars => Fresh'
  BY RefinesStep, FreshStep DEF TypeInv
<1>2. TypeInv /\ LeaseInv /\ Fresh /\ [Next]_vars
        => [Lifecycle!Next]_<<[j \in Jobs |-> Phase(j)], [j \in Jobs |-> jobs[j].attempts]>>
  BY RefinesStep DEF PhaseMap, FailureMap
<1> QED
  BY <1>1, <1>2, RefinesInit, LeaseInvHolds, PTL DEF Spec, ImplementsLifecycle, Lifecycle!Spec

LEMMA ParkedRow ==
  ASSUME TypeOK, NEW j \in Jobs, Phase(j) = "parked"
  PROVE  jobs[j].status = "dead-letter"
<1>1. jobs[j].status \in Statuses
  BY DEF TypeOK, Row
<1>2. CASE jobs[j].status = "active"
  BY <1>2, PhaseValue
<1> QED
  BY <1>1, <1>2, PhaseValue DEF Statuses

LEMMA CountStep ==
  ASSUME TypeOK, Lifecycle!Next \/ UNCHANGED <<PhaseMap, FailureMap>>,
         NEW j \in Jobs, jobs'[j].attempts # jobs[j].attempts
  PROVE  \/ jobs'[j].attempts = jobs[j].attempts + 1
         \/ jobs[j].status = "dead-letter" /\ jobs'[j].attempts = 0
<1>1. FailureMap' # FailureMap
  BY DEF FailureMap
<1>2. PICK i \in Jobs : Lifecycle!Fail(i) \/ Lifecycle!Replay(i)
  BY <1>1 DEF FailureMap, Lifecycle!Next, Lifecycle!Abandon, Lifecycle!Resume, Lifecycle!Purge,
              Lifecycle!Submit, Lifecycle!Start, Lifecycle!Succeed
<1>3. CASE Lifecycle!Fail(i)
  BY <1>3 DEF Lifecycle!Fail
<1>4. CASE Lifecycle!Replay(i)
  <2>1. i = j /\ jobs'[j].attempts = 0
    BY <1>4 DEF Lifecycle!Replay
  <2>2. Phase(j) = "parked"
    BY <1>4, <2>1 DEF Lifecycle!Replay, Lifecycle!Move
  <2> QED
    BY <2>1, <2>2, ParkedRow
<1> QED
  BY <1>2, <1>3, <1>4

\* No worker writes back an older count of attempts: only a recorded failure adds
\* one and only a replay of a parked job resets it.
THEOREM FailuresCountedOnce ==
  ASSUME Punctual
  PROVE  Spec => AttemptsCountFailures
<1> DEFINE A == \A j \in Jobs : jobs'[j].attempts # jobs[j].attempts =>
                  \/ jobs'[j].attempts = jobs[j].attempts + 1
                  \/ jobs[j].status = "dead-letter" /\ jobs'[j].attempts = 0
<1>1. TypeInv /\ LeaseInv /\ Fresh /\ [Next]_vars => A
  BY RefinesStep, CountStep DEF TypeInv
<1>2. TypeInv /\ LeaseInv /\ TypeInv' /\ Fresh /\ [Next]_vars => Fresh'
  BY RefinesStep, FreshStep DEF TypeInv
<1>3. [A]_vars <=> A
  BY DEF vars
<1> HIDE DEF A
<1>4. Spec => [][A]_vars
  BY <1>1, <1>2, RefinesInit, LeaseInvHolds, PTL DEF Spec
<1> QED
  BY <1>4 DEF A, AttemptsCountFailures
=============================================================================
