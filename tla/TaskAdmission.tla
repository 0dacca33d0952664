--------------------------- MODULE TaskAdmission ---------------------------
(***************************************************************************)
(* POST /api/tasks before a worker sees the job: the idempotency           *)
(* middleware, the rate limit and validation, the two quotas of a wallet,  *)
(* the task row and its job (src/backend/src/api/routes/tasks.ts,          *)
(* services/idempotency.ts, services/quota/).                              *)
(*                                                                         *)
(* A process handles one request up to its response without a break; other *)
(* processes come between any two statements on the shared tables.  The    *)
(* response reaches the socket later, or never.  All requests are of one   *)
(* wallet.                                                                 *)
(***************************************************************************)
EXTENDS Naturals, FiniteSets

CONSTANTS Requests,
          KeyOf,            \* the Idempotency-Key of a request
          ProcessOf,        \* the backend process that a request reaches
          NoRequest,
          TaskLimit,        \* MAX_DAILY_TASKS_PER_WALLET
          DailyLimit,       \* DAILY_TASK_LIMIT_PER_WALLET
          MaxMishaps        \* bound on crashes, failing statements and lost responses

AdmissionKeys == {KeyOf[r] : r \in Requests}
Processes     == {ProcessOf[r] : r \in Requests}

ASSUME AdmissionAssumption ==
  /\ IsFiniteSet(Requests) /\ NoRequest \notin Requests
  /\ Requests \cap {"none", "accepted", "conflict", "error", "crashed"} = {}
  /\ TaskLimit \in Nat /\ DailyLimit \in Nat /\ MaxMishaps \in Nat

VARIABLES entry,     \* entry[k]: the row of idempotency_keys
          stage,     \* stage[r]: what request r does next
          attempt,   \* attempt[r]: the turn of the loop in reserve
          answer,    \* answer[r]: what r was answered
          spent,     \* requests whose quota event lies in the window
          tasks,     \* requests whose task row lies in the window
          outlived,  \* requests whose entry has expired
          bare,      \* requests that run without a reservation
          mishaps

admissionVars == <<entry, stage, attempt, answer, spent, tasks, outlived, bare, mishaps>>

NoEntry == [status |-> "none", id |-> NoRequest, task |-> NoRequest]

Pending(r)   == [status |-> "pending", id |-> r, task |-> NoRequest]
Answers == {"none", "accepted", "conflict", "error", "crashed"} \cup Requests

AdmissionTypeOK ==
  /\ entry \in [AdmissionKeys -> [status : {"none", "pending", "completed"},
                                  id : Requests \cup {NoRequest}, task : Requests \cup {NoRequest}]]
  /\ stage \in [Requests -> {"new", "reserve", "look", "reclaim", "gate", "count", "consume", "daily",
                             "create", "enqueue", "respond", "done"}]
  /\ attempt \in [Requests -> 0 .. 3]
  /\ answer \in [Requests -> Answers]
  /\ spent \subseteq Requests /\ tasks \subseteq Requests /\ outlived \subseteq Requests
  /\ bare \subseteq Requests
  /\ mishaps \in 0 .. MaxMishaps

AdmissionInit ==
  /\ entry = [k \in AdmissionKeys |-> NoEntry]
  /\ stage = [r \in Requests |-> "new"]
  /\ attempt = [r \in Requests |-> 0]
  /\ answer = [r \in Requests |-> "none"]
  /\ spent = {} /\ tasks = {} /\ outlived = {} /\ bare = {}
  /\ mishaps = 0

Mishap == mishaps < MaxMishaps /\ mishaps' = mishaps + 1

EntryOf(r) == entry[KeyOf[r]]
Expired(e) == e.id \in outlived

Goes(r, from, to) == stage[r] = from /\ stage' = [stage EXCEPT ![r] = to]

Answered(r, from, a) ==
  /\ Goes(r, from, "respond")
  /\ answer' = [answer EXCEPT ![r] = a]

Quotas == UNCHANGED <<spent, tasks, bare>>

-----------------------------------------------------------------------------
(***************************************************************************)
(* reserve: up to three turns of insert, look and reclaim.                 *)
(***************************************************************************)
Arrive(r) ==
  /\ \A q \in Requests : ProcessOf[q] = ProcessOf[r] => stage[q] \in {"new", "respond", "done"}
  /\ Goes(r, "new", "reserve")
  /\ UNCHANGED <<entry, attempt, answer, outlived, mishaps>> /\ Quotas

\* The store is unavailable: the handler runs without a reservation.
ReserveFails(r) ==
  /\ Goes(r, "reserve", "gate") /\ Mishap
  /\ bare' = bare \cup {r}
  /\ UNCHANGED <<entry, attempt, answer, spent, tasks, outlived>>

\* INSERT OR IGNORE
ReserveInsert(r) ==
  /\ IF EntryOf(r) = NoEntry
     THEN Goes(r, "reserve", "gate") /\ entry' = [entry EXCEPT ![KeyOf[r]] = Pending(r)]
     ELSE Goes(r, "reserve", "look") /\ UNCHANGED entry
  /\ attempt' = [attempt EXCEPT ![r] = @ + 1]
  /\ UNCHANGED <<answer, outlived, mishaps>> /\ Quotas

\* The loop goes round, or is over with the request refused.
NextAttempt(r, from) ==
  IF attempt[r] < 3 THEN Goes(r, from, "reserve") /\ UNCHANGED answer
                    ELSE Answered(r, from, "conflict")

ReserveLook(r) ==
  /\ LET e == EntryOf(r) IN
     \/ e = NoEntry /\ NextAttempt(r, "look")
     \/ e # NoEntry /\ Expired(e) /\ Goes(r, "look", "reclaim") /\ UNCHANGED answer
     \/ e.status = "completed" /\ ~Expired(e) /\ Answered(r, "look", e.task)
     \/ e.status = "pending" /\ ~Expired(e) /\ Answered(r, "look", "conflict")
  /\ UNCHANGED <<entry, attempt, outlived, mishaps>> /\ Quotas

\* DELETE ... WHERE expires_at <= now
ReserveReclaim(r) ==
  /\ entry' = IF Expired(EntryOf(r)) THEN [entry EXCEPT ![KeyOf[r]] = NoEntry] ELSE entry
  /\ NextAttempt(r, "reclaim")
  /\ UNCHANGED <<attempt, outlived, mishaps>> /\ Quotas

-----------------------------------------------------------------------------
Handler == UNCHANGED <<entry, attempt, outlived>>

\* Rate limit, validation and prompt length: passed or refused.
Gate(r) ==
  /\ \/ Goes(r, "gate", "count") /\ UNCHANGED answer
     \/ Answered(r, "gate", "error")
  /\ Handler /\ Quotas /\ UNCHANGED mishaps

\* checkWalletQuota; the event is inserted by the statement after it.
CountEvents(r) ==
  /\ IF TaskLimit = 0 \/ Cardinality(spent) < TaskLimit
     THEN Goes(r, "count", "consume") /\ UNCHANGED answer
     ELSE Answered(r, "count", "error")
  /\ Handler /\ Quotas /\ UNCHANGED mishaps

Consume(r) ==
  /\ Goes(r, "consume", "daily")
  /\ spent' = spent \cup {r}
  /\ Handler /\ UNCHANGED <<answer, tasks, bare, mishaps>>

\* assertDailyTaskQuota counts task rows.
DailyQuota(r) ==
  /\ IF DailyLimit = 0 \/ Cardinality(tasks) < DailyLimit
     THEN Goes(r, "daily", "create") /\ UNCHANGED answer
     ELSE Answered(r, "daily", "error")
  /\ Handler /\ Quotas /\ UNCHANGED mishaps

CreateTask(r) ==
  /\ Goes(r, "create", "enqueue")
  /\ tasks' = tasks \cup {r}
  /\ Handler /\ UNCHANGED <<answer, spent, bare, mishaps>>

\* The insert of the job may throw, with the task row already there.
Enqueue(r) ==
  /\ \/ Answered(r, "enqueue", "accepted") /\ UNCHANGED mishaps
     \/ Answered(r, "enqueue", "error") /\ Mishap
  /\ Handler /\ Quotas

-----------------------------------------------------------------------------

\* Mutant: the response is stored in whatever row has the key by now.
MutantPromoted(r) ==
  IF EntryOf(r) = NoEntry THEN entry
  ELSE [entry EXCEPT ![KeyOf[r]].status = "completed", ![KeyOf[r]].task = r]

\* complete: only the reservation's own pending row, with a lifetime of its own.
Promoted(r) ==
  IF EntryOf(r) # Pending(r) THEN entry
  ELSE [entry EXCEPT ![KeyOf[r]].status = "completed", ![KeyOf[r]].task = r]

Dropped(r) == IF EntryOf(r) # Pending(r) THEN entry ELSE [entry EXCEPT ![KeyOf[r]] = NoEntry]

Reserved(r) == answer[r] \in {"accepted", "error"}

\* The response's 'finish' event; the hook hangs on the responses of reserved requests.
Finish(r) ==
  /\ Goes(r, "respond", "done")
  /\ entry' = IF ~Reserved(r) THEN entry
              ELSE IF answer[r] = "accepted" THEN Promoted(r) ELSE Dropped(r)
  /\ outlived' = IF answer[r] = "accepted" /\ EntryOf(r) = Pending(r) THEN outlived \ {r} ELSE outlived
  /\ UNCHANGED <<attempt, answer, mishaps>> /\ Quotas

\* The connection is gone before the response is out, or the statement fails.
FinishLost(r) ==
  /\ Goes(r, "respond", "done") /\ Mishap
  /\ UNCHANGED <<entry, attempt, answer, outlived>> /\ Quotas

ProcessCrash(p) ==
  LET lost == {r \in Requests : ProcessOf[r] = p /\ stage[r] \notin {"new", "done"}} IN
  /\ lost # {} /\ Mishap
  /\ stage' = [r \in Requests |-> IF r \in lost THEN "done" ELSE stage[r]]
  /\ answer' = [r \in Requests |-> IF r \in lost /\ answer[r] = "none" THEN "crashed" ELSE answer[r]]
  /\ UNCHANGED <<entry, attempt, outlived>> /\ Quotas

\* expires_at of a row is over.
Expire(k) ==
  /\ entry[k] # NoEntry /\ ~Expired(entry[k])
  /\ outlived' = outlived \cup {entry[k].id}
  /\ UNCHANGED <<entry, stage, attempt, answer, mishaps>> /\ Quotas

Cleanup ==
  /\ \E k \in AdmissionKeys : Expired(entry[k])
  /\ entry' = [k \in AdmissionKeys |-> IF Expired(entry[k]) THEN NoEntry ELSE entry[k]]
  /\ UNCHANGED <<stage, attempt, answer, outlived, mishaps>> /\ Quotas

\* The windows of the quotas move on.
LeaveWindow(r) ==
  /\ r \in spent /\ stage[r] = "done"
  /\ spent' = spent \ {r} /\ tasks' = tasks \ {r}
  /\ UNCHANGED <<entry, stage, attempt, answer, outlived, bare, mishaps>>

AdmissionNext ==
  \/ \E r \in Requests :
       \/ Arrive(r) \/ ReserveFails(r) \/ ReserveInsert(r) \/ ReserveLook(r) \/ ReserveReclaim(r)
       \/ Gate(r) \/ CountEvents(r) \/ Consume(r) \/ DailyQuota(r) \/ CreateTask(r) \/ Enqueue(r)
       \/ Finish(r) \/ FinishLost(r) \/ LeaveWindow(r)
  \/ \E p \in Processes : ProcessCrash(p)
  \/ \E k \in AdmissionKeys : Expire(k)
  \/ Cleanup

AdmissionSpec == AdmissionInit /\ [][AdmissionNext]_admissionVars

-----------------------------------------------------------------------------
\* Of the requests with one key, a second is accepted only after the reservation or
\* the stored response of the first has expired; concurrent duplicates, lost
\* responses and crashes do not make a second task.
AcceptedOnce ==
  \A r, q \in Requests :
    r # q /\ KeyOf[r] = KeyOf[q] /\ answer[r] = "accepted" /\ answer[q] = "accepted" =>
      {r, q} \cap (outlived \cup bare) # {}

\* A stored response is that of the request that holds the key, also when a handler
\* finishes after its reservation has been taken over.
StoredIsOwn == \A k \in AdmissionKeys : entry[k].status = "completed" => entry[k].task = entry[k].id

\* The check and the insert of a quota are two statements: a wallet exceeds its limit by
\* no more than one request for every further process.
QuotaOvershoot ==
  LET slack == Cardinality(Processes) - 1
      past(S) == Cardinality({r \in Requests : stage[r] \in S}) IN
  /\ TaskLimit > 0 => Cardinality(spent) + past({"consume"}) <= TaskLimit + slack
  /\ DailyLimit > 0 => Cardinality(tasks) + past({"create"}) <= DailyLimit + slack

\* One task for each key and none beyond what racing checks let through, in every order
\* of arrivals, expiries, lost responses and crashes.
AdmissionInv == AdmissionTypeOK /\ AcceptedOnce /\ StoredIsOwn /\ QuotaOvershoot
=============================================================================
