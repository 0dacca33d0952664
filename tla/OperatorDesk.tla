---------------------------- MODULE OperatorDesk ----------------------------
(***************************************************************************)
(* What operators change while the backend runs: runtime feature flags     *)
(* (src/backend/src/services/featureFlags.ts, api/routes/flags.ts), request*)
(* limits (api/middleware/rateLimit.ts, readOnly.ts), parked jobs          *)
(* (api/routes/admin.ts, queue/dlq.ts, db/cliOps.ts) and the restoring of  *)
(* snapshots (db/cliOps.ts, services/backup/encryption.ts).                *)
(*                                                                         *)
(* Servers share the tables, each with flags and a read-only switch of its *)
(* own in memory.  The command line is a process beside them, which asks   *)
(* before it destroys anything: what it looked at may change meanwhile.    *)
(***************************************************************************)
EXTENDS Integers, Sequences, FiniteSets, SequencesExt, FiniteSetsExt

CONSTANTS Servers, Flags, FlagWallets,
          KnownFlags, FlagDefault,   \* KNOWN_FLAGS; FlagDefault[f]: environment or DEFAULTS
          Percents, Bucket,          \* rollouts; Bucket[f][w]: rolloutBucket
          Ips, MaxRequests, Window, MaxEntries,
          MaxFailures, FailWindow, FailTtl,
          DeskJobs, Ages,            \* parked jobs; days that a purge may ask for
          Snapshots,                 \* files in the backup directory
          MaxChanges,                \* bound on changes to parked jobs, on admissions and on failures
          DeskEnd                    \* bound on the clock

ASSUME DeskAssumption ==
  /\ KnownFlags \subseteq Flags /\ Percents \subseteq 0 .. 100
  /\ \A f \in Flags \ KnownFlags : ~FlagDefault[f]
  /\ \A f \in Flags : FlagDefault[f] \in BOOLEAN /\ \A w \in FlagWallets : Bucket[f][w] \in 0 .. 99
  /\ {MaxRequests, Window, MaxEntries, MaxFailures, FailWindow, FailTtl} \subseteq Nat \ {0}
  /\ IsFiniteSet(DeskJobs) /\ Ages \subseteq Nat /\ {MaxChanges, DeskEnd} \subseteq Nat

VARIABLES flagTable,  \* rows of feature_flags
          overrides,  \* overrides[s]: runtimeOverrides of server s
          author,     \* history: who changed the flag last
          readOnly,   \* readOnly[s]: the switch of server s
          refused,    \* history: what the last mutating request was told
          windows,    \* windows[i]: which of its admissions the limiter holds of an address
          order,      \* addresses by use, the least recent first
          admitted,   \* history: admissions of an address
          evicted,    \* history: addresses the limiter forgot
          bucket,     \* the token bucket, in tokens times Window
          drawn,      \* history: admissions of the bucket
          failures,   \* failures[i]: which failed ownership proofs are held, and since when
          failed,     \* history of them
          verdict,    \* history: the guard's last answer
          parked,     \* parked[j]: the job, with the time it was parked
          trail,      \* rows that name an operation on parked jobs
          dequeued,   \* history: jobs that were replayed or purged
          asking,     \* the purge that waits for an answer
          shelf,      \* shelf[f]: what the file of a snapshot holds
          target,     \* what is at the place of restore
          restore,    \* the restore that waits for an answer
          deskTime

flagVars    == <<flagTable, overrides, author>>
gateVars    == <<readOnly, refused>>
windowVars  == <<windows, order, admitted, evicted>>
bucketVars  == <<bucket, drawn>>
failVars    == <<failures, failed, verdict>>
jobVars     == <<parked, trail, dequeued, asking>>
restoreVars == <<shelf, target, restore>>
deskVars    == <<flagVars, gateVars, windowVars, bucketVars, failVars, jobVars, restoreVars, deskTime>>

NoTime   == -1
NoPatch  == {}
NoBucket == [level |-> 0, at |-> NoTime]
NoPurge  == [age |-> NoTime]
AtEase   == [file |-> "none", sealed |-> FALSE, force |-> FALSE]
Kinds    == {"sealed", "torn", "stub", "raw", "gone"}
Record   == [enabled : BOOLEAN, percent : Percents \cup {100}, wallets : SUBSET FlagWallets]

DeskTypeOK ==
  /\ DOMAIN flagTable \subseteq Flags /\ \A f \in DOMAIN flagTable : flagTable[f] \in Record
  /\ \A s \in Servers : DOMAIN overrides[s] \subseteq Flags
  /\ \A i \in Ips : Cardinality(windows[i]) <= MaxRequests
  /\ bucket.level \in 0 .. MaxRequests * Window /\ Len(order) <= MaxEntries
  /\ parked \in [DeskJobs -> NoTime .. DeskEnd] /\ shelf \in [Snapshots -> Kinds]
  /\ deskTime \in 0 .. DeskEnd

DeskInit ==
  /\ flagTable = <<>> /\ overrides = [s \in Servers |-> <<>>] /\ author = <<>>
  /\ readOnly = [s \in Servers |-> FALSE] /\ refused = "nothing"
  /\ windows = [i \in Ips |-> {}] /\ order = <<>> /\ admitted = [i \in Ips |-> <<>>] /\ evicted = {}
  /\ bucket = NoBucket /\ drawn = <<>>
  /\ failures = [i \in Ips |-> [held |-> {}, set |-> NoTime]] /\ failed = [i \in Ips |-> <<>>] /\ verdict = "none"
  /\ parked = [j \in DeskJobs |-> 0] /\ trail = <<>> /\ dequeued = 0 /\ asking = NoPurge
  /\ shelf \in [Snapshots -> Kinds \ {"gone"}] /\ target = "nothing" /\ restore = AtEase /\ deskTime = 0

-----------------------------------------------------------------------------
(***************************************************************************)
(* Feature flags.                                                          *)
(***************************************************************************)
\* evaluateRecord
Evaluate(rec, f, who) ==
  \/ who \cap rec.wallets # {}
  \/ /\ rec.enabled
     /\ \/ rec.percent >= 100
        \/ \E w \in who : Bucket[f][w] < rec.percent

\* isEnabled: `who` is the wallet of the request, or none.
IsEnabled(s, f, who) ==
  IF f \in DOMAIN overrides[s] THEN Evaluate(overrides[s][f], f, who) ELSE FlagDefault[f]

\* An omitted field keeps the value that this server knows.
Merged(s, f, patch) ==
  LET was == IF f \in DOMAIN overrides[s] THEN overrides[s][f]
             ELSE [enabled |-> TRUE, percent |-> 100, wallets |-> {}] IN
  [enabled |-> patch.enabled,
   percent |-> IF patch.percent = NoPatch THEN was.percent ELSE Max(patch.percent),
   wallets |-> IF patch.wallets = NoPatch THEN was.wallets ELSE UNION patch.wallets]

With(fn, f, rec) == [g \in DOMAIN fn \cup {f} |-> IF g = f THEN rec ELSE fn[g]]
Without(fn, f)   == [g \in DOMAIN fn \ {f} |-> fn[g]]

\* upsertFlag writes the table first.
InMemory(ok) == ok

\* PUT /:flag; the write to the table may fail.
PutFlag(s, f, patch, ok) ==
  LET rec == Merged(s, f, patch) IN
  /\ flagTable' = IF ok THEN With(flagTable, f, rec) ELSE flagTable
  /\ overrides' = IF InMemory(ok) THEN [overrides EXCEPT ![s] = With(@, f, rec)] ELSE overrides
  /\ author' = IF InMemory(ok) THEN With(author, f, s) ELSE author
  /\ UNCHANGED <<gateVars, windowVars, bucketVars, failVars, jobVars, restoreVars, deskTime>>

\* DELETE /:flag; a server without the record leaves the table's row.
ClearFlag(s, f) ==
  /\ f \in DOMAIN overrides[s]
  /\ flagTable' = Without(flagTable, f) /\ overrides' = [overrides EXCEPT ![s] = Without(@, f)]
  /\ author' = With(author, f, s)
  /\ UNCHANGED <<gateVars, windowVars, bucketVars, failVars, jobVars, restoreVars, deskTime>>

\* initFeatureFlagPersistence, and the switch as configured.
RestartServer(s) ==
  /\ overrides' = [overrides EXCEPT ![s] = flagTable]
  /\ readOnly' = [readOnly EXCEPT ![s] = FALSE]
  /\ UNCHANGED <<flagTable, author, refused, windowVars, bucketVars, failVars, jobVars, restoreVars, deskTime>>

-----------------------------------------------------------------------------
(***************************************************************************)
(* The read-only switch.                                                   *)
(***************************************************************************)
\* PUT /read-only
SetReadOnly(s, on) ==
  /\ readOnly[s] # on /\ readOnly' = [readOnly EXCEPT ![s] = on]
  /\ UNCHANGED <<flagVars, refused, windowVars, bucketVars, failVars, jobVars, restoreVars, deskTime>>

\* readOnlyMiddleware, for a mutating request; the operators' paths are exempt.
Mutate(s, exempt) ==
  /\ refused' = IF readOnly[s] /\ ~exempt THEN "read-only" ELSE "nothing"
  /\ UNCHANGED <<flagVars, readOnly, windowVars, bucketVars, failVars, jobVars, restoreVars, deskTime>>

-----------------------------------------------------------------------------
(***************************************************************************)
(* Limits.                                                                 *)
(***************************************************************************)
\* Of what is held of some times, what is not older than a window.
Within(held, times, width) == {n \in held : times[n] > deskTime - width}

\* An address is used: it is now the most recent.
Used(i) ==
  IF \E k \in DOMAIN order : order[k] = i
  THEN Append(RemoveAt(order, CHOOSE k \in DOMAIN order : order[k] = i), i)
  ELSE Append(order, i)

\* createRateLimiter: a full window refuses and counts nothing.
Admit(i) ==
  LET win == Within(windows[i], admitted[i], Window)
      used == Used(i)
      gone == IF Len(used) > MaxEntries THEN Head(used) ELSE i IN
  /\ Cardinality(win) < MaxRequests /\ Len(admitted[i]) < MaxChanges
  /\ order' = IF gone # i THEN Tail(used) ELSE used
  /\ windows' = [windows EXCEPT ![gone] = {}, ![i] = win \cup {Len(admitted[i]) + 1}]
  /\ evicted' = IF gone # i THEN evicted \cup {gone} ELSE evicted
  /\ admitted' = [admitted EXCEPT ![i] = Append(@, deskTime)]
  /\ UNCHANGED <<flagVars, gateVars, bucketVars, failVars, jobVars, restoreVars, deskTime>>

TooMany(i) ==
  LET win == Within(windows[i], admitted[i], Window) IN
  /\ Cardinality(win) >= MaxRequests
  /\ order' = Used(i) /\ windows' = [windows EXCEPT ![i] = win]
  /\ UNCHANGED <<admitted, evicted, flagVars, gateVars, bucketVars, failVars, jobVars, restoreVars, deskTime>>

\* The script's refill; a key untouched for a window has expired.
Refilled ==
  LET full == MaxRequests * Window
      level == bucket.level + (deskTime - bucket.at) * MaxRequests IN
  IF bucket.at = NoTime \/ deskTime - bucket.at >= Window THEN full
  ELSE IF level > full THEN full ELSE level

\* RedisRateLimiter.consume; without Redis it refuses.
DrawToken ==
  /\ Len(drawn) < MaxChanges
  /\ bucket' = [level |-> IF Refilled >= Window THEN Refilled - Window ELSE Refilled, at |-> deskTime]
  /\ drawn' = IF Refilled >= Window THEN Append(drawn, deskTime) ELSE drawn
  /\ UNCHANGED <<flagVars, gateVars, windowVars, failVars, jobVars, restoreVars, deskTime>>

\* failureWindows forgets an address that was not set for its ttl.
Failures(i) == IF deskTime - failures[i].set >= FailTtl THEN {} ELSE failures[i].held

\* recordAuthFailure
RecordFailure(i) ==
  /\ Len(failed[i]) < MaxChanges
  /\ failures' = [failures EXCEPT ![i] = [held |-> Failures(i) \cup {Len(failed[i]) + 1}, set |-> deskTime]]
  /\ failed' = [failed EXCEPT ![i] = Append(@, deskTime)]
  /\ verdict' = "none"
  /\ UNCHANGED <<flagVars, gateVars, windowVars, bucketVars, jobVars, restoreVars, deskTime>>

\* agentAuthFailureGuard, for a request without a signature.
Guard(i) ==
  LET recent == Within(Failures(i), failed[i], FailWindow)
      due == Cardinality(Within(DOMAIN failed[i], failed[i], FailWindow)) >= MaxFailures IN
  /\ failures' = [failures EXCEPT ![i] = [held |-> recent, set |-> deskTime]]
  /\ verdict' = IF (Cardinality(recent) >= MaxFailures) <=> due THEN "right" ELSE "wrong"
  /\ UNCHANGED <<failed, flagVars, gateVars, windowVars, bucketVars, jobVars, restoreVars, deskTime>>

-----------------------------------------------------------------------------
(***************************************************************************)
(* Parked jobs.                                                            *)
(***************************************************************************)
\* The rows that an operation leaves by the way it came: the queue router's /retry has
\* none, and the admin router's middleware adds its own.
Rows(op, via, n) ==
  LET own == [op |-> op, by |-> "handler", n |-> n]
      mid == [op |-> op, by |-> "middleware", n |-> 0]
      silent == op = "retry" \/ (op = "replay" /\ n = 0 /\ via # "cli")
      handled == IF silent THEN trail ELSE Append(trail, own) IN
  IF via = "admin" THEN Append(handled, mid) ELSE handled

Busy == Len(trail) + dequeued < MaxChanges

\* The worker parks a job that was replayed.
Park(j) ==
  /\ parked[j] = NoTime /\ parked' = [parked EXCEPT ![j] = deskTime]
  /\ UNCHANGED <<trail, dequeued, asking, flagVars, gateVars, windowVars, bucketVars, failVars, restoreVars, deskTime>>

\* POST /dlq/:jobId/replay, POST /retry/:id and the command line's replay.
Replay(j, op, via) ==
  LET n == IF parked[j] # NoTime THEN 1 ELSE 0 IN
  /\ Busy /\ parked' = [parked EXCEPT ![j] = NoTime]
  /\ dequeued' = dequeued + (IF op = "retry" THEN 0 ELSE n)
  /\ trail' = Rows(op, via, n)
  /\ UNCHANGED <<asking, flagVars, gateVars, windowVars, bucketVars, failVars, restoreVars, deskTime>>

RetryParked(j)  == \E via \in {"queue", "admin"} : Replay(j, "retry", via)
ReplayParked(j) == \E via \in {"admin", "queue", "cli"} : Replay(j, "replay", via)

Aged(age) == {j \in DeskJobs : parked[j] # NoTime /\ parked[j] < deskTime - age + 1}

\* Mutant: the rows tell of the request, not of what went.
MutantPurgedJobs(age, gone) == Cardinality(DeskJobs)
PurgedJobs(age, gone) == Cardinality(gone)

\* What DELETE /dlq and a confirmed purge have in common.
PurgeAged(age, via) ==
  /\ parked' = [j \in DeskJobs |-> IF j \in Aged(age) THEN NoTime ELSE parked[j]]
  /\ dequeued' = dequeued + Cardinality(Aged(age))
  /\ trail' = Rows("purge", via, PurgedJobs(age, Aged(age)))
  /\ UNCHANGED <<flagVars, gateVars, windowVars, bucketVars, failVars, restoreVars, deskTime>>

PurgeNow(age, via) == Busy /\ PurgeAged(age, via) /\ UNCHANGED asking

\* The command line asks, and takes its cutoff when it is answered.
AskPurge(age) ==
  /\ Busy /\ asking = NoPurge /\ asking' = [age |-> age]
  /\ UNCHANGED <<parked, trail, dequeued, flagVars, gateVars, windowVars, bucketVars, failVars, restoreVars, deskTime>>

AnswerPurge(yes) ==
  /\ asking # NoPurge /\ asking' = NoPurge
  /\ IF yes THEN PurgeAged(asking.age, "cli")
     ELSE UNCHANGED <<parked, trail, dequeued, flagVars, gateVars, windowVars, bucketVars, failVars, restoreVars, deskTime>>

-----------------------------------------------------------------------------
(***************************************************************************)
(* Restoring.                                                              *)
(***************************************************************************)
\* isEncryptedBackup looks at the first bytes only.
Encrypted(f) == shelf[f] \in {"sealed", "torn"}

\* verifyBackupBuffer and decryptBuffer
Decrypts(f) == shelf[f] = "sealed"

\* restoreBackup up to its question.  A dry run ends here and writes nothing.
AskRestore(f, force) ==
  /\ restore = AtEase /\ shelf[f] # "gone"
  /\ target = "nothing" \/ force
  /\ Encrypted(f) => Decrypts(f)
  /\ restore' = [file |-> f, sealed |-> Encrypted(f), force |-> force]
  /\ UNCHANGED <<shelf, target, flagVars, gateVars, windowVars, bucketVars, failVars, jobVars, deskTime>>

\* The container was read before the question, a plain file is copied after it.
Restored ==
  CASE restore.sealed -> "contents"
    [] ~restore.sealed /\ shelf[restore.file] = "gone" -> target
    [] OTHER -> IF shelf[restore.file] = "raw" THEN "contents" ELSE "debris"

AnswerRestore(yes) ==
  /\ restore # AtEase /\ restore' = AtEase
  /\ target' = IF yes THEN Restored ELSE target
  /\ UNCHANGED <<shelf, flagVars, gateVars, windowVars, bucketVars, failVars, jobVars, deskTime>>

\* Retention takes the file; a server opens a database at the target.
FileGoes(f) ==
  /\ shelf[f] # "gone" /\ shelf' = [shelf EXCEPT ![f] = "gone"]
  /\ UNCHANGED <<target, restore, flagVars, gateVars, windowVars, bucketVars, failVars, jobVars, deskTime>>
ServerOpens ==
  /\ target = "nothing" /\ target' = "live"
  /\ UNCHANGED <<shelf, restore, flagVars, gateVars, windowVars, bucketVars, failVars, jobVars, deskTime>>

\* verifyBackup: what is not a container must begin as a database does.
VerifiesOK(f) == IF Encrypted(f) THEN Decrypts(f) ELSE shelf[f] = "raw"

-----------------------------------------------------------------------------
DeskTick ==
  /\ deskTime < DeskEnd /\ deskTime' = deskTime + 1
  /\ verdict' = "none"
  /\ UNCHANGED <<flagVars, gateVars, windowVars, bucketVars, failures, failed, jobVars, restoreVars>>

Patches == [enabled : BOOLEAN, percent : {NoPatch} \cup {{p} : p \in Percents},
            wallets : {NoPatch} \cup {{W} : W \in SUBSET FlagWallets}]

FlagStep ==
  \/ \E s \in Servers, f \in Flags : ClearFlag(s, f) \/ \E patch \in Patches, ok \in BOOLEAN : PutFlag(s, f, patch, ok)
  \/ \E s \in Servers : RestartServer(s)
SwitchStep == \E s \in Servers, on \in BOOLEAN : SetReadOnly(s, on) \/ Mutate(s, on)
LimitStep == (\E i \in Ips : Admit(i) \/ TooMany(i)) \/ DeskTick
BucketStep == DrawToken \/ DeskTick
GuardStep == (\E i \in Ips : RecordFailure(i) \/ Guard(i)) \/ DeskTick
JobStep ==
  \/ \E j \in DeskJobs : Park(j) \/ RetryParked(j) \/ ReplayParked(j)
  \/ \E age \in Ages : AskPurge(age) \/ PurgeNow(age, "admin") \/ PurgeNow(age, "queue")
  \/ \E yes \in BOOLEAN : AnswerPurge(yes)
  \/ DeskTick
RestoringStep ==
  \/ \E f \in Snapshots : FileGoes(f) \/ \E force \in BOOLEAN : AskRestore(f, force)
  \/ \E yes \in BOOLEAN : AnswerRestore(yes)
  \/ ServerOpens
DeskNext == FlagStep \/ SwitchStep \/ LimitStep \/ BucketStep \/ GuardStep \/ JobStep \/ RestoringStep
DeskSpec == DeskInit /\ [][DeskNext]_deskVars

-----------------------------------------------------------------------------
\* An answer to an operator outlives the server that gave it: what the last
\* author of a flag holds of it, after failed writes and restarts of any
\* server, is what the table holds (featureFlags.ts: upsertFlag).
FlagsOutliveRestarts ==
  \A f \in DOMAIN author :
    LET s == author[f] IN
    /\ f \in DOMAIN flagTable <=> f \in DOMAIN overrides[s]
    /\ f \in DOMAIN flagTable => flagTable[f] = overrides[s][f]
    /\ f \notin DOMAIN flagTable => (IsEnabled(s, f, {}) <=> FlagDefault[f])

\* Turning a rollout up never takes the flag from a wallet, whatever its
\* bucket, and an allow-listed wallet has it at any rollout.
RolloutsGrow ==
  \A f \in DOMAIN flagTable, who \in {{}} \cup {{w} : w \in FlagWallets}, p \in Percents :
    /\ Evaluate(flagTable[f], f, who) /\ p >= flagTable[f].percent
         => Evaluate([flagTable[f] EXCEPT !.percent = p], f, who)
    /\ who \cap flagTable[f].wallets # {} => Evaluate([flagTable[f] EXCEPT !.percent = p], f, who)

CountIn(times, from, to) == Cardinality({i \in 1 .. Len(times) : from <= times[i] /\ times[i] <= to})

\* An address that the limiter has not forgotten was never admitted more often
\* than its limit within any window (rateLimit.ts: createRateLimiter).
WindowsHold ==
  \A i \in Ips \ evicted, t \in 0 .. DeskEnd : CountIn(admitted[i], t, t + Window - 1) <= MaxRequests

\* Over any span, the bucket admits what it held and what flowed in meanwhile.
BucketHolds ==
  \A i, j \in 1 .. Len(drawn) :
    i <= j => (j - i + 1) * Window <= MaxRequests * Window + (drawn[j] - drawn[i]) * MaxRequests

\* The guard refuses just when the failures of its window are too many.
GuardIsRight == verdict # "wrong"

\* The trail tells how many jobs left the queue by a purge or a replay, and the
\* count of a purge is of what went, though jobs were parked since it was asked.
TrailCounts == SumFunctionOnSet([k \in DOMAIN trail |-> trail[k].n], DOMAIN trail) = dequeued

\* A restore writes what a container proved to hold, never one that does not
\* decrypt, and what verification passes is restored as the database it was,
\* even when retention takes the container while the operator is asked.
RestoredIsWhole ==
  /\ restore # AtEase /\ restore.sealed => shelf[restore.file] \in {"sealed", "gone"}
  /\ restore # AtEase /\ VerifiesOK(restore.file) => Restored = "contents"
  /\ target = "debris" => \E f \in Snapshots : shelf[f] \in {"stub", "gone"}

DeskInv == DeskTypeOK /\ FlagsOutliveRestarts /\ RolloutsGrow /\ WindowsHold /\ BucketHolds
           /\ GuardIsRight /\ TrailCounts /\ RestoredIsWhole

\* cliOps.ts: "target ... already exists (pass --force to overwrite)".
TargetIsKept == [][target = "live" /\ target' # "live" => restore.force]_deskVars

\* featureFlags.ts: a runtime record is in effect for every request.
ServersAgree == \A s \in Servers, f \in Flags, w \in FlagWallets :
  f \in DOMAIN flagTable => (IsEnabled(s, f, {w}) <=> Evaluate(flagTable[f], f, {w}))
=============================================================================
