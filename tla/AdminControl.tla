---------------------------- MODULE AdminControl ----------------------------
(***************************************************************************)
(* The operators' side of the backend                                      *)
(* (src/backend/src/services/adminControl.ts, auditLog.ts, dbMaintenance.ts,*)
(* backup/encryption.ts, api/routes/admin.ts): the hash-chained log of     *)
(* admin requests with its verification, export, paged listing and pruning,*)
(* the maintenance pass that snapshots the databases, backups on request,  *)
(* and the shutdown that waits for the pass.                               *)
(* Processes share the log's file and the backup directory.  A hash is the *)
(* number of the append that made it: two appends never hash alike.        *)
(***************************************************************************)
EXTENDS Naturals, FiniteSets, SequencesExt

CONSTANTS AdminProcesses,
          AdminCalls,         \* admin requests
          Databases,          \* names of the maintained databases, a sequence
          LogRetention,       \* AUDIT_LOG_RETENTION_DAYS, 0 for none
          BackupRetention,    \* DB_BACKUP_RETENTION_COUNT
          ExportLimit, ExportBatch,
          MaxLegacy,          \* bound: rows from before the chain
          MaxPasses, MaxCrashes, AdminEnd

ASSUME AdminAssumption ==
    /\ Databases \in Seq(STRING)
    /\ {BackupRetention, ExportLimit, ExportBatch} \subseteq Nat \ {0}
    /\ {LogRetention, MaxLegacy, MaxPasses, MaxCrashes, AdminEnd} \subseteq Nat

VARIABLES log,          \* admin_audit_log, by id
          appends,      \* history: rows written so far, which numbers the hashes
          commits,      \* history: writes committed to the log's database
          call,         \* what became of each admin request
          exporting,    \* one export of the log
          backups,      \* snapshots in the backup directory
          intact,       \* history: databases that have been snapshot with success
          upkeep,       \* each process's maintenance pass
          manual,       \* a backup on request, and the files in its directory
          life,         \* how far each process's shutdown has got
          keyed,        \* DB_BACKUP_ENCRYPTION_KEY is set in the process
          passes, crashes, adminTime

auditLogVars == <<log, appends, commits, call, exporting>>
upkeepVars == <<backups, intact, upkeep, passes, manual, life>>
adminVars == <<auditLogVars, upkeepVars, keyed, crashes, adminTime>>

NoHash == 0      \* NULL in a row from before the chain, and the genesis hash before the first one
Unmade == [stage |-> "idle", process |-> "none", at |-> 0, head |-> 0, seen |-> 0]
NoExport == [state |-> "none", before |-> 0, got |-> <<>>, start |-> {}, from |-> 0]
AtRest == [stage |-> "idle", next |-> 0, raw |-> 0]
NoManual == [stage |-> "none", by |-> "none", next |-> 1, ok |-> {}, files |-> {}]
LegacyRow(i) == [id |-> i, at |-> 0, prev |-> NoHash, hash |-> NoHash]

Stages == {"idle", "answering", "stamped", "writing", "recorded", "lost", "gone"}

AdminTypeOK ==
    /\ keyed \in [AdminProcesses -> BOOLEAN]
    /\ log \in Seq([id : Nat, at : 0 .. AdminEnd, prev : Nat, hash : Nat])
    /\ \A c \in AdminCalls : call[c].stage \in Stages /\ call[c].at \in 0 .. AdminEnd
    /\ exporting.state \in {"none", "reading", "done", "paging", "paged", "cut"}
    /\ backups \subseteq [db : ToSet(Databases), at : 1 .. MaxPasses, kind : {"raw", "torn", "sealed"}]
    /\ intact \subseteq ToSet(Databases) /\ manual.ok \subseteq ToSet(Databases)
    /\ manual.stage \in {"none", "next", "copied", "told", "cut"} /\ manual.files \subseteq ToSet(Databases) \X {"raw", "sealed"}
    /\ life \in [AdminProcesses -> {"up", "stopping", "down"}]
    /\ upkeep \in [AdminProcesses -> [stage : {"idle", "next", "copied"}, next : 0 .. Len(Databases) + 1, raw : 0 .. MaxPasses]]
    /\ passes \in 0 .. MaxPasses /\ crashes \in 0 .. MaxCrashes /\ adminTime \in 0 .. AdminEnd

\* A process runs one synchronous piece of code at a time.
Free(p) == \A c \in AdminCalls : ~(call[c].process = p /\ call[c].stage \in {"stamped", "writing"})

-----------------------------------------------------------------------------
\* The admin requests and their log.

\* A handler of createAdminRouter has run; its answer is on the way.
Serve(p, c) ==
    /\ call[c].stage = "idle" /\ Free(p) /\ life[p] = "up"
    /\ call' = [call EXCEPT ![c].stage = "answering", ![c].process = p]
    /\ UNCHANGED <<log, appends, commits, exporting, upkeepVars, keyed, crashes, adminTime>>

\* The client goes away before the answer is out: 'finish' never fires.
ClientLeaves(c) ==
    /\ call[c].stage = "answering"
    /\ call' = [call EXCEPT ![c].stage = "gone"]
    /\ UNCHANGED <<log, appends, commits, exporting, upkeepVars, keyed, crashes, adminTime>>

\* auditAdminRequests on 'finish' takes the time.
EndRequest(c) ==
    /\ call[c].stage = "answering" /\ Free(call[c].process)
    /\ call' = [call EXCEPT ![c].stage = "stamped", ![c].at = adminTime]
    /\ UNCHANGED <<log, appends, commits, exporting, upkeepVars, keyed, crashes, adminTime>>

\* append's transaction reads the newest row.
ReadHead(c) ==
    /\ call[c].stage = "stamped"
    /\ call' = [call EXCEPT ![c].stage = "writing", ![c].seen = commits,
                            ![c].head = IF log = <<>> THEN 0 ELSE Last(log).id]
    /\ UNCHANGED <<log, appends, commits, exporting, upkeepVars, keyed, crashes, adminTime>>

HeadHash == IF log = <<>> THEN NoHash ELSE Last(log).hash
NextHash == appends + 1
Linked(c) == [id |-> call[c].head + 1, at |-> call[c].at, prev |-> HeadHash, hash |-> NextHash]

\* Mutant: no transaction, only the primary key guards the row.
MutantUnraced(c) == \A i \in 1 .. Len(log) : log[i].id # call[c].head + 1
\* SQLite lets a transaction write only on the snapshot it has read.
Unraced(c) == call[c].seen = commits

\* append's insert; recordAdminAudit swallows its failure.
Write(c) ==
    /\ call[c].stage = "writing"
    /\ IF Unraced(c)
       THEN /\ log' = Append(log, Linked(c))
            /\ appends' = NextHash /\ commits' = commits + 1
            /\ call' = [call EXCEPT ![c].stage = "recorded"]
       ELSE call' = [call EXCEPT ![c].stage = "lost"] /\ UNCHANGED <<log, appends, commits>>
    /\ UNCHANGED <<exporting, upkeepVars, keyed, crashes, adminTime>>

\* verify: a chained row that does not name the hash of the chained row before it, or a
\* row from before the chain that follows one.
Blamed(i) ==
    \E j \in 1 .. i - 1 :
        /\ log[j].hash # NoHash
        /\ log[i].hash = NoHash \/ ((\A k \in j + 1 .. i - 1 : log[k].hash = NoHash) /\ log[i].prev # log[j].hash)

-----------------------------------------------------------------------------
\* The export, newest first, in batches.

StartExport ==
    /\ exporting.state = "none"
    /\ exporting' = [state |-> "reading", before |-> appends + MaxLegacy + 1, got |-> <<>>,
                     start |-> ToSet(log), from |-> appends]
    /\ UNCHANGED <<log, appends, commits, call, upkeepVars, keyed, crashes, adminTime>>

Wanted == IF ExportBatch < ExportLimit - Len(exporting.got) THEN ExportBatch ELSE ExportLimit - Len(exporting.got)
Below == SelectSeq(log, LAMBDA r : r.id < exporting.before)
Batch == Reverse(SubSeq(Below, IF Wanted < Len(Below) THEN Len(Below) - Wanted + 1 ELSE 1, Len(Below)))

ExportRows ==
    /\ exporting.state = "reading"
    /\ exporting' = IF Wanted = 0 \/ Batch = <<>> THEN [exporting EXCEPT !.state = "done"]
                    ELSE [exporting EXCEPT !.before = Last(Batch).id, !.got = @ \o Batch]
    /\ UNCHANGED <<log, appends, commits, call, upkeepVars, keyed, crashes, adminTime>>

\* The listing, a page at a time: the rows are counted off from the newest.
StartPaging ==
    /\ exporting.state = "none"
    /\ exporting' = [state |-> "paging", before |-> 0, got |-> <<>>, start |-> ToSet(log), from |-> appends]
    /\ UNCHANGED <<log, appends, commits, call, upkeepVars, keyed, crashes, adminTime>>

PageOf(n) == LET rows == Reverse(log) IN
    SubSeq(rows, n * ExportBatch + 1, IF (n + 1) * ExportBatch < Len(rows) THEN (n + 1) * ExportBatch ELSE Len(rows))

\* A short page is the last one.
NextPage ==
    /\ exporting.state = "paging"
    /\ exporting' = [exporting EXCEPT !.state = IF Len(PageOf(exporting.before)) < ExportBatch THEN "paged" ELSE @,
                                      !.before = @ + 1, !.got = @ \o PageOf(exporting.before)]
    /\ UNCHANGED <<log, appends, commits, call, upkeepVars, keyed, crashes, adminTime>>

ReaderLeaves ==
    /\ exporting.state \in {"reading", "paging"}
    /\ exporting' = [exporting EXCEPT !.state = "cut"]
    /\ UNCHANGED <<log, appends, commits, call, upkeepVars, keyed, crashes, adminTime>>

-----------------------------------------------------------------------------
\* The maintenance pass.

StartPass(p) ==
    /\ upkeep[p].stage = "idle" /\ passes < MaxPasses /\ Free(p) /\ life[p] = "up"
    /\ passes' = passes + 1
    /\ upkeep' = [upkeep EXCEPT ![p] = [stage |-> "next", next |-> 1, raw |-> passes + 1]]
    /\ UNCHANGED <<auditLogVars, backups, intact, manual, life, keyed, crashes, adminTime>>

At(p) == Databases[upkeep[p].next]
File(p, kind) == [db |-> At(p), at |-> upkeep[p].raw, kind |-> kind]
Onward(p) == [upkeep[p] EXCEPT !.stage = "next", !.next = @ + 1]

\* Checkpoint, VACUUM and createBackup up to the snapshot on disk.
Copy(p) ==
    /\ upkeep[p].stage = "next" /\ upkeep[p].next <= Len(Databases) /\ Free(p)
    /\ backups' = backups \cup {File(p, "raw")}
    /\ upkeep' = [upkeep EXCEPT ![p].stage = "copied"]
    /\ UNCHANGED <<auditLogVars, intact, passes, manual, life, keyed, crashes, adminTime>>

\* A database whose connection, checkpoint or snapshot fails is skipped.
SkipDatabase(p) ==
    /\ upkeep[p].stage = "next" /\ upkeep[p].next <= Len(Databases) /\ Free(p)
    /\ upkeep' = [upkeep EXCEPT ![p] = Onward(p)]
    /\ UNCHANGED <<auditLogVars, backups, intact, passes, manual, life, keyed, crashes, adminTime>>

\* applyRetention: by name, so by time and the raw file before its container.
Later(f, g) == g.at > f.at \/ (g.at = f.at /\ f.kind = "raw" /\ g.kind # "raw")
Outnumbered(f, files) == Cardinality({g \in files : g.db = f.db /\ Later(f, g)}) >= BackupRetention
Retained(db, files) == {f \in files : f.db = db => ~Outnumbered(f, files)}

\* encryptBackupFile, then retention; without a key it throws and both are skipped.
Seal(p) ==
    /\ upkeep[p].stage = "copied" /\ Free(p)
    /\ IF keyed[p]
       THEN /\ backups' = Retained(At(p), (backups \ {File(p, "raw")}) \cup {File(p, "sealed")})
            /\ intact' = intact \cup {At(p)}
       ELSE UNCHANGED <<backups, intact>>
    /\ upkeep' = [upkeep EXCEPT ![p] = Onward(p)]
    /\ UNCHANGED <<auditLogVars, passes, manual, life, keyed, crashes, adminTime>>

\* pruneAdminAuditLog: the rows stamped before the cutoff.
Young == SelectSeq(log, LAMBDA r : LogRetention = 0 \/ r.at + LogRetention >= adminTime)

EndPass(p) ==
    /\ upkeep[p].stage = "next" /\ upkeep[p].next > Len(Databases) /\ Free(p)
    /\ log' = Young /\ commits' = IF Young = log THEN commits ELSE commits + 1
    /\ upkeep' = [upkeep EXCEPT ![p] = AtRest]
    /\ UNCHANGED <<appends, call, exporting, backups, intact, passes, manual, life, keyed, crashes, adminTime>>

-----------------------------------------------------------------------------
\* POST /maintenance/backup: into a directory of its own, which nothing trims.

ManualStep(p) ==
    /\ manual.by = p /\ Free(p)
    /\ UNCHANGED <<auditLogVars, backups, intact, upkeep, passes, life, keyed, crashes, adminTime>>

StartManual(p) ==
    /\ manual.stage = "none" /\ life[p] = "up" /\ Free(p)
    /\ manual' = [manual EXCEPT !.stage = "next", !.by = p]
    /\ UNCHANGED <<auditLogVars, backups, intact, upkeep, passes, life, keyed, crashes, adminTime>>

ManualDb == Databases[manual.next]

CopyManual(p) ==
    /\ ManualStep(p) /\ manual.stage = "next" /\ manual.next <= Len(Databases)
    /\ \/ manual' = [manual EXCEPT !.stage = "copied", !.files = @ \cup {<<ManualDb, "raw">>}]
       \/ manual' = [manual EXCEPT !.next = @ + 1]

\* Without a key the raw file stays, and the result says so.
Sealed(p) ==
    IF ~keyed[p] THEN [manual EXCEPT !.stage = "next", !.next = @ + 1]
    ELSE [manual EXCEPT !.stage = "next", !.next = @ + 1, !.ok = @ \cup {ManualDb},
                        !.files = (@ \ {<<ManualDb, "raw">>}) \cup {<<ManualDb, "sealed">>}]

SealManual(p) == ManualStep(p) /\ manual.stage = "copied" /\ manual' = Sealed(p)

AnswerManual(p) ==
    /\ ManualStep(p) /\ manual.stage = "next" /\ manual.next > Len(Databases)
    /\ manual' = [manual EXCEPT !.stage = "told"]

CutManual(p) == IF manual.by = p /\ manual.stage # "told" THEN [manual EXCEPT !.stage = "cut"] ELSE manual

-----------------------------------------------------------------------------
\* A signal: the HTTP server has answered what it took, stop() ends the timers.
BeginStop(p) ==
    /\ life[p] = "up" /\ ~\E c \in AdminCalls : call[c].process = p /\ call[c].stage \in {"answering", "stamped", "writing"}
    /\ life' = [life EXCEPT ![p] = "stopping"]
    /\ UNCHANGED <<auditLogVars, backups, intact, upkeep, passes, manual, keyed, crashes, adminTime>>

SettledPass(p) == upkeep[p].stage = "idle"

\* The databases are closed, and the process ends.
CloseDatabases(p) ==
    /\ life[p] = "stopping" /\ SettledPass(p)
    /\ life' = [life EXCEPT ![p] = "down"]
    /\ manual' = CutManual(p)
    /\ UNCHANGED <<auditLogVars, backups, intact, upkeep, passes, keyed, crashes, adminTime>>

-----------------------------------------------------------------------------
\* A crash, and a start with the configuration of the day.  A container being
\* written stays behind in part, beside the raw snapshot.
Crash(p) ==
    /\ crashes < MaxCrashes /\ crashes' = crashes + 1
    /\ \E k \in BOOLEAN : keyed' = [keyed EXCEPT ![p] = k]
    /\ call' = [c \in AdminCalls |->
                 IF call[c].process = p /\ call[c].stage \in {"answering", "stamped", "writing"}
                 THEN [call[c] EXCEPT !.stage = "gone"] ELSE call[c]]
    /\ IF upkeep[p].stage = "copied" /\ keyed[p]
       THEN \E files \in {backups, backups \cup {File(p, "torn")}} : backups' = files
       ELSE UNCHANGED backups
    /\ upkeep' = [upkeep EXCEPT ![p] = AtRest]
    /\ manual' = CutManual(p) /\ life' = [life EXCEPT ![p] = "up"]
    /\ UNCHANGED <<log, appends, commits, exporting, intact, passes, adminTime>>

AdminTick ==
    /\ adminTime < AdminEnd /\ adminTime' = adminTime + 1
    /\ UNCHANGED <<auditLogVars, upkeepVars, keyed, crashes>>

AdminInit ==
    /\ keyed \in [AdminProcesses -> BOOLEAN]
    /\ \E n \in 0 .. MaxLegacy : log = [i \in 1 .. n |-> LegacyRow(i)]
    /\ appends = 0 /\ commits = 0 /\ call = [c \in AdminCalls |-> Unmade]
    /\ exporting = NoExport /\ backups = {} /\ intact = {}
    /\ upkeep = [p \in AdminProcesses |-> AtRest]
    /\ passes = 0 /\ manual = NoManual /\ life = [p \in AdminProcesses |-> "up"]
    /\ crashes = 0 /\ adminTime = 0

LogStep ==
    \/ \E c \in AdminCalls : ClientLeaves(c) \/ EndRequest(c) \/ ReadHead(c) \/ Write(c) \/ \E p \in AdminProcesses : Serve(p, c)
    \/ StartExport \/ ExportRows \/ StartPaging \/ NextPage \/ ReaderLeaves
UpkeepStep ==
    \E p \in AdminProcesses :
       \/ StartPass(p) \/ Copy(p) \/ SkipDatabase(p) \/ Seal(p) \/ EndPass(p) \/ Crash(p)
       \/ StartManual(p) \/ CopyManual(p) \/ SealManual(p) \/ AnswerManual(p)
       \/ BeginStop(p) \/ CloseDatabases(p)
AdminNext == LogStep \/ UpkeepStep \/ AdminTick
AdminSpec == AdminInit /\ [][AdminNext]_adminVars

-----------------------------------------------------------------------------
\* Whatever processes append at the same time and whatever is pruned, ids rise, and the
\* only rows that verify blames come after a row that pruning took: it reports no fork and
\* no row from before the chain after it (auditLog.ts: append's transaction, verify).
LogNeverForks ==
    \A i \in 2 .. Len(log) : log[i - 1].id < log[i].id /\ (Blamed(i) => log[i].id > log[i - 1].id + 1)

\* An export that runs to its end has delivered, newest first and once each,
\* every row that was there when it began and still is, up to its limit, while
\* rows are appended and pruned under it (auditLog.ts: iterateRows).
ExportIsWhole ==
    /\ exporting.state \in {"reading", "done"} =>
          \A i \in 1 .. Len(exporting.got) - 1 : exporting.got[i].id > exporting.got[i + 1].id
    /\ exporting.state = "done" /\ Len(exporting.got) < ExportLimit =>
          exporting.start \cap ToSet(log) \subseteq ToSet(exporting.got)

\* Pages read one after the other while rows are appended and pruned repeat rows but miss
\* none that was there from the first page to the last, unless pruning took a newer row,
\* out of order (auditLog.ts: list; adminControl.ts: listAdminAuditLog).
PagesMissNothing ==
    exporting.state = "paged" =>
        \A r \in exporting.start \cap ToSet(log) :
            \/ r \in ToSet(exporting.got)
            \/ \E h \in {q.hash : q \in exporting.start} \cup (exporting.from + 1 .. appends) :
                  h > r.hash /\ \A q \in ToSet(log) : q.hash # h

\* A database that has been snapshot with success always has a complete,
\* encrypted snapshot on disk: retention, failed passes and crashes never leave
\* only debris, while one process at a time works on the directory (dbMaintenance.ts:
\* createBackup, applyRetention).
IntactSnapshotStays ==
    \A db \in intact : \E f \in backups : f.db = db /\ f.kind = "sealed"

\* A database that the answer to a backup request calls ok has its encrypted file, and no
\* pass works on databases that the shutdown has closed (adminControl.ts: backupDatabases;
\* dbMaintenance.ts: stop; index.ts: setupGracefulShutdown).
AnswersAndStopsHold ==
    /\ manual.stage = "told" => \A db \in manual.ok : <<db, "sealed">> \in manual.files /\ <<db, "raw">> \notin manual.files
    /\ \A p \in AdminProcesses : upkeep[p].stage # "idle" => life[p] # "down"

\* The log stays one chain, exports and pages of it are whole, and snapshots outlive failures.
AdminInv == AdminTypeOK /\ LogNeverForks /\ ExportIsWhole /\ PagesMissNothing /\ IntactSnapshotStays /\ AnswersAndStopsHold
=============================================================================
