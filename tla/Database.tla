------------------------------ MODULE Database -------------------------------
(***************************************************************************)
(* The schema of one SQLite database and the two tools that move it:        *)
(* db/migrations/runner.ts, which a server runs over the consolidated       *)
(* database before it listens and which `db:rollback` runs backwards, and   *)
(* db/migrator.ts, which a server runs over each of the module databases    *)
(* when their pool opens them and which `db/cli.ts rollback` runs backwards.*)
(*                                                                         *)
(* Any number of processes do so at once, of different releases.  Reading   *)
(* what is applied and applying what is not are separate statements; one    *)
(* migration and its row are one transaction.                              *)
(***************************************************************************)
EXTENDS Integers, FiniteSets, FiniteSetsExt, Sequences, SequencesExt

CONSTANTS Versions,     \* numbers of the migration files
          KindOf,       \* version -> "table", "column" or "oneway"
          Releases,     \* releases of the backend
          Shipped,      \* release -> the files it carries: version -> text
          Migrators,    \* processes that open the database
          NotApplied    \* no row, or nothing in the schema

ASSUME MigrationsAssumption ==
    /\ Versions \subseteq Nat /\ Versions # {} /\ IsFiniteSet(Versions)
    /\ KindOf \in [Versions -> {"table", "column", "oneway"}]
    /\ Releases # {}
    /\ \A r \in Releases : /\ DOMAIN Shipped[r] \subseteq Versions
                            /\ \A v \in DOMAIN Shipped[r] : Shipped[r][v] # NotApplied

VARIABLES engine,    \* which of the two tools owns this database
          ledger,    \* schema_migrations: version -> text of the applied file
          schema,    \* what each migration brought that is there: its text
          opener,    \* process -> how far its run has come
          moved      \* history: versions another process wrote since it began

migrationVars == <<engine, ledger, schema, opener, moved>>

Texts  == UNION {{Shipped[r][v] : v \in DOMAIN Shipped[r]} : r \in Releases}
Files(p) == Shipped[opener[p].release]

Closed == [stage |-> "off", release |-> CHOOSE r \in Releases : TRUE, todo |-> {}]

Applied == {v \in Versions : ledger[v] # NotApplied}

-----------------------------------------------------------------------------
(* What a run reads before it writes.                                      *)

Edited(files) == {v \in Applied \cap DOMAIN files : files[v] # ledger[v]}

\* A file that is gone is drift to the runner only.
Drifted(files) ==
    Edited(files) \cup (IF engine = "runner" THEN Applied \ DOMAIN files ELSE {})

\* listPending, getPendingMigrations: files without a row, older ones too.
Pending(files) == {v \in DOMAIN files : v \notin Applied}

\* describeMigrationStatus: what GET /migrations calls up to date.
UpToDate(files) == Pending(files) = {} /\ Drifted(files) = {}

Stage(p, s, versions) == [opener EXCEPT ![p].stage = s, ![p].todo = versions]

\* A server opens the database.
Launch(p, r) ==
    /\ opener[p].stage = "off"
    /\ opener' = [opener EXCEPT ![p] = [stage |-> "check", release |-> r, todo |-> {}]]
    /\ moved' = [moved EXCEPT ![p] = {}]
    /\ UNCHANGED <<engine, ledger, schema>>

\* assertNoDrift: the process that finds some does not start.
CheckDrift(p) ==
    /\ opener[p].stage = "check"
    /\ opener' = Stage(p, IF Drifted(Files(p)) = {} THEN "list" ELSE "refused", {})
    /\ UNCHANGED <<engine, ledger, schema, moved>>

ListPending(p) ==
    /\ opener[p].stage = "list"
    /\ opener' = Stage(p, "apply", Pending(Files(p)))
    /\ UNCHANGED <<engine, ledger, schema, moved>>

-----------------------------------------------------------------------------
(* One migration and its row.                                              *)

Others(p, v) == [q \in Migrators |-> IF q = p THEN moved[q] ELSE moved[q] \cup {v}]

\* The up section: a column that is there cannot be added, a table that is
\* there is left alone.
UpRuns(v) == KindOf[v] = "column" => schema[v] = NotApplied

UpSchema(v, text) ==
    IF schema[v] = NotApplied THEN [schema EXCEPT ![v] = text] ELSE schema

\* The down section of a migration that adds a column drops its indexes.
DownSchema(v) ==
    IF KindOf[v] = "column" THEN schema ELSE [schema EXCEPT ![v] = NotApplied]

\* The row's id is the primary key: a version that another process applied
\* meanwhile is refused, with all its statements.
Applies(p) ==
    LET v == Min(opener[p].todo) IN UpRuns(v) /\ v \notin Applied

ApplyNext(p) ==
    /\ opener[p].stage = "apply"
    /\ opener[p].todo # {}
    /\ Applies(p)
    /\ LET v == Min(opener[p].todo)
       IN  /\ ledger' = [ledger EXCEPT ![v] = Files(p)[v]]
           /\ schema' = UpSchema(v, Files(p)[v])
           /\ opener' = Stage(p, "apply", opener[p].todo \ {v})
           /\ moved' = Others(p, v)
    /\ UNCHANGED engine

\* The transaction rolls back, the run stops and the server exits.
ApplyFails(p) ==
    /\ opener[p].stage = "apply"
    /\ opener[p].todo # {}
    /\ ~Applies(p)
    /\ opener' = Stage(p, "refused", opener[p].todo)
    /\ UNCHANGED <<engine, ledger, schema, moved>>

Serve(p) ==
    /\ opener[p].stage = "apply"
    /\ opener[p].todo = {}
    /\ opener' = Stage(p, "serving", {})
    /\ UNCHANGED <<engine, ledger, schema, moved>>

-----------------------------------------------------------------------------
(* The way back.                                                           *)

Newest(S, n) == {v \in S : Cardinality({w \in S : w > v}) < n}

\* Rows above `to` whose files are there, at most `steps` of them; refused
\* as a whole when one of them has no down section.
RunnerDoomed(files, to, steps) == Newest({v \in Applied \cap DOMAIN files : v > to}, steps)

PlanRollback(p, r, to, steps) ==
    /\ opener[p].stage = "off"
    /\ LET doomed == IF engine = "runner" THEN RunnerDoomed(Shipped[r], to, steps)
                                          ELSE Newest(Applied, steps)
           refused == engine = "runner" /\ \E v \in doomed : KindOf[v] = "oneway"
       IN  opener' = [opener EXCEPT ![p] =
                        [stage |-> IF refused THEN "refused" ELSE "revert",
                         release |-> r, todo |-> IF refused THEN {} ELSE doomed]]
    /\ moved' = [moved EXCEPT ![p] = {}]
    /\ UNCHANGED <<engine, ledger, schema>>

\* Newest first; the migrator stops at a row whose files are gone, with the
\* newer ones reverted.
RevertNext(p) ==
    /\ opener[p].stage = "revert"
    /\ opener[p].todo # {}
    /\ LET v == Max(opener[p].todo)
       IN  IF v \in DOMAIN Files(p)
             THEN /\ ledger' = [ledger EXCEPT ![v] = NotApplied]
                  /\ schema' = DownSchema(v)
                  /\ opener' = Stage(p, "revert", opener[p].todo \ {v})
                  /\ moved' = Others(p, v)
             ELSE /\ opener' = Stage(p, "refused", opener[p].todo)
                  /\ UNCHANGED <<ledger, schema, moved>>
    /\ UNCHANGED engine

\* The process ends: a tool that is done, a server that stops, one that was
\* refused, or a crash between two transactions.
CloseDatabase(p) ==
    /\ opener[p].stage # "off"
    /\ opener' = [opener EXCEPT ![p] = Closed]
    /\ UNCHANGED <<engine, ledger, schema, moved>>

-----------------------------------------------------------------------------
\* The first table may be there from the DDL the modules run themselves.
MigrationsInit ==
    /\ engine \in {"runner", "migrator"}
    /\ ledger = [v \in Versions |-> NotApplied]
    /\ schema \in {[v \in Versions |-> NotApplied]} \cup
                  {[v \in Versions |-> IF v = Min(Versions) THEN Shipped[r][v] ELSE NotApplied] :
                     r \in {s \in Releases : /\ Min(Versions) \in DOMAIN Shipped[s]
                                             /\ KindOf[Min(Versions)] = "table"}}
    /\ opener = [p \in Migrators |-> Closed]
    /\ moved = [p \in Migrators |-> {}]

MigrationsNext ==
    \E p \in Migrators :
        \/ \E r \in Releases : \/ Launch(p, r)
                               \/ \E to \in Versions \cup {0}, n \in 1..Cardinality(Versions) :
                                      PlanRollback(p, r, to, n)
        \/ CheckDrift(p) \/ ListPending(p)
        \/ ApplyNext(p) \/ ApplyFails(p) \/ Serve(p)
        \/ RevertNext(p) \/ CloseDatabase(p)

MigrationsSpec == MigrationsInit /\ [][MigrationsNext]_migrationVars

-----------------------------------------------------------------------------
(* Properties.                                                             *)

\* Every variable keeps to its type.
MigrationsTypeOK ==
    /\ engine \in {"runner", "migrator"}
    /\ ledger \in [Versions -> Texts \cup {NotApplied}]
    /\ schema \in [Versions -> Texts \cup {NotApplied}]
    /\ \A p \in Migrators :
         /\ opener[p].stage \in {"off", "check", "list", "apply", "revert", "serving", "refused"}
         /\ opener[p].release \in Releases
         /\ opener[p].todo \subseteq Versions /\ moved[p] \subseteq Versions

\* What schema_migrations says was applied is what the schema holds, however
\* servers and rollbacks of different releases interleave.
RecordedIsInForce ==
    \A v \in Applied : KindOf[v] # "table" => schema[v] = ledger[v]

\* A process that serves does so against a schema that its release would
\* call up to date, but for the versions other processes have written or
\* reverted since it began.
ServesInStep ==
    \A p \in Migrators :
        opener[p].stage = "serving" =>
            UpToDate(Files(p)) \/ Pending(Files(p)) \cup Drifted(Files(p)) \subseteq moved[p]

\* A run of the migrations fails only at a version that another process has
\* recorded meanwhile: what a rollback took away can be applied again.
RolledBackCanReturn ==
    [][\A p \in Migrators : ApplyFails(p) => Min(opener[p].todo) \in Applied]_migrationVars

MigrationsInv == MigrationsTypeOK /\ RecordedIsInForce /\ ServesInStep

-----------------------------------------------------------------------------
(***************************************************************************)
(* db/pool.ts: the pool of SQLite handles that each of the backend's        *)
(* databases is opened through, and its users.  Reads hold one of at most   *)
(* MaxReaders handles, writes take turns on the one writer.                 *)
(*                                                                         *)
(* Every function of the pool runs to its end before another starts; what   *)
(* a caller does with its handle is asynchronous and takes any time, and so *)
(* do the timers.  A handle may go bad, and opening one may fail.           *)
(***************************************************************************)
CONSTANTS PoolReaders,   \* callers of read
          PoolWriters,   \* callers of write and transaction
          MinReaders,    \* PoolOptions.min
          MaxReaders,    \* PoolOptions.max
          NoHandle,      \* a caller without a handle
          MaxPoolFaults  \* bound on handles that go bad or fail to open

ASSUME PoolAssumption ==
    /\ MinReaders \in Nat \ {0}
    /\ MaxReaders \in Nat /\ MaxReaders >= MinReaders
    /\ NoHandle \notin 1..MaxReaders
    /\ MaxPoolFaults \in Nat

VARIABLES pool,      \* the closure of createPool
          reader,    \* caller of read -> its promise and its handle
          writer,    \* caller of write -> its promise
          bad,       \* handles that no longer answer SELECT 1
          poolFaults, \* faults so far
          forgotten  \* history: callers no timer and no release will settle

poolVars == <<pool, reader, writer, bad, poolFaults, forgotten>>

Handles == 1..MaxReaders

Held    == {h \in Handles : \E c \in PoolReaders : reader[c].handle = h}
OpenHandles == Held \cup Range(pool.idle)

Settled(how) == [promise |-> how, handle |-> NoHandle]
Granted(h)   == [promise |-> "reading", handle |-> h]

Fault == poolFaults < MaxPoolFaults /\ poolFaults' = poolFaults + 1

-----------------------------------------------------------------------------
(* Taking a handle.                                                        *)

\* The idle handles are a stack; what fails its health check on the way to
\* one that answers is closed.
Answering(p) == {i \in DOMAIN p.idle : p.idle[i] \notin bad}
Deepest(p)   == IF Answering(p) = {} THEN 0 ELSE CHOOSE i \in Answering(p) : \A j \in Answering(p) : j <= i
Pinged(p) ==
    [p EXCEPT !.idle = SubSeq(p.idle, 1, Deepest(p) - 1),
              !.open = p.open - (Len(p.idle) - Deepest(p))]

TakeIdle(c) ==
    /\ reader[c].promise = "none" /\ ~pool.closed
    /\ Deepest(pool) > 0
    /\ pool' = [Pinged(pool) EXCEPT !.active = @ + 1]
    /\ reader' = [reader EXCEPT ![c] = Granted(pool.idle[Deepest(pool)])]
    /\ bad' = bad \cap {h \in Handles : h \in Held \/ h \in Range(pool'.idle)}
    /\ UNCHANGED <<writer, poolFaults, forgotten>>

\* No idle handle answers and there is room: a new one, for whoever asks,
\* also before those who wait.
OpenNew(c) ==
    /\ reader[c].promise = "none" /\ ~pool.closed
    /\ Deepest(pool) = 0 /\ Pinged(pool).open < MaxReaders
    /\ \/ /\ pool' = [Pinged(pool) EXCEPT !.open = @ + 1, !.active = @ + 1]
          /\ reader' = [reader EXCEPT ![c] = Granted(CHOOSE h \in Handles : h \notin Held)]
          /\ UNCHANGED poolFaults
       \/ /\ Fault
          /\ pool' = Pinged(pool)
          /\ reader' = [reader EXCEPT ![c] = Settled("failed")]
    /\ bad' = bad \cap Held
    /\ UNCHANGED <<writer, forgotten>>

Wait(c) ==
    /\ reader[c].promise = "none" /\ ~pool.closed
    /\ Deepest(pool) = 0 /\ Pinged(pool).open >= MaxReaders
    /\ pool' = [Pinged(pool) EXCEPT !.waiters = Append(@, c)]
    /\ reader' = [reader EXCEPT ![c] = Settled("waiting")]
    /\ UNCHANGED <<writer, bad, poolFaults, forgotten>>

\* The queue from which c is spliced out.
Spliced(c) ==
    RemoveAt(pool.waiters, CHOOSE i \in DOMAIN pool.waiters : pool.waiters[i] = c)

\* The timer of a waiter that nothing settled before.
GiveUp(c) ==
    /\ c \in Range(pool.waiters)
    /\ pool' = [pool EXCEPT !.waiters = Spliced(c)]
    /\ reader' = [reader EXCEPT ![c] = Settled("timed out")]
    /\ UNCHANGED <<writer, bad, poolFaults, forgotten>>

-----------------------------------------------------------------------------
(* Giving it back.                                                         *)

Returned   == [pool EXCEPT !.active = @ - 1]

\* Mutant: closeHandle leaves the count alone.
MutantDropped(p) == p

Dropped(p)  == [p EXCEPT !.open = @ - 1]
Passed(p)   == [p EXCEPT !.active = @ + 1, !.waiters = Tail(@)]

\* The pool was closed under the reader.
CloseReturned(c) ==
    /\ pool.closed
    /\ pool' = Dropped(Returned)
    /\ reader' = [reader EXCEPT ![c] = Settled("done")]
    /\ bad' = bad \ {reader[c].handle}
    /\ UNCHANGED <<poolFaults, forgotten>>

\* To the first that waits; a bad handle is replaced, and when the new one
\* does not open the waiter is already settled and out of the queue.
HandOver(c) ==
    LET h == reader[c].handle
        w == Head(pool.waiters)
    IN  /\ ~pool.closed /\ pool.waiters # <<>>
        /\ \/ /\ pool' = Passed(Returned)
              /\ reader' = [reader EXCEPT ![c] = Settled("done"), ![w] = Granted(h)]
              /\ bad' = bad \ {h}
              /\ UNCHANGED <<poolFaults, forgotten>>
           \/ /\ h \in bad /\ Fault
              /\ pool' = [Dropped(Returned) EXCEPT !.waiters = Tail(@)]
              /\ reader' = [reader EXCEPT ![c] = Settled("failed")]
              /\ bad' = bad \ {h}
              /\ forgotten' = forgotten \cup {w}

\* Nobody waits: back onto the stack, unless it is bad or enough are idle.
PutBack(c) ==
    LET h == reader[c].handle
    IN  /\ ~pool.closed /\ pool.waiters = <<>>
        /\ pool' = IF h \in bad \/ Len(pool.idle) >= MinReaders
                     THEN Dropped(Returned)
                     ELSE [Returned EXCEPT !.idle = Append(@, h)]
        /\ reader' = [reader EXCEPT ![c] = Settled("done")]
        /\ bad' = bad \ {h}
        /\ UNCHANGED <<poolFaults, forgotten>>

\* read's finally, whether the body returned or threw.
Release(c) ==
    /\ reader[c].promise = "reading"
    /\ CloseReturned(c) \/ HandOver(c) \/ PutBack(c)
    /\ UNCHANGED writer

\* A caller comes back with another read.
ReadAgain(c) ==
    /\ reader[c].promise \in {"done", "failed", "timed out"}
    /\ reader' = [reader EXCEPT ![c] = Settled("none")]
    /\ UNCHANGED <<pool, writer, bad, poolFaults, forgotten>>

GoBad(h) ==
    /\ h \in OpenHandles \ bad /\ Fault
    /\ bad' = bad \cup {h}
    /\ UNCHANGED <<pool, reader, writer, forgotten>>

-----------------------------------------------------------------------------
(* The writer.                                                             *)

EnqueueWrite(w) ==
    /\ writer[w] = "none" /\ ~pool.closed
    /\ IF pool.writing
         THEN /\ pool' = [pool EXCEPT !.writes = Append(@, w)]
              /\ writer' = [writer EXCEPT ![w] = "queued"]
         ELSE /\ pool' = [pool EXCEPT !.writing = TRUE]
              /\ writer' = [writer EXCEPT ![w] = "writing"]
    /\ UNCHANGED <<reader, bad, poolFaults, forgotten>>

\* The body settled, or its statements failed on a closed handle; the next
\* of the queue starts in the same turn, also when the pool is closed.
EndWrite(w) ==
    /\ writer[w] = "writing"
    /\ LET done == IF pool.writerOpen THEN "done" ELSE "failed"
       IN  IF pool.writes = <<>>
             THEN /\ pool' = [pool EXCEPT !.writing = FALSE]
                  /\ writer' = [writer EXCEPT ![w] = done]
             ELSE /\ pool' = [pool EXCEPT !.writes = Tail(@)]
                  /\ writer' = [writer EXCEPT ![w] = done, ![Head(pool.writes)] = "writing"]
    /\ UNCHANGED <<reader, bad, poolFaults, forgotten>>

-----------------------------------------------------------------------------
(* The end of the pool.                                                    *)

\* A read or write of a closed pool, or of a database that is closing.
RefuseRead(c) ==
    /\ reader[c].promise = "none" /\ pool.closed
    /\ reader' = [reader EXCEPT ![c] = Settled("closed")]
    /\ UNCHANGED <<pool, writer, bad, poolFaults, forgotten>>

RefuseWrite(w) ==
    /\ writer[w] = "none" /\ pool.closed
    /\ writer' = [writer EXCEPT ![w] = "closed"]
    /\ UNCHANGED <<pool, reader, bad, poolFaults, forgotten>>

\* Those who wait are turned away at once.
Close ==
    /\ ~pool.closed
    /\ pool' = [pool EXCEPT !.closed = TRUE, !.waiters = <<>>]
    /\ reader' = [c \in PoolReaders |->
                    IF c \in Range(pool.waiters) THEN Settled("closed") ELSE reader[c]]
    /\ UNCHANGED <<writer, bad, poolFaults, forgotten>>

\* Nothing runs any more, or the deadline is past.
CloseHandles(late) ==
    /\ pool.closed /\ pool.writerOpen
    /\ late \/ (pool.active = 0 /\ ~pool.writing)
    /\ pool' = [pool EXCEPT !.idle = <<>>, !.open = @ - Len(pool.idle),
                            !.writerOpen = FALSE, !.late = late]
    /\ bad' = bad \cap Held
    /\ UNCHANGED <<reader, writer, poolFaults, forgotten>>

-----------------------------------------------------------------------------
PoolInit ==
    /\ pool = [open |-> MinReaders, active |-> 0, idle |-> [i \in 1..MinReaders |-> i],
               waiters |-> <<>>, writing |-> FALSE, writes |-> <<>>,
               closed |-> FALSE, writerOpen |-> TRUE, late |-> FALSE]
    /\ reader = [c \in PoolReaders |-> Settled("none")]
    /\ writer = [w \in PoolWriters |-> "none"]
    /\ bad = {} /\ poolFaults = 0 /\ forgotten = {}

ReadStep(c) ==
    \/ TakeIdle(c) \/ OpenNew(c) \/ Wait(c) \/ GiveUp(c)
    \/ Release(c) \/ ReadAgain(c) \/ RefuseRead(c)

PoolNext ==
    \/ \E c \in PoolReaders : ReadStep(c)
    \/ \E w \in PoolWriters : EnqueueWrite(w) \/ EndWrite(w) \/ RefuseWrite(w)
    \/ \E h \in Handles : GoBad(h)
    \/ Close
    \/ \E late \in BOOLEAN : CloseHandles(late)

PoolSpec == PoolInit /\ [][PoolNext]_poolVars

-----------------------------------------------------------------------------
(* Properties.                                                             *)

\* Every variable keeps to its type.
PoolTypeOK ==
    /\ pool.open \in 0..MaxReaders /\ pool.active \in 0..MaxReaders
    /\ Range(pool.idle) \subseteq Handles /\ Range(pool.waiters) \subseteq PoolReaders
    /\ \A c \in PoolReaders : reader[c].handle \in Handles \cup {NoHandle}
    /\ bad \subseteq OpenHandles /\ forgotten \subseteq PoolReaders

\* The counters that acquire and close go by are the handles that are open
\* and in use, and no handle is with two callers or with one and idle,
\* through bad handles, failed openings and a close with readers inside.
CountersAreHandles ==
    /\ pool.active = Cardinality(Held)
    /\ pool.open = Cardinality(Held) + Len(pool.idle)
    /\ Held \cap Range(pool.idle) = {} /\ IsInjective(pool.idle)
    /\ \A c, d \in PoolReaders : reader[c].handle = reader[d].handle => c = d \/ reader[c].handle = NoHandle

\* A caller waits only while no handle is idle, and somebody will settle it
\* unless the opening of a replacement failed on its turn.
WaitersAreQueued ==
    /\ pool.waiters # <<>> => pool.idle = <<>> /\ ~pool.closed
    /\ \A c \in PoolReaders :
         reader[c].promise = "waiting" /\ c \notin forgotten => c \in Range(pool.waiters)

\* One write at a time; a queued write has one ahead of it; and a handle is
\* closed under its user only when the drain's deadline has passed.
UsersOutliveNothing ==
    /\ Cardinality({w \in PoolWriters : writer[w] = "writing"}) = (IF pool.writing THEN 1 ELSE 0)
    /\ {w \in PoolWriters : writer[w] = "queued"} = Range(pool.writes)
    /\ pool.writes # <<>> => pool.writing
    /\ ~pool.writerOpen /\ ~pool.late => Held = {} /\ ~pool.writing /\ pool.open = 0

PoolInv == PoolTypeOK /\ CountersAreHandles /\ WaitersAreQueued /\ UsersOutliveNothing

\* "a saturated pool sheds load instead of hanging" (db/pool.ts:17): who
\* waits is in the queue, where its timer or a release settles it.
NobodyHangs == forgotten = {}
=============================================================================
