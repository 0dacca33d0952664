----------------------------- MODULE TaskEvents ------------------------------
(***************************************************************************)
(* The task event log and its three tiers: EventBus (stamping and          *)
(* persisting), the live table task_events, EventArchive and the           *)
(* EventRetentionService (task_event_archive, task_event_summary) and      *)
(* EventColdArchive (one gzip file per UTC day with a checksum sidecar).   *)
(*                                                                         *)
(* Time is counted in days and an event happens at the start of its day,   *)
(* which is the resolution the three windows have.  One process owns the   *)
(* log.  A retention pass and a cold cycle are synchronous, so each is one *)
(* step; what can come between their writes is a failing write, and only   *)
(* the cold tier keeps a part of its work outside the transaction.  Of a   *)
(* row the model keeps the task, the sequence number, the type and the     *)
(* day; a file is the set of its rows, a checksum the rows it was taken of. *)
(***************************************************************************)
EXTENDS Integers, FiniteSets, SequencesExt

CONSTANTS StreamTasks,     \* tasks whose events the log holds
          RetentionDays,   \* EVENT_RETENTION_DAYS: live rows younger are kept
          HotDays,         \* EVENT_HOT_RETENTION_DAYS: archived rows younger stay
          ColdDays,        \* EVENT_COLD_RETENTION_DAYS: day files younger are kept
          BatchTasks,      \* EVENT_COMPACTION_BATCH_TASKS: candidates of one pass
          MaxEvents,       \* bound: events of one task
          MaxFaults,       \* bound: failing sidecar writes
          LastDay          \* bound: days

ASSUME RetentionAssumption ==
    /\ {RetentionDays, HotDays, ColdDays, BatchTasks} \subseteq Nat \ {0}
    /\ {MaxEvents, MaxFaults, LastDay} \subseteq Nat

VARIABLES live,        \* rows of task_events
          archived,    \* rows of task_event_archive
          summary,     \* event_count of the task's row in task_event_summary
          dayFile,     \* rows of the file of a day, {} where there is none
          checksum,    \* rows the sidecar of a day was computed of
          expired,     \* history: rows of the day files that were purged
          nextSeq,     \* EventBus.nextSeqByTask
          taskState,   \* status column of the task's row
          eventLog,    \* "closed", "open", or "refused" when opening threw
          replaced,    \* the file holds the table migration 006 leaves
          faults,      \* failing writes so far
          today

tierVars == <<live, archived, summary, dayFile, checksum, expired>>
busVars == <<nextSeq, taskState, eventLog, replaced>>
retentionVars == <<tierVars, busVars, faults, today>>

Days == 0..LastDay
EventTypes == {"node_completed", "TaskCompleted", "TaskFailed",
               "task_cancelled", "job.dead_lettered"}
TerminalEventTypes == {"TaskCompleted", "TaskFailed"}
TerminalStatuses == {"completed", "failed", "cancelled"}
EventRows == [task : StreamTasks, seq : 0..MaxEvents, type : EventTypes, day : Days]

RowsOf(rows, t) == {r \in rows : r.task = t}
OfDay(rows, d) == {r \in rows : r.day = d}
KeyOfRow(r) == <<r.task, r.seq>>

\* INSERT OR IGNORE under UNIQUE (task_id, task_seq), and mergeRows: the
\* row that is there wins.
Joined(rows, more) ==
    rows \cup {r \in more : \A s \in rows : KeyOfRow(s) # KeyOfRow(r)}

-----------------------------------------------------------------------------
(* Opening the store, and the bus that stamps and persists an event.       *)

\* maxTaskSeqPerTask, plus one.
Resumed(t) ==
    IF RowsOf(live, t) = {} THEN 0
    ELSE 1 + CHOOSE n \in 0..MaxEvents :
                 /\ \E r \in RowsOf(live, t) : r.seq = n
                 /\ \A r \in RowsOf(live, t) : r.seq <= n

\* applyDDL runs migrations 002 and 006 on every open: the index of 002
\* names the column taskId, which the table that 006 left no longer has.
OpenLog ==
    /\ eventLog = "closed"
    /\ IF replaced
         THEN eventLog' = "refused" /\ UNCHANGED <<replaced, nextSeq>>
         ELSE /\ eventLog' = "open"
              /\ replaced' = TRUE
              /\ nextSeq' = [t \in StreamTasks |-> Resumed(t)]
    /\ UNCHANGED <<tierVars, taskState, faults, today>>

\* The process stops; the counters, which nobody reads until the next open,
\* go with it.
StopProcess ==
    /\ eventLog = "open"
    /\ eventLog' = "closed"
    /\ UNCHANGED <<tierVars, nextSeq, taskState, replaced, faults, today>>

\* emit: the number is taken whatever happens to the row; a colliding row
\* is refused by the table and the error only logged.
Emit(t, type) ==
    LET row == [task |-> t, seq |-> nextSeq[t], type |-> type, day |-> today]
    IN  /\ eventLog = "open"
        /\ nextSeq[t] < MaxEvents
        /\ nextSeq' = [nextSeq EXCEPT ![t] = @ + 1]
        /\ live' = Joined(live, {row})
        /\ UNCHANGED <<archived, summary, dayFile, checksum, expired, eventLog,
                       replaced, faults, today>>

\* A node of a running task finishes.
NodeEvent(t) ==
    /\ taskState[t] = "running"
    /\ Emit(t, "node_completed")
    /\ UNCHANGED taskState

\* The run writes the status and then emits the event that ends the stream.
SettleTask(t) ==
    /\ taskState[t] = "running"
    /\ \/ Emit(t, "TaskCompleted") /\ taskState' = [taskState EXCEPT ![t] = "completed"]
       \/ Emit(t, "TaskFailed") /\ taskState' = [taskState EXCEPT ![t] = "failed"]

\* The route writes 'cancelled'; the aborted run emits an event the type
\* map does not know, which is stored under its own name.
CancelTask(t) ==
    /\ taskState[t] = "running"
    /\ Emit(t, "task_cancelled")
    /\ taskState' = [taskState EXCEPT ![t] = "cancelled"]

\* The job of a failed task runs out of attempts and is parked.
ParkJob(t) ==
    /\ taskState[t] = "failed"
    /\ Emit(t, "job.dead_lettered")
    /\ UNCHANGED taskState

\* A retry, or the replay of a parked job, runs the task again.
RunAgain(t) ==
    /\ taskState[t] = "failed"
    /\ eventLog = "open"
    /\ taskState' = [taskState EXCEPT ![t] = "running"]
    /\ UNCHANGED <<tierVars, nextSeq, eventLog, replaced, faults, today>>

-----------------------------------------------------------------------------
(* The retention pass.                                                     *)

\* Rows the candidate scan looks at; the scan filters rows, not tasks.
OldRows(t) == {r \in RowsOf(live, t) : r.day < today - RetentionDays}

Candidates == {t \in StreamTasks : OldRows(t) # {}}

\* last_occurred_at of a candidate, taken over the rows the scan looks at.
LastSeen(t) == CHOOSE d \in Days : /\ \E r \in OldRows(t) : r.day = d
                                   /\ \A r \in OldRows(t) : r.day <= d

\* ORDER BY last_occurred_at ASC LIMIT batchTasks.
IsBatch(S) ==
    /\ Cardinality(S) <= BatchTasks
    /\ S # Candidates => Cardinality(S) = BatchTasks
    /\ \A t \in S, u \in Candidates \ S : LastSeen(t) <= LastSeen(u)

\* hasTerminalLastEvent: the type of the live row with the highest number.
EndsTerminal(t) ==
    \E r \in RowsOf(live, t) : /\ r.type \in TerminalEventTypes
                               /\ \A s \in RowsOf(live, t) : s.seq <= r.seq

\* The read-back of compactTask: as many archived rows as live ones.
ReadBack(t) ==
    Cardinality(RowsOf(Joined(archived, RowsOf(live, t)), t))
        >= Cardinality(RowsOf(live, t))

\* DELETE FROM task_events WHERE task_id = ?
RowsPurged(t) == RowsOf(live, t)

Compactable(t) == /\ EndsTerminal(t)
                  /\ taskState[t] \in TerminalStatuses
                  /\ ReadBack(t)

\* EventRetentionService.run over one batch, each task in its transaction.
RetentionPass ==
    /\ eventLog = "open"
    /\ \E S \in SUBSET Candidates :
         LET gone == {t \in S : Compactable(t)}
             rows == {r \in live : r.task \in gone}
         IN  /\ IsBatch(S)
             /\ gone # {}
             /\ live' = live \ UNION {RowsPurged(t) : t \in gone}
             /\ archived' = Joined(archived, rows)
             /\ summary' = [t \in StreamTasks |->
                              IF t \in gone THEN Cardinality(RowsOf(live, t))
                                            ELSE summary[t]]
    /\ UNCHANGED <<dayFile, checksum, expired, busVars, faults, today>>

-----------------------------------------------------------------------------
(* The cold tier.                                                          *)

\* readDayFile refuses a file whose checksum is of other bytes.
Trusted(d) == dayFile[d] = checksum[d]

\* DELETE ... WHERE occurred_at >= start AND occurred_at < end.
MovedOut(d) == OfDay(archived, d)

AgedDays == {d \in Days : d < today - HotDays /\ OfDay(archived, d) # {}}

\* The days a cycle gets through, oldest first, before the first that throws.
DaysBefore(d) == {e \in AgedDays : e < d}

WithDays(S) == [d \in Days |-> IF d \in S THEN Joined(dayFile[d], OfDay(archived, d))
                                          ELSE dayFile[d]]

PurgedDays == {d \in Days : d < today - ColdDays}

\* A cycle in which nothing throws, and the purge that ends it.
ColdCycle ==
    /\ eventLog = "open"
    /\ \A d \in AgedDays : Trusted(d)
    /\ LET moved == WithDays(AgedDays)
           kept(f) == [d \in Days |-> IF d \in PurgedDays THEN {} ELSE f[d]]
       IN  /\ dayFile' = kept(moved)
           /\ checksum' = [d \in Days |-> IF d \in PurgedDays THEN {}
                                          ELSE IF d \in AgedDays THEN moved[d]
                                          ELSE checksum[d]]
           /\ expired' = expired \cup UNION {moved[d] : d \in PurgedDays}
    /\ archived' = archived \ UNION {MovedOut(d) : d \in AgedDays}
    /\ archived' # archived \/ dayFile' # dayFile
    /\ UNCHANGED <<live, summary, busVars, faults, today>>

\* A cycle that throws at day d: the days before it are done, nothing after
\* it is, and no day is purged.
CutShort(d) ==
    /\ \A e \in DaysBefore(d) : Trusted(e)
    /\ archived' = archived \ UNION {MovedOut(e) : e \in DaysBefore(d)}
    /\ UNCHANGED <<live, summary, expired, busVars, today>>

\* The day has a file that cannot be trusted.
ColdCycleRefused ==
    /\ eventLog = "open"
    /\ \E d \in AgedDays :
         /\ ~Trusted(d)
         /\ DaysBefore(d) # {}
         /\ CutShort(d)
         /\ dayFile' = WithDays(DaysBefore(d))
         /\ checksum' = [e \in Days |-> IF e \in DaysBefore(d) THEN dayFile'[e]
                                                               ELSE checksum[e]]
    /\ UNCHANGED faults

\* writeDayFile renames the new file into place and then fails to write the
\* sidecar: the transaction is rolled back, the file is not.
SidecarFails ==
    /\ eventLog = "open"
    /\ faults < MaxFaults
    /\ \E d \in AgedDays :
         /\ Trusted(d)
         /\ CutShort(d)
         /\ dayFile' = WithDays(DaysBefore(d) \cup {d})
         /\ checksum' = [e \in Days |-> IF e \in DaysBefore(d) THEN dayFile'[e]
                                                               ELSE checksum[e]]
    /\ faults' = faults + 1

\* restoreRange, which throws and inserts nothing if a file is refused.
RestoreRange(from, to) ==
    LET days == {d \in Days : from <= d /\ d <= to /\ dayFile[d] # {}}
        rows == UNION {dayFile[d] : d \in days}
    IN  /\ eventLog = "open"
        /\ \A d \in days : Trusted(d)
        /\ archived' = Joined(archived, rows)
        /\ archived' # archived
        /\ UNCHANGED <<live, summary, dayFile, checksum, expired, busVars, faults, today>>

NextDay ==
    /\ today < LastDay
    /\ today' = today + 1
    /\ UNCHANGED <<tierVars, busVars, faults>>

-----------------------------------------------------------------------------
RetentionInit ==
    /\ live = {} /\ archived = {} /\ expired = {}
    /\ summary = [t \in StreamTasks |-> 0]
    /\ dayFile = [d \in Days |-> {}]
    /\ checksum = [d \in Days |-> {}]
    /\ nextSeq = [t \in StreamTasks |-> 0]
    /\ taskState = [t \in StreamTasks |-> "running"]
    /\ eventLog = "closed" /\ replaced = FALSE
    /\ faults = 0 /\ today = 0

RetentionNext ==
    \/ OpenLog \/ StopProcess
    \/ \E t \in StreamTasks : \/ NodeEvent(t) \/ SettleTask(t) \/ CancelTask(t)
                              \/ ParkJob(t) \/ RunAgain(t)
    \/ RetentionPass \/ ColdCycle \/ ColdCycleRefused \/ SidecarFails
    \/ \E from, to \in Days : RestoreRange(from, to)
    \/ NextDay

RetentionSpec == RetentionInit /\ [][RetentionNext]_retentionVars

\* The interval timers call the pass and the cycle again and again, and
\* days go by.
RetentionFairSpec == /\ RetentionSpec
                     /\ WF_retentionVars(RetentionPass)
                     /\ WF_retentionVars(NextDay)

-----------------------------------------------------------------------------
(* Properties.                                                             *)

\* Every variable keeps to its type.
RetentionTypeOK ==
    /\ live \subseteq EventRows /\ archived \subseteq EventRows
    /\ expired \subseteq EventRows
    /\ summary \in [StreamTasks -> 0..MaxEvents]
    /\ \A d \in Days : /\ dayFile[d] \subseteq OfDay(EventRows, d)
                       /\ checksum[d] \subseteq OfDay(EventRows, d)
    /\ nextSeq \in [StreamTasks -> 0..MaxEvents]
    /\ taskState \in [StreamTasks -> TerminalStatuses \cup {"running"}]
    /\ eventLog \in {"closed", "open", "refused"}
    /\ replaced \in BOOLEAN
    /\ faults \in 0..MaxFaults /\ today \in Days

\* Every number the bus gave out belongs to a row that is still in one of
\* the tiers, or was in a day file that went past the cold window: moving a
\* row from tier to tier never loses it, a failing write included.
NothingMislaid ==
    \A t \in StreamTasks : \A n \in 0..(nextSeq[t] - 1) :
        \E r \in live \cup archived \cup expired \cup UNION {dayFile[d] : d \in Days} :
            KeyOfRow(r) = <<t, n>>

\* A row is in the live table or behind it, never in both: the reader of a
\* task's timeline meets no event twice.
LiveOrArchived ==
    \A r \in live :
        /\ \A s \in archived \cup expired : KeyOfRow(s) # KeyOfRow(r)
        /\ \A d \in Days : \A s \in dayFile[d] : KeyOfRow(s) # KeyOfRow(r)

\* The live table is bounded: while the process runs, the rows of a task
\* that completed leave the table once all of them are past the window.
EndedTasksLeave ==
    \A t \in StreamTasks :
        (EndsTerminal(t) /\ taskState[t] = "completed" /\ OldRows(t) = RowsOf(live, t))
            ~> (RowsOf(live, t) = {} \/ eventLog # "open")

\* An event that was numbered is in one tier, and in one only.
RetentionInv == RetentionTypeOK /\ NothingMislaid /\ LiveOrArchived

-----------------------------------------------------------------------------
(***************************************************************************)
(* The event stream of one task: EventBus.emit stores an event and wakes   *)
(* the TaskStreamHub, which reads the store page by page and hands every   *)
(* row to the watchers that are behind it, over a WebSocket (stream.ts) or *)
(* as server-sent events (taskEventsSse.ts).  A watcher that comes back    *)
(* resumes after the last event it has.                                    *)
(*                                                                         *)
(* The drain of the hub is synchronous: while one is under way nothing     *)
(* else takes a step.  An event is its sequence number; a number whose row *)
(* could not be stored is missing from the store.                          *)
(***************************************************************************)
CONSTANTS Watchers, SocketWatchers,  \* who watches; the others read events
          HostOf,                    \* the address a watcher comes from
          PageSize,                  \* rows of one read of the hub
          MaxConnections,            \* WS_MAX_ and SSE_MAX_CONNECTIONS_PER_CLIENT
          MaxNumber,                 \* bound: events of the task
          MaxVisits                  \* bound: connections of one watcher

ASSUME StreamAssumption ==
    /\ SocketWatchers \subseteq Watchers /\ IsFiniteSet(Watchers)
    /\ PageSize \in Nat \ {0}
    /\ {MaxConnections, MaxNumber, MaxVisits} \subseteq Nat

VARIABLES emitted,    \* numbers the bus has given out
          stored,     \* numbers whose row is in task_events
          lastEvent,  \* the event that ends the task, or NoEvent
          visit,      \* state of a watcher's connection
          place,      \* cursor the hub keeps of a watcher
          received,   \* numbers that went out to a watcher, over all its visits
          visits,     \* connections a watcher has made
          slots,      \* connection counters: sockets, by address
          streams,    \* connection counters: event streams, by address
          wired,      \* whether the hub is subscribed to the bus
          draining    \* whether the hub is in its drain loop

streamVars == <<emitted, stored, lastEvent, visit, place, received, visits,
                slots, streams, wired, draining>>

Hosts == {HostOf[w] : w \in Watchers}
NoEvent == -1
Before == -1   \* EARLIEST_CURSOR

\* Watchers the hub holds.  A socket that is being closed is held until its
\* 'close' event, though nothing is sent to it any more.
Attached == {w \in Watchers : visit[w] \in {"live", "closing"}}

\* The cursor a returning watcher sends.
ResumeFrom(w) == IF received[w] = <<>> THEN Before ELSE Last(received[w])

-----------------------------------------------------------------------------
(* The bus.                                                                *)

\* The recorder stores the row first; if that throws, the error is logged
\* and the hub is woken all the same.
EmitEvent(ends) ==
    /\ ~draining
    /\ emitted < MaxNumber
    /\ lastEvent = NoEvent
    /\ emitted' = emitted + 1
    /\ lastEvent' = IF ends THEN emitted ELSE NoEvent
    /\ \/ stored' = stored \cup {emitted}
       \/ UNCHANGED stored
    /\ draining' = (wired /\ Attached # {})
    /\ UNCHANGED <<visit, place, received, visits, slots, streams, wired>>

-----------------------------------------------------------------------------
(* The hub.                                                                *)

\* Mutant: the page is read from the cursor of the watcher furthest ahead.
MutantReadFrom == CHOOSE n \in {place[w] : w \in Attached} :
                      \A w \in Attached : place[w] <= n

\* The slowest cursor, so that one read serves everyone.
ReadFrom == CHOOSE n \in {place[w] : w \in Attached} :
                \A w \in Attached : n <= place[w]

\* Where the rows read so far end.
Through(rows) == IF rows = <<>> THEN ReadFrom ELSE Last(rows)

\* listByTaskSince with a limit: the oldest rows after the cursor.
Page ==
    LET rows[i \in 0 .. PageSize] ==
          IF i = 0 THEN <<>>
          ELSE LET left == {n \in stored : n > Through(rows[i - 1])}
               IN  IF left = {} THEN rows[i - 1] ELSE Append(rows[i - 1], Min(left))
    IN  IF Attached = {} THEN <<>> ELSE rows[PageSize]

\* Rows of the page the watcher is behind.
RowsPast(page, n) ==
    LET rows[i \in 0 .. Len(page)] ==
          IF i = 0 THEN <<>>
          ELSE IF page[i] > n THEN Append(rows[i - 1], page[i]) ELSE rows[i - 1]
    IN  rows[Len(page)]
Due(w) == RowsPast(Page, place[w])

\* What goes out of the rows due to a watcher.  A socket that is not open
\* gets nothing.  A reader of events takes rows until its buffer is past
\* the high-water mark and loses the rest; it takes none after the last.
Taken(w) ==
    IF visit[w] = "closing" THEN {<<>>}
    ELSE IF w \in SocketWatchers THEN {Due(w)}
    ELSE {SubSeq(Due(w), 1, k) : k \in 0..Len(Due(w))}

Ends(rows) == \E i \in DOMAIN rows : rows[i] = lastEvent

\* drainOnce: every watcher that is behind is brought to the end of the
\* page, and a reader that got the last event is cleaned up.  A page that is
\* short ends the loop.
DrainPage ==
    /\ draining
    /\ \E out \in [Attached -> UNION {Taken(w) : w \in Attached}] :
         LET done == {w \in Attached \ SocketWatchers : Ends(out[w])}
         IN  /\ \A w \in Attached : out[w] \in Taken(w)
             /\ received' = [w \in Watchers |-> IF w \in Attached THEN received[w] \o out[w]
                                                                 ELSE received[w]]
             /\ place' = [w \in Watchers |-> IF w \in Attached /\ Due(w) # <<>>
                                             THEN Last(Due(w)) ELSE place[w]]
             /\ visit' = [w \in Watchers |-> IF w \in done THEN "gone" ELSE visit[w]]
             /\ streams' = [h \in Hosts |->
                              streams[h] - Cardinality({w \in done : HostOf[w] = h})]
             /\ wired' = (wired /\ Attached \ done # {})
    /\ draining' = (Len(Page) = PageSize)
    /\ UNCHANGED <<emitted, stored, lastEvent, visits, slots>>

\* TaskStreamHub.subscribe, and the flush that follows it.
Attach(w) ==
    /\ visit' = [visit EXCEPT ![w] = "live"]
    /\ place' = [place EXCEPT ![w] = ResumeFrom(w)]
    /\ wired' = TRUE
    /\ draining' = TRUE

\* The function subscribe returned: the last watcher to go takes the bus
\* subscription with it.
StillWired(w) == wired /\ Attached \ {w} # {}

-----------------------------------------------------------------------------
(* Sockets.                                                                *)

\* An upgrade request, refused at the limit of the address.
Upgrade(w) ==
    /\ ~draining
    /\ visit[w] = "gone" /\ visits[w] < MaxVisits
    /\ slots[HostOf[w]] < MaxConnections
    /\ slots' = [slots EXCEPT ![HostOf[w]] = @ + 1]
    /\ visit' = [visit EXCEPT ![w] = "challenged"]
    /\ visits' = [visits EXCEPT ![w] = @ + 1]
    /\ UNCHANGED <<emitted, stored, lastEvent, place, received, streams, wired, draining>>

\* completeAuth.
Authenticate(w) ==
    /\ ~draining
    /\ visit[w] = "challenged"
    /\ Attach(w)
    /\ UNCHANGED <<emitted, stored, lastEvent, received, visits, slots, streams>>

\* releaseConnection: nothing to do where the address has no tracker.
SlotReturned(h) == IF slots[h] = 0 THEN slots ELSE [slots EXCEPT ![h] = @ - 1]

\* The server closes a socket: no pong, no message for long, too many.
CloseSocket(w) ==
    /\ ~draining
    /\ w \in SocketWatchers /\ visit[w] = "live"
    /\ visit' = [visit EXCEPT ![w] = "closing"]
    /\ UNCHANGED <<emitted, stored, lastEvent, place, received, visits, slots,
                   streams, wired, draining>>

\* cleanup on 'close' (the challenge not answered in time, the client or the
\* server closing, or the connection lost), or, first, on 'error'.
SocketEvent(w) ==
    /\ ~draining
    /\ w \in SocketWatchers
    /\ \/ /\ visit[w] \in {"challenged", "live", "closing"}
          /\ visit' = [visit EXCEPT ![w] = "gone"]
       \/ /\ visit[w] \in {"challenged", "live", "closing"}
          /\ visit' = [visit EXCEPT ![w] = "failed"]
       \/ /\ visit[w] = "failed"
          /\ visit' = [visit EXCEPT ![w] = "gone"]
    /\ slots' = SlotReturned(HostOf[w])
    /\ wired' = IF w \in Attached THEN StillWired(w) ELSE wired
    /\ UNCHANGED <<emitted, stored, lastEvent, place, received, visits, streams, draining>>

-----------------------------------------------------------------------------
(* Readers of server-sent events.                                          *)

OpenStream(w) ==
    /\ ~draining
    /\ visit[w] = "gone" /\ visits[w] < MaxVisits
    /\ streams[HostOf[w]] < MaxConnections
    /\ streams' = [streams EXCEPT ![HostOf[w]] = @ + 1]
    /\ visits' = [visits EXCEPT ![w] = @ + 1]
    /\ Attach(w)
    /\ UNCHANGED <<emitted, stored, lastEvent, received, slots>>

\* The request closes, or nothing was accepted for too long.
CloseStream(w) ==
    /\ ~draining
    /\ w \notin SocketWatchers /\ visit[w] = "live"
    /\ visit' = [visit EXCEPT ![w] = "gone"]
    /\ streams' = [streams EXCEPT ![HostOf[w]] = @ - 1]
    /\ wired' = StillWired(w)
    /\ UNCHANGED <<emitted, stored, lastEvent, place, received, visits, slots, draining>>

-----------------------------------------------------------------------------
StreamInit ==
    /\ emitted = 0 /\ stored = {} /\ lastEvent = NoEvent
    /\ visit = [w \in Watchers |-> "gone"]
    /\ place = [w \in Watchers |-> Before]
    /\ received = [w \in Watchers |-> <<>>]
    /\ visits = [w \in Watchers |-> 0]
    /\ slots = [h \in Hosts |-> 0] /\ streams = [h \in Hosts |-> 0]
    /\ wired = FALSE /\ draining = FALSE

StreamNext ==
    \/ \E ends \in BOOLEAN : EmitEvent(ends)
    \/ DrainPage
    \/ \E w \in SocketWatchers : \/ Upgrade(w) \/ Authenticate(w)
                                 \/ CloseSocket(w) \/ SocketEvent(w)
    \/ \E w \in Watchers \ SocketWatchers : OpenStream(w) \/ CloseStream(w)

StreamSpec == StreamInit /\ [][StreamNext]_streamVars

-----------------------------------------------------------------------------
(* Properties.                                                             *)

\* Every variable keeps to its type.
StreamTypeOK ==
    /\ emitted \in 0..MaxNumber /\ stored \subseteq 0..(MaxNumber - 1)
    /\ lastEvent \in NoEvent..(MaxNumber - 1)
    /\ visit \in [Watchers -> {"gone", "challenged", "live", "closing", "failed"}]
    /\ place \in [Watchers -> Before..(MaxNumber - 1)]
    /\ \A w \in Watchers : received[w] \in Seq(0..(MaxNumber - 1))
    /\ visits \in [Watchers -> 0..MaxVisits]
    /\ slots \in [Hosts -> 0..MaxConnections]
    /\ streams \in [Hosts -> 0..MaxConnections]
    /\ wired \in BOOLEAN /\ draining \in BOOLEAN

\* Over all its visits a socket watcher gets every stored event once and in
\* order, up to the newest while it is connected and the hub is at rest,
\* whatever pages the reads come in and whoever else is watching.
SocketsMissNothing ==
    \A w \in SocketWatchers :
        LET upTo == IF visit[w] = "live" /\ ~draining THEN MaxNumber ELSE ResumeFrom(w)
        IN  /\ Range(received[w]) = {n \in stored : n <= upTo}
            /\ \A i, j \in DOMAIN received[w] : i < j => received[w][i] < received[w][j]

\* The hub listens to the bus exactly while it holds a watcher.
WiredWhileWatched == wired <=> Attached # {}

\* Watchers of a task meet its events once and in order, for as long as one watches.
StreamInv == StreamTypeOK /\ SocketsMissNothing /\ WiredWhileWatched

\* What the bus numbered reaches its readers once and in order, and leaves the live table
\* only for a tier that can give it back.
EventsInv == RetentionInv /\ StreamInv
=============================================================================
