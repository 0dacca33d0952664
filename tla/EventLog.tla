------------------------------ MODULE EventLog ------------------------------
(***************************************************************************)
(* What is told of a run by its events alone: the bus and the store        *)
(* (src/backend/src/coordinator/eventBus.ts, events/eventStore.ts), the    *)
(* schemas (events/eventTypes.ts, schemaRegistry.ts), the replay of a task *)
(* (events/replay.ts), the projections (events/projection.ts) and the      *)
(* summaries that stay when the rows are archived (events/eventArchive.ts).*)
(*                                                                         *)
(* One task is followed, over the runs that its job is given.  Of a        *)
(* payload the model keeps whether it has its fields, is an empty object   *)
(* or is missing.                                                          *)
(***************************************************************************)
EXTENDS Integers, Sequences, FiniteSets, SequencesExt

CONSTANTS LogNodes,     \* nodes of the task
          PageSize,     \* limit of one read
          MaxPages,     \* bound on a client's reads
          MaxRuns,      \* bound on runs of the task
          LastInstant   \* bound on the clock

ASSUME EventLogAssumption == PageSize \in Nat \ {0} /\ MaxPages \in Nat /\ MaxRuns \in Nat /\ LastInstant \in Nat

VARIABLES logged,    \* the rows of task_events
          folded,    \* the state that was kept current with each event
          node,      \* node[n]: the coordinator's status of n
          settledPay, \* settledPay[n]: what became of n's payment
          payFault,  \* the run is among paymentFailedTasks
          task,      \* status of the task
          ran,       \* runs so far
          instant,   \* the clock
          pager      \* a client that reads the log in pages

logVars == <<logged, folded, node, settledPay, payFault, task, ran, instant, pager>>

NodeTypes     == {"NodeStarted", "NodeCompleted", "NodeFailed", "PaymentLocked", "PaymentReleased"}
TaskTypes     == {"TaskCreated", "TaskCompleted", "TaskFailed"}
Bodies        == {"fields", "empty", "absent"}
CurrentVersion == 2
NoNode        == "none"
NotYet        == -1

\* initial state of a replay, and of one of its nodes
UnseenNode == [status |-> "none", started |-> NotYet, settled |-> NotYet, paid |-> FALSE]
Unseen == [status |-> "unknown", last |-> NotYet, count |-> 0, over |-> NotYet,
           nodes |-> [n \in LogNodes |-> UnseenNode]]
NoReader == [cursor |-> NotYet, got |-> <<>>]

LogTypeOK ==
  /\ \A i \in 1 .. Len(logged) :
       logged[i] \in [type : NodeTypes \cup TaskTypes, node : LogNodes \cup {NoNode},
                      seq : Nat, at : 0 .. LastInstant, version : 1 .. CurrentVersion, body : Bodies]
  /\ node \in [LogNodes -> {"pending", "running", "completed", "failed"}] 
  /\ settledPay \in [LogNodes -> {"held", "released", "fault"}]
  /\ payFault \in BOOLEAN /\ task \in {"running", "completed", "failed", "payment_failed"}
  /\ ran \in 1 .. MaxRuns + 1 /\ instant \in 0 .. LastInstant

LogInit ==
  /\ logged = <<>> /\ folded = Unseen /\ pager = NoReader
  /\ node = [n \in LogNodes |-> "pending"] /\ settledPay = [n \in LogNodes |-> "held"] /\ payFault = FALSE
  /\ task = "running" /\ ran = 1 /\ instant = 0

-----------------------------------------------------------------------------
(***************************************************************************)
(* Schemas.                                                                *)
(***************************************************************************)
\* The payloads of version 1: what must have its fields, and be there.
ValidV1(e) ==
  /\ e.type \in {"TaskCreated", "NodeStarted", "NodeFailed", "PaymentLocked", "PaymentReleased"} => e.body = "fields"
  /\ e.type = "NodeCompleted" => e.body # "absent"

\* Version 2 adds fields that may be missing, and wants a failure's payload.
ValidV2(e) == ValidV1(e) /\ (e.type = "TaskFailed" => e.body # "absent")

\* validateEvent
Valid(e) == e.version \in 1 .. CurrentVersion /\ IF e.version = 1 THEN ValidV1(e) ELSE ValidV2(e)

\* migrateEvent: the number, and nothing else; never downwards.
Migrated(e, version) == IF version < e.version THEN e ELSE [e EXCEPT !.version = version]

-----------------------------------------------------------------------------
(***************************************************************************)
(* Replay.                                                                 *)
(***************************************************************************)

EndedWith(s, e, status) == [s EXCEPT !.status = status, !.over = e.at]

\* ensureNode, and what is set of the node.
NodeIs(s, n, status, started, settled) ==
  [s EXCEPT !.nodes[n] = [@ EXCEPT !.status = status, !.started = started, !.settled = settled]]

\* applyEvent
ApplyEvent(was, e) ==
  LET s == [was EXCEPT !.count = @ + 1, !.last = IF e.seq > @ THEN e.seq ELSE @]
      n == IF e.node = NoNode THEN UnseenNode ELSE s.nodes[e.node]
      known == [s EXCEPT !.nodes[e.node].status = IF @ = "none" THEN "pending" ELSE @] IN
  CASE e.type = "TaskCreated"     -> [s EXCEPT !.status = "queued"]
    [] e.type = "NodeStarted"     -> [NodeIs(s, e.node, "running", e.at, n.settled)
                                        EXCEPT !.status = IF @ = "queued" THEN "running" ELSE @]
    [] e.type = "NodeCompleted"   -> NodeIs(s, e.node, "completed", n.started, e.at)
    [] e.type = "NodeFailed"      -> NodeIs(s, e.node, "failed", n.started, e.at)
    [] e.type = "PaymentReleased" -> [known EXCEPT !.nodes[e.node].paid = TRUE]
    [] e.type = "PaymentLocked"   -> known
    [] e.type = "TaskCompleted"   -> EndedWith(s, e, "completed")
    [] e.type = "TaskFailed"      -> EndedWith(s, e, "failed")
    [] OTHER -> s

\* replayTask
ReplayTask(events) == FoldLeft(ApplyEvent, Unseen, events)

\* replayTaskUpTo
ReplayUpTo(events, seq) == ReplayTask(SelectSeq(events, LAMBDA e : e.seq <= seq))

-----------------------------------------------------------------------------
(***************************************************************************)
(* Projections and summaries.                                              *)
(***************************************************************************)
CountOf(events, type) == Cardinality({i \in 1 .. Len(events) : events[i].type = type})

LastOf(events, types) ==
  LET of == {i \in 1 .. Len(events) : events[i].type \in types} IN
  IF of = {} THEN 0 ELSE CHOOSE i \in of : \A j \in of : j <= i

\* projectTaskSummary
TaskSummary(events) ==
  LET last == LastOf(events, {"TaskCreated", "NodeStarted", "TaskCompleted", "TaskFailed"}) IN
  [status |-> IF last = 0 \/ events[last].type = "TaskCreated" THEN "queued"
              ELSE IF events[last].type = "NodeStarted" THEN "running"
              ELSE IF events[last].type = "TaskCompleted" THEN "completed" ELSE "failed",
   nodes |-> CountOf(events, "NodeStarted"),
   completed |-> CountOf(events, "NodeCompleted"), failed |-> CountOf(events, "NodeFailed")]

\* projectNodeTimeline: the entry of a node.
TimelineEntry(events, n) ==
  LET own == SelectSeq(events, LAMBDA e : e.node = n)
      last == LastOf(own, {"NodeStarted", "NodeCompleted", "NodeFailed"})
      from == LastOf(own, {"NodeStarted"})
      to   == LastOf(own, {"NodeCompleted", "NodeFailed"}) IN
  [status  |-> IF last = 0 THEN "pending"
               ELSE CASE own[last].type = "NodeStarted" -> "running"
                      [] own[last].type = "NodeCompleted" -> "completed"
                      [] own[last].type = "NodeFailed" -> "failed",
   started |-> IF from = 0 THEN NotYet ELSE own[from].at,
   settled |-> IF to = 0 THEN NotYet ELSE own[to].at]

\* projectPaymentLedger: a release without its lock gets an entry too.
PaymentLedger(events) == [n \in {events[i].node : i \in {j \in 1 .. Len(events) :
                                   events[j].type \in {"PaymentLocked", "PaymentReleased"}}} |->
  LET own == SelectSeq(events, LAMBDA e : e.node = n /\ e.type \in {"PaymentLocked", "PaymentReleased"}) IN
  IF own[Len(own)].type = "PaymentLocked" THEN "locked" ELSE "released"]

\* projectThroughput
Throughput(events) ==
  [total |-> Len(events),
   completed |-> CountOf(events, "TaskCompleted"), failed |-> CountOf(events, "TaskFailed"),
   byType |-> [type \in {events[i].type : i \in 1 .. Len(events)} |-> CountOf(events, type)]]

\* The row that compactTask leaves for a node, or for the task.
SummaryRow(events, n) ==
  LET own == SelectSeq(events, LAMBDA e : e.node = n) IN
  [events |-> Len(own), byType |-> [type \in NodeTypes \cup TaskTypes |-> CountOf(own, type)],
   duration |-> IF own = <<>> THEN 0 ELSE own[Len(own)].at - own[1].at,
   final |-> IF own = <<>> THEN NotYet ELSE own[Len(own)].seq]

-----------------------------------------------------------------------------
(***************************************************************************)
(* The run.                                                                *)
(***************************************************************************)
\* dagEventToAppEvent: a node's event has an object at least.
BodyOf(n, payload) == IF n # NoNode /\ payload = "absent" THEN "empty" ELSE payload

\* emit: stamped, stored, and handed to the subscribers, in this order.
EmitLogged(type, n, payload) ==
  LET e == [type |-> type, node |-> n, seq |-> Len(logged), at |-> instant, version |-> CurrentVersion,
            body |-> BodyOf(n, payload)] IN
  /\ logged' = Append(logged, e)
  /\ folded' = ApplyEvent(folded, e)

StartLogged(n) ==
  /\ task = "running" /\ node[n] = "pending"
  /\ node' = [node EXCEPT ![n] = "running"]
  /\ EmitLogged("NodeStarted", n, "absent")
  /\ UNCHANGED <<settledPay, payFault, task, ran, instant, pager>>

CompleteLogged(n) ==
  /\ node[n] = "running"
  /\ node' = [node EXCEPT ![n] = "completed"]
  /\ EmitLogged("NodeCompleted", n, "fields")
  /\ UNCHANGED <<settledPay, payFault, task, ran, instant, pager>>

\* A node that failed, or that never started because of one.
FailLogged(n) ==
  /\ task = "running" /\ node[n] \in {"pending", "running"}
  /\ node[n] = "pending" => \E m \in LogNodes : node[m] = "failed"
  /\ node' = [node EXCEPT ![n] = "failed"]
  /\ EmitLogged("NodeFailed", n, "fields")
  /\ UNCHANGED <<settledPay, payFault, task, ran, instant, pager>>

\* The release of a completed node's payment, or its failure.
ReleaseLogged(n) ==
  /\ task = "running" /\ node[n] = "completed" /\ settledPay[n] = "held"
  /\ \/ /\ settledPay' = [settledPay EXCEPT ![n] = "released"] /\ UNCHANGED payFault
        /\ EmitLogged("PaymentReleased", n, "fields")
     \/ /\ settledPay' = [settledPay EXCEPT ![n] = "fault"] /\ payFault' = TRUE
        /\ UNCHANGED <<logged, folded>>
  /\ UNCHANGED <<node, task, ran, instant, pager>>

\* finishIfSettled: payment faults tell only when every node has completed.
EndLogged ==
  /\ task = "running" /\ \A n \in LogNodes : node[n] \in {"completed", "failed"}
  /\ \A n \in LogNodes : node[n] = "completed" => settledPay[n] # "held"
  /\ task' = IF \E n \in LogNodes : node[n] = "failed" THEN "failed"
             ELSE IF payFault THEN "payment_failed" ELSE "completed"
  /\ EmitLogged(IF task' = "completed" THEN "TaskCompleted" ELSE "TaskFailed", NoNode, "absent")
  /\ payFault' = FALSE
  /\ UNCHANGED <<node, settledPay, ran, instant, pager>>

\* The job of a failed task is tried again: its failed nodes wait anew, and a
\* release that failed is not tried again.
RerunLogged ==
  /\ task = "failed" /\ ran <= MaxRuns
  /\ task' = "running" /\ ran' = ran + 1
  /\ node' = [n \in LogNodes |-> IF node[n] = "failed" THEN "pending" ELSE node[n]]
  /\ payFault' = FALSE
  /\ UNCHANGED <<logged, folded, settledPay, instant, pager>>

InstantPasses ==
  /\ instant < LastInstant /\ instant' = instant + 1
  /\ UNCHANGED <<logged, folded, node, settledPay, payFault, task, ran, pager>>

\* listByTaskSince with a limit.
ReadPage ==
  LET rest == SelectSeq(logged, LAMBDA e : e.seq > pager.cursor)
      page == SubSeq(rest, 1, IF Len(rest) < PageSize THEN Len(rest) ELSE PageSize) IN
  /\ page # <<>> /\ Len(pager.got) < PageSize * MaxPages
  /\ pager' = [cursor |-> page[Len(page)].seq, got |-> pager.got \o page]
  /\ UNCHANGED <<logged, folded, node, settledPay, payFault, task, ran, instant>>

LogNext ==
  \/ EndLogged \/ RerunLogged \/ InstantPasses \/ ReadPage
  \/ \E n \in LogNodes : StartLogged(n) \/ CompleteLogged(n) \/ FailLogged(n) \/ ReleaseLogged(n)
LogSpec == LogInit /\ [][LogNext]_logVars

-----------------------------------------------------------------------------
\* The state a task had at an event is the state replayed of the rows up to
\* that one: numbers follow the rows' order whatever run emitted them.
PrefixesAreStates == \A i \in 0 .. Len(logged) : ReplayUpTo(logged, i - 1) = ReplayTask(SubSeq(logged, 1, i))

\* What is replayed of a node is what the coordinator held of it; only a node
\* that waits for the next run still reads as failed.
ReplayFindsNodes ==
  /\ folded = ReplayTask(logged)
  /\ \A n \in LogNodes :
       LET told == folded.nodes[n] IN
       /\ node[n] = "pending" => told.status = "none" \/ (told.status = "failed" /\ ran > 1)
       /\ node[n] # "pending" => told.status = node[n]
       /\ told.paid <=> settledPay[n] = "released"
       /\ told.paid => told.status = "completed"

\* The end of a run is told by the replay and by the summary alike, and the
\* earlier run's end never hides a later one.
EndIsTold ==
  /\ task # "running" =>
       LET end == IF task = "completed" THEN "completed" ELSE "failed" IN
       folded.status = end /\ TaskSummary(logged).status = end
  /\ task = "completed" => \A n \in LogNodes : folded.nodes[n].status = "completed"

\* The projections, each with a fold of its own, agree with the replay and with
\* each other: of a node's state and times, of payments and of counts.
ProjectionsAgree ==
  /\ \A n \in LogNodes :
       LET told == folded.nodes[n]
           entry == TimelineEntry(logged, n) IN
       /\ entry.status = (IF told.status = "none" THEN "pending" ELSE told.status)
       /\ entry.started = told.started /\ entry.settled = told.settled
       /\ entry.status = "completed" /\ entry.started # NotYet => entry.started <= entry.settled
       /\ n \in DOMAIN PaymentLedger(logged) <=> told.paid
       /\ SummaryRow(logged, n).duration <= instant
  /\ TaskSummary(logged).completed = Cardinality({n \in LogNodes : node[n] = "completed"})
  /\ FoldFunction(+, 0, [n \in LogNodes \cup {NoNode} |-> SummaryRow(logged, n).events])
       = Throughput(logged).total

\* A client that asks for what follows its cursor, a page at a time, gets every
\* row once and in order while rows are added.
PagesAreWhole == IsPrefix(pager.got, logged)

EventLogInv == LogTypeOK /\ PrefixesAreStates /\ ReplayFindsNodes /\ EndIsTold /\ ProjectionsAgree /\ PagesAreWhole

\* dagEventToAppEvent: emitted events pass the schema of their version.
EmittedEventsAreValid == \A i \in 1 .. Len(logged) : Valid(logged[i])

\* schemaRegistry.ts, migrateEvent: "New fields are optional, so no data
\* transformation is needed": an event of version 1 that was valid stays so.
MigrationKeepsValidity ==
  \A i \in 1 .. Len(logged) :
    LET old == [logged[i] EXCEPT !.version = 1] IN Valid(old) => Valid(Migrated(old, CurrentVersion))
=============================================================================
