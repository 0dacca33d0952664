----------------------------- MODULE TaskLedger -----------------------------
(***************************************************************************)
(* The task store contract                                                 *)
(* (src/smart-contracts/contracts/task_store/src/lib.rs): a task is        *)
(* recorded on chain by create_task ("life"), which keeps a budget, or by  *)
(* store_task_metadata ("dag"), which quotes a price from the oracle       *)
(* manager.  Each keeps a record of its own, the version history and the   *)
(* creator of a task id are shared by both.                                *)
(*                                                                         *)
(* The price oracle and the oracle manager                                 *)
(* (src/smart-contracts/contracts/price_oracle, oracle_manager): the       *)
(* admin of the feed submits observations with the time they were made,    *)
(* the manager resolves a price from the feed while it is fresh and from   *)
(* an admin's fallback otherwise.  One asset pair.                         *)
(***************************************************************************)
EXTENDS Naturals, Sequences

CONSTANTS Prices, MaxAges, FirstMaxAge,
          PriceEnd        \* bound on the ledger's time

ASSUME PriceAssumption ==
  /\ Prices \subseteq Nat \ {0} /\ MaxAges \subseteq Nat \ {0}
  /\ FirstMaxAge \in MaxAges /\ PriceEnd \in Nat

VARIABLES entry,          \* the PriceEntry of the pair
          maxAge, feedPaused,
          feedSet,        \* whether the manager has an oracle address
          fallback,       \* the admin's price, 0 when there is none
          managerPaused,
          priceTime       \* the ledger's time

feedVars == <<entry, maxAge, feedPaused>>
managerVars == <<feedSet, fallback, managerPaused>>

NoEntry == [price |-> 0, at |-> 0]

FeedTypeOK ==
  /\ entry \in [price : Prices \cup {0}, at : 0 .. PriceEnd]
  /\ maxAge \in MaxAges /\ fallback \in Prices \cup {0}
  /\ {feedPaused, feedSet, managerPaused} \subseteq BOOLEAN
  /\ priceTime \in 0 .. PriceEnd

FeedInit ==
  /\ entry = NoEntry /\ maxAge = FirstMaxAge /\ feedPaused = FALSE
  /\ feedSet = TRUE /\ fallback = 0 /\ managerPaused = FALSE
  /\ priceTime = 0

-----------------------------------------------------------------------------
\* Any observation not of the future replaces the one there is.
SubmitPrice(price, at) ==
  /\ ~feedPaused /\ at <= priceTime
  /\ entry' = [price |-> price, at |-> at]
  /\ UNCHANGED <<maxAge, feedPaused, priceTime>> /\ UNCHANGED managerVars

SetMaxPriceAge(age) ==
  /\ ~feedPaused
  /\ maxAge' = age
  /\ UNCHANGED <<entry, feedPaused, priceTime>> /\ UNCHANGED managerVars

PauseFeed ==
  /\ feedPaused' = ~feedPaused
  /\ UNCHANGED <<entry, maxAge, priceTime>> /\ UNCHANGED managerVars

\* Mutant: the age of a price is not looked at.
MutantFresh == TRUE

Fresh == priceTime - entry.at <= maxAge

\* get_price, as try_oracle_get_price reads its result: a paused feed, a missing and a
\* stale price are all a failure.
FeedAnswers == ~feedPaused /\ entry # NoEntry /\ Fresh

-----------------------------------------------------------------------------
SetOracle ==
  /\ ~managerPaused
  /\ feedSet' = ~feedSet
  /\ UNCHANGED <<fallback, managerPaused, priceTime>> /\ UNCHANGED feedVars

SetFallbackPrice(price) ==
  /\ ~managerPaused
  /\ fallback' = price
  /\ UNCHANGED <<feedSet, managerPaused, priceTime>> /\ UNCHANGED feedVars

PauseManager ==
  /\ managerPaused' = ~managerPaused
  /\ UNCHANGED <<feedSet, fallback, priceTime>> /\ UNCHANGED feedVars

\* The sources a price may come from, and what they say.
Resolved ==
  IF managerPaused THEN {}
  ELSE IF feedSet /\ FeedAnswers
       THEN {[source |-> "oracle", price |-> entry.price, at |-> entry.at]}
       ELSE IF fallback # 0
            THEN {[source |-> "fallback", price |-> fallback, at |-> priceTime]} ELSE {}

PriceTick ==
  /\ priceTime < PriceEnd /\ priceTime' = priceTime + 1
  /\ UNCHANGED feedVars /\ UNCHANGED managerVars

PriceStep ==
  \/ \E price \in Prices : \/ SetFallbackPrice(price)
                           \/ \E at \in 0 .. PriceEnd : SubmitPrice(price, at)
  \/ \E age \in MaxAges : SetMaxPriceAge(age)
  \/ PauseFeed \/ SetOracle \/ PauseManager

-----------------------------------------------------------------------------
CONSTANTS LedgerTasks, Accounts, Coordinator, AssignedAgent,
          MaxHistory,       \* MAX_HISTORY_RECORDS
          TaskTtl           \* the retention window, in ticks

ASSUME TaskLedgerAssumption ==
  /\ {Coordinator, AssignedAgent} \cap Accounts = {}
  /\ MaxHistory \in Nat /\ TaskTtl \in Nat
  \* MAX_HISTORY_RECORDS is 8: the most statuses that both paths of a task pass through.
  /\ MaxHistory >= 8

VARIABLES onChain,          \* onChain[t][path]: the TaskRecord or TaskMetadata
          history,          \* history[t]: TaskHistory, with the path that wrote each
          creatorOf,        \* creatorOf[t]: TaskCreator
          managerSet,       \* whether the store has an oracle manager
          storePaused

storeVars == <<onChain, history, creatorOf, managerSet, storePaused>>
taskLedgerVars == <<storeVars, feedVars, managerVars, priceTime>>

Paths == {"life", "dag"}
Settled == {"completed", "failed", "cancelled"}
Statuses == {"created", "queued", "assigned", "running"} \cup Settled
NoQuote == [source |-> "none", price |-> 0, at |-> 0]
NotOnChain == [status |-> "none", by |-> Coordinator, since |-> 0, version |-> 0, quote |-> NoQuote]

Quotes == [source : {"none", "oracle", "fallback"}, price : Prices \cup {0}, at : 0 .. PriceEnd]
LedgerRecords == [status : Statuses \cup {"none"}, by : Accounts \cup {Coordinator},
                  since : 0 .. PriceEnd, version : 0 .. MaxHistory, quote : Quotes]

TaskLedgerTypeOK ==
  /\ FeedTypeOK
  /\ onChain \in [LedgerTasks -> [Paths -> LedgerRecords]]
  /\ history \in [LedgerTasks -> Seq(Paths \X Statuses)]
  /\ \A t \in LedgerTasks : Len(history[t]) <= MaxHistory
  /\ creatorOf \in [LedgerTasks -> Accounts \cup {Coordinator}]
  /\ {managerSet, storePaused} \subseteq BOOLEAN

TaskLedgerInit ==
  /\ FeedInit
  /\ onChain = [t \in LedgerTasks |-> [path \in Paths |-> NotOnChain]]
  /\ history = [t \in LedgerTasks |-> <<>>]
  /\ creatorOf = [t \in LedgerTasks |-> Coordinator]
  /\ managerSet = TRUE /\ storePaused = FALSE

-----------------------------------------------------------------------------
\* Mutant: a failed task can be queued again.
MutantSuccessors(from) ==
  CASE from = "created" -> {"queued", "assigned", "cancelled", "failed"}
    [] from = "queued" -> {"assigned", "running", "cancelled", "failed"}
    [] from = "assigned" -> {"running", "cancelled", "failed"}
    [] from = "running" -> {"completed", "failed", "cancelled"}
    [] from = "failed" -> {"queued"}
    [] OTHER -> {}

\* can_transition.
Successors(from) ==
  CASE from = "created" -> {"queued", "assigned", "cancelled", "failed"}
    [] from = "queued" -> {"assigned", "running", "cancelled", "failed"}
    [] from = "assigned" -> {"running", "cancelled", "failed"}
    [] from = "running" -> {"completed", "failed", "cancelled"}
    [] OTHER -> {}

\* ALLOWED_TASK_TRANSITIONS, the table that clients of the SDK decide by.
CanTransition(from, to) ==
  /\ from \notin Settled
  /\ \/ to \in {"failed", "cancelled"}
     \/ to = "queued" /\ from = "created"
     \/ to = "assigned" /\ from \in {"created", "queued"}
     \/ to = "running" /\ from \in {"queued", "assigned"}
     \/ to = "completed" /\ from = "running"

\* A history at its limit is left as it is.
AppendVersion(t, path, status) ==
  history' = [history EXCEPT ![t] =
                IF Len(@) >= MaxHistory THEN @ ELSE Append(@, <<path, status>>)]

Version(t) == Len(history[t])'
Ongoing == UNCHANGED <<managerSet, storePaused, priceTime>> /\ UNCHANGED feedVars /\ UNCHANGED managerVars

Recorded(t, path, by, status, quote) ==
  /\ ~storePaused
  /\ onChain[t][path] = NotOnChain
  /\ creatorOf' = [creatorOf EXCEPT ![t] = by]
  /\ AppendVersion(t, path, status)
  /\ onChain' = [onChain EXCEPT ![t][path] =
       [status |-> status, by |-> by, since |-> priceTime, version |-> Version(t), quote |-> quote]]
  /\ Ongoing

CreateTask(t, by) == Recorded(t, "life", by, "created", NoQuote)

\* With an oracle manager the price is mandatory.
StoreTaskMetadata(t, by) ==
  \E quote \in IF managerSet THEN Resolved ELSE {NoQuote} :
    Recorded(t, "dag", by, "assigned", quote)

Live(t, path) == onChain[t][path] # NotOnChain /\ priceTime < onChain[t][path].since + TaskTtl

\* ensure_can_update: the dag path goes by the shared creator and its assigned agents.
Updaters(t, path) ==
  {Coordinator} \cup (IF path = "dag" THEN {creatorOf[t], AssignedAgent} ELSE {onChain[t][path].by})

UpdateStatus(t, path, by, status) ==
  /\ ~storePaused
  /\ Live(t, path)
  /\ by \in Updaters(t, path)
  /\ status \in Successors(onChain[t][path].status)
  /\ AppendVersion(t, path, status)
  /\ onChain' = [onChain EXCEPT ![t][path].status = status,
                                ![t][path].version = IF path = "life" THEN Version(t) ELSE @]
  /\ UNCHANGED creatorOf /\ Ongoing

SetOracleManager ==
  /\ managerSet' = ~managerSet
  /\ UNCHANGED <<onChain, history, creatorOf, storePaused, priceTime>>
  /\ UNCHANGED feedVars /\ UNCHANGED managerVars

PauseStore ==
  /\ storePaused' = ~storePaused
  /\ UNCHANGED <<onChain, history, creatorOf, managerSet, priceTime>>
  /\ UNCHANGED feedVars /\ UNCHANGED managerVars

\* What TaskStoreSDK calls, for either kind of task.
BudgetTaskCalls(t) ==
  \/ \E by \in Accounts : CreateTask(t, by)
  \/ \E by \in Accounts \cup {Coordinator, AssignedAgent}, status \in Statuses : UpdateStatus(t, "life", by, status)
DagTaskCalls(t) ==
  \/ \E by \in Accounts : StoreTaskMetadata(t, by)
  \/ \E by \in Accounts \cup {Coordinator, AssignedAgent}, status \in Statuses : UpdateStatus(t, "dag", by, status)

StoreStep ==
  \/ \E t \in LedgerTasks : BudgetTaskCalls(t) \/ DagTaskCalls(t)
  \/ SetOracleManager \/ PauseStore

TaskLedgerNext ==
  \/ StoreStep
  \/ (PriceStep \/ PriceTick) /\ UNCHANGED storeVars

TaskLedgerSpec == TaskLedgerInit /\ [][TaskLedgerNext]_taskLedgerVars

-----------------------------------------------------------------------------
\* Where in the history a path wrote, and what.
Written(t, path) == {i \in DOMAIN history[t] : history[t][i][1] = path}
WrittenStatus(t, i) == history[t][i][2]
FirstStatus(path) == IF path = "life" THEN "created" ELSE "assigned"

\* The history bears out each record of a task, however the two paths interleave: what a
\* path wrote starts with its first status, follows the table that the SDK publishes and ends
\* with the status the record has, so the limit on the history never cost it an entry.
HistoryExplains ==
  \A t \in LedgerTasks, path \in Paths :
    LET written == Written(t, path) IN
    IF onChain[t][path] = NotOnChain THEN written = {}
    ELSE /\ written # {}
         /\ \A i \in written :
              /\ (\A j \in written : i <= j) => WrittenStatus(t, i) = FirstStatus(path)
              /\ (\A j \in written : j <= i) => WrittenStatus(t, i) = onChain[t][path].status
         /\ \A i, j \in written :
              i < j /\ (\A k \in written : k <= i \/ j <= k)
                => CanTransition(WrittenStatus(t, i), WrittenStatus(t, j))

\* A task is stored at a price of the feed only while the feed itself would answer: the
\* price is no older than the age the feed tolerates by then, and neither contract is
\* paused, whoever changes which of them meanwhile.
QuotesWereFresh ==
  [][\A t \in LedgerTasks :
       LET quote == onChain'[t]["dag"].quote IN
       onChain[t]["dag"] = NotOnChain /\ quote.source = "oracle"
         => quote.at + maxAge >= priceTime /\ ~feedPaused /\ ~managerPaused]_taskLedgerVars

\* Typed states, in which every record is borne out by its history.
TaskLedgerInv == TaskLedgerTypeOK /\ HistoryExplains
=============================================================================
