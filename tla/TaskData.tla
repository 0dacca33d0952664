------------------------------ MODULE TaskData ------------------------------
(***************************************************************************)
(* What is kept of tasks besides their execution, and what the API makes   *)
(* of it: the rows and their listing by page and by cursor                 *)
(* (src/backend/src/db/tasks.ts, api/routes/tasks.ts, v1/ and v2/), the    *)
(* wallets' bands (services/quota/metrics.ts), token usage and the cost    *)
(* report (services/budget/persistence.ts, alerts.ts,                      *)
(* api/routes/costs.ts), and the scores of agents' output                  *)
(* (services/qualityScorer.ts, qualityScoreCache.ts).                      *)
(***************************************************************************)
EXTENDS Naturals, Sequences, FiniteSets, SequencesExt

CONSTANTS Wallets, TaskIds, NoWallet,
          PageLimit,        \* limit and pageSize
          DayLimit,         \* DAILY_TASK_LIMIT_PER_WALLET
          DayLength,        \* QUOTA_WINDOW_MS
          LastTime,         \* bound on the clock
          LastDay,          \* bound on the calendar
          StatsAge,         \* ttlMs of the cache of statistics
          SeriesLength,     \* points in a series of the statistics
          CostNodes,
          DayBudget,        \* DAILY_COST_BUDGET_USD, in tokens
          MaxRunsOfTask,    \* bound on runs of the task whose cost is followed
          MaxNodeTokens,    \* bound on the tokens of a node in a run
          MaxLostWrites,    \* bound on statements of the database that fail
          Outputs,          \* outputs that agents come up with
          Traits,           \* Traits[o]: what the dimensions look at in output o
          Weights,          \* Weights[c]: weights of the dimensions in configuration c
          Required,         \* requiredFields of the rules; one field is optional
          PromptTokens,     \* significant tokens of the prompt
          MaxReputation,    \* MAX_REPUTATION, in thousandths
          MinScores,       \* QUALITY_PERCENTILE_MIN_SAMPLES
          MaxScores,        \* bound on scores recorded
          MaxSubmissions    \* bound on submissions of a wallet that wait or were refused

ASSUME TaskDataAssumption ==
  /\ TaskIds \subseteq Nat \ {0} /\ NoWallet \notin Wallets
  /\ PageLimit \in Nat \ {0} /\ DayLimit \in Nat /\ MinScores \in Nat \ {0}
  /\ Required \in Nat \ {0} /\ PromptTokens \in Nat /\ MaxReputation \in Nat
  /\ \A o \in Outputs : Traits[o] \in [object : BOOLEAN, missing : 0 .. Required, optional : {0, 1},
                                      matched : 0 .. PromptTokens, issues : Nat]
  /\ \A c \in DOMAIN Weights : Weights[c] \in [completeness : Nat, relevance : Nat, format : Nat]
  /\ {DayLength, LastTime, LastDay, StatsAge, SeriesLength, DayBudget, MaxRunsOfTask, MaxNodeTokens, MaxLostWrites, MaxScores,
      MaxSubmissions} \subseteq Nat

VARIABLES rows,        \* rows[id]: the row of tasks
          inserted,    \* ids in the order of their rowids
          passing,     \* passing[w]: submissions past the quota and not yet inserted
          refusals,    \* refusals[b]: rejections counted in band b
          dataClock,
          stats,       \* the statistics in the cache
          walk,        \* a client that goes through its tasks page by page
          run,         \* the ledger of the task's current run
          runs,        \* runs of the task so far
          usage,       \* usage[n]: totalTokens of the row in task_token_usage
          usedOn,      \* usedOn[n]: the day of its updatedAt
          cost,        \* the task's row in task_costs
          died,        \* a process has died with a ledger
          spentTotal,  \* tokensSpentTotal of the metrics
          lostWrites,
          today,
          announced,   \* the day and level that was announced last
          alerts,      \* what has been announced, in order
          config,      \* configuration of the scorer
          history,     \* historicalScores
          scoreCache,  \* scoreCache[o]: the score kept for output o, or NotScored
          rescored,    \* outputs scored anew although their score was kept
          scores,      \* rows of quality_scores, in the order of their ids
          reputation   \* reputationScore of the agent, in thousandths

listVars    == <<rows, inserted, passing, refusals, dataClock, stats, walk>>
costVars    == <<run, runs, usage, usedOn, cost, died, spentTotal, lostWrites, today, announced, alerts>>
qualityVars == <<config, history, scoreCache, rescored, scores, reputation>>
dataVars    == <<listVars, costVars, qualityVars>>

NoRow   == [owner |-> NoWallet, created |-> 0, status |-> "none"]
NoWalk  == [mode |-> "none", owner |-> NoWallet, status |-> "any", newest |-> TRUE,
            at |-> 0, got |-> <<>>, kept |-> {}, done |-> FALSE]
NoStats == [at |-> 0, total |-> 0, completed |-> 0, series |-> <<>>]
NoRun   == [open |-> FALSE, tokens |-> [n \in CostNodes |-> 0]]
NoCost  == [kind |-> "none", used |-> 0, whole |-> FALSE]
NotScored == 101

TaskStatuses == {"queued", "running", "completed", "failed", "cancelled"}
Bands        == {"disabled", "below", "at-limit", "over-limit"}
Levels       == {"ok", "warn", "exceeded"}

TaskDataTypeOK ==
  /\ rows \in [TaskIds -> [owner : Wallets \cup {NoWallet}, created : Nat, status : TaskStatuses \cup {"none"}]]
  /\ passing \in [Wallets -> Nat] /\ refusals \in [Bands -> Nat] /\ dataClock \in 0 .. LastTime
  /\ walk.mode \in {"none", "page", "cursor"} /\ walk.kept \subseteq TaskIds
  /\ run \in [open : BOOLEAN, tokens : [CostNodes -> Nat]] /\ usage \in [CostNodes -> Nat]
  /\ cost \in [kind : {"none", "flushed", "settled"}, used : Nat, whole : BOOLEAN]
  /\ announced \in [day : 0 .. LastDay, level : Levels] /\ config \in DOMAIN Weights
  /\ \A i \in 1 .. Len(scores) : scores[i] \in 0 .. 100
  /\ spentTotal \in Nat /\ reputation \in 0 .. MaxReputation

TaskDataInit ==
  /\ rows = [id \in TaskIds |-> NoRow] /\ inserted = <<>>
  /\ passing = [w \in Wallets |-> 0] /\ refusals = [b \in Bands |-> 0]
  /\ dataClock = 0 /\ stats = NoStats /\ walk = NoWalk
  /\ run = NoRun /\ runs = 0 /\ usage = [n \in CostNodes |-> 0] /\ cost = NoCost
  /\ usedOn = [n \in CostNodes |-> 0] /\ today = 0
  /\ died = FALSE /\ spentTotal = 0 /\ lostWrites = 0 /\ announced = [day |-> 0, level |-> "ok"] /\ alerts = <<>>
  /\ config \in DOMAIN Weights /\ history = <<>>
  /\ scoreCache = [o \in Outputs |-> NotScored] /\ rescored = {} /\ scores = <<>>
  /\ reputation = MaxReputation \div 2

-----------------------------------------------------------------------------
(***************************************************************************)
(* Rows, quotas and bands.                                                 *)
(***************************************************************************)
\* createdAt > windowStart
RecentTasks(w) == {id \in TaskIds : rows[id].owner = w /\ rows[id].created + DayLength > dataClock}

\* quotaBucketFor, the bands below the limit taken together.
Band(used, limit) ==
  CASE limit = 0     -> "disabled"
    [] used < limit  -> "below"
    [] used = limit  -> "at-limit"
    [] OTHER         -> "over-limit"

\* walletTaskCounts: wallets with a task in the window.
WalletsInBand(b) ==
  {w \in Wallets : RecentTasks(w) # {} /\ Band(Cardinality(RecentTasks(w)), DayLimit) = b}

\* assertDailyTaskQuota
Refused(w) == DayLimit > 0 /\ Cardinality(RecentTasks(w)) >= DayLimit

Matches(table, wk, id) ==
  /\ table[id].owner = wk.owner /\ table[id].status # "none"
  /\ wk.status = "any" \/ table[id].status = wk.status

\* What the walk had from its start on and still has.
Kept(table) == [walk EXCEPT !.kept = {id \in walk.kept : Matches(table, walk, id)}]

\* POST, in any version of the API, up to the quota.
Submit(w) ==
  /\ passing[w] + refusals["at-limit"] + refusals["over-limit"] < MaxSubmissions
  /\ IF Refused(w)
     THEN /\ refusals' = [refusals EXCEPT ![Band(Cardinality(RecentTasks(w)), DayLimit)] = @ + 1]
          /\ UNCHANGED passing
     ELSE passing' = [passing EXCEPT ![w] = @ + 1] /\ UNCHANGED refusals
  /\ UNCHANGED <<rows, inserted, dataClock, stats, walk, costVars, qualityVars>>

\* createTask, with an id drawn at random; another process may come in between.
InsertTask(w, id) ==
  /\ passing[w] > 0 /\ rows[id] = NoRow
  /\ passing' = [passing EXCEPT ![w] = @ - 1]
  /\ rows' = [rows EXCEPT ![id] = [owner |-> w, created |-> dataClock, status |-> "queued"]]
  /\ inserted' = Append(inserted, id)
  /\ UNCHANGED <<refusals, dataClock, stats, walk, costVars, qualityVars>>

SetStatus(id, s) ==
  /\ rows' = [rows EXCEPT ![id].status = s]
  /\ walk' = Kept([rows EXCEPT ![id].status = s])
  /\ UNCHANGED <<inserted, passing, refusals, dataClock, stats, costVars, qualityVars>>

\* The coordinator's updateStatus.
WorkOn(id) ==
  \/ rows[id].status = "queued" /\ SetStatus(id, "running")
  \/ rows[id].status = "running" /\ \E s \in {"completed", "failed"} : SetStatus(id, s)

\* What a caller is shown of a task: its own, or nothing.
OwnRow(w, id) == IF rows[id].owner = w THEN rows[id] ELSE NoRow

\* DELETE by the owner; any other caller and any ended task is refused.
CancelTask(w, id) ==
  /\ OwnRow(w, id).status \in {"queued", "running"}
  /\ SetStatus(id, "cancelled")

\* failRunningTasks, at a shutdown.
FailRunning ==
  LET failed == [id \in TaskIds |-> IF rows[id].status = "running" THEN [rows[id] EXCEPT !.status = "failed"]
                                    ELSE rows[id]] IN
  /\ rows' = failed /\ rows # failed
  /\ walk' = Kept(failed)
  /\ UNCHANGED <<inserted, passing, refusals, dataClock, stats, costVars, qualityVars>>

\* buildHourlySeries: tasks by the hour that they were created in, the current one last.
HourlySeries(S) ==
  [i \in 1 .. SeriesLength |-> Cardinality({id \in S : rows[id].created + SeriesLength = dataClock + i})]

\* getStats: the totals and the series.
StatsNow ==
  LET stored == {id \in TaskIds : rows[id] # NoRow} IN
  [at |-> dataClock, total |-> Cardinality(stored),
   completed |-> Cardinality({id \in stored : rows[id].status = "completed"}),
   series |-> HourlySeries(stored)]

\* StatsCache: an entry that is young enough answers as it is.
GetStats ==
  /\ IF stats.series # <<>> /\ dataClock < stats.at + StatsAge THEN UNCHANGED stats ELSE stats' = StatsNow
  /\ UNCHANGED <<rows, inserted, passing, refusals, dataClock, walk, costVars, qualityVars>>

DataTick ==
  /\ dataClock < LastTime
  /\ dataClock' = dataClock + 1
  /\ UNCHANGED <<rows, inserted, passing, refusals, stats, walk, costVars, qualityVars>>

-----------------------------------------------------------------------------
(***************************************************************************)
(* Listing.                                                                *)
(***************************************************************************)
RowId(id) == CHOOSE i \in 1 .. Len(inserted) : inserted[i] = id

\* createdAt, then id: the order of listCursor, and its condition on the next page.
Beyond(wk, id) ==
  LET a == rows[wk.at] b == rows[id] IN
  IF wk.newest THEN b.created < a.created \/ (b.created = a.created /\ id < wk.at)
               ELSE b.created > a.created \/ (b.created = a.created /\ id > wk.at)

\* ORDER BY createdAt: rows of one instant come as SQLite scans them.
PageOrder(wk, x, y) ==
  IF rows[x].created # rows[y].created
  THEN (rows[x].created < rows[y].created) = ~wk.newest
  ELSE RowId(x) < RowId(y)

StartWalk(w, mode, status, newest) ==
  /\ walk = NoWalk
  /\ walk' = LET wk == [NoWalk EXCEPT !.mode = mode, !.owner = w, !.status = status, !.newest = newest] IN
             [wk EXCEPT !.kept = {id \in TaskIds : Matches(rows, wk, id)}]
  /\ UNCHANGED <<rows, inserted, passing, refusals, dataClock, stats, costVars, qualityVars>>

Paged(seq, from) == SubSeq(seq, from + 1, IF from + PageLimit > Len(seq) THEN Len(seq) ELSE from + PageLimit)

\* GET with a cursor: one row more than a page is asked for.
NextByCursor ==
  /\ walk.mode = "cursor" /\ ~walk.done
  /\ LET left == {id \in TaskIds : Matches(rows, walk, id) /\ (walk.at # 0 => Beyond(walk, id))}
         page == Paged(SetToSortSeq(left, LAMBDA x, y : Beyond([walk EXCEPT !.at = x], y)), 0)
         more == Cardinality(left) > PageLimit IN
     walk' = [walk EXCEPT !.got = @ \o page, !.done = ~more,
                          !.at = IF more THEN page[Len(page)] ELSE @]
  /\ UNCHANGED <<rows, inserted, passing, refusals, dataClock, stats, costVars, qualityVars>>

\* GET with a page number; the total says whether there is another page.
NextByPage ==
  /\ walk.mode = "page" /\ ~walk.done
  /\ LET all == SetToSortSeq({id \in TaskIds : Matches(rows, walk, id)},
                             LAMBDA x, y : PageOrder(walk, x, y)) IN
     walk' = [walk EXCEPT !.got = @ \o Paged(all, walk.at * PageLimit), !.at = @ + 1,
                          !.done = (walk.at + 1) * PageLimit >= Len(all)]
  /\ UNCHANGED <<rows, inserted, passing, refusals, dataClock, stats, costVars, qualityVars>>

ListingStep ==
  \/ DataTick \/ GetStats \/ FailRunning \/ NextByCursor \/ NextByPage
  \/ \E w \in Wallets :
       \/ Submit(w)
       \/ \E id \in TaskIds : InsertTask(w, id) \/ CancelTask(w, id)
       \/ \E mode \in {"page", "cursor"}, status \in TaskStatuses \cup {"any"}, newest \in BOOLEAN :
            StartWalk(w, mode, status, newest)
  \/ \E id \in TaskIds : WorkOn(id)

-----------------------------------------------------------------------------
(***************************************************************************)
(* Token usage, cost rows and the day's budget.                            *)
(***************************************************************************)
TotalOf(f) == FoldFunction(+, 0, f)

Lost == lostWrites < MaxLostWrites /\ lostWrites' = lostWrites + 1

RunStarts ==
  /\ ~run.open /\ runs < MaxRunsOfTask
  /\ run' = [NoRun EXCEPT !.open = TRUE] /\ runs' = runs + 1
  /\ UNCHANGED <<listVars, usage, usedOn, cost, died, spentTotal, lostWrites, today, announced, alerts, qualityVars>>

\* record, then persistNodeUsage: the node's running total of this run, over what the row said.
CallAccounted(n, tokens) ==
  /\ run.open /\ run.tokens[n] + tokens <= MaxNodeTokens
  /\ run' = [run EXCEPT !.tokens[n] = @ + tokens]
  /\ \/ usage' = [usage EXCEPT ![n] = run.tokens[n] + tokens]
        /\ usedOn' = [usedOn EXCEPT ![n] = today] /\ UNCHANGED lostWrites
     \/ Lost /\ UNCHANGED <<usage, usedOn>>
  /\ UNCHANGED <<listVars, runs, cost, died, spentTotal, today, announced, alerts, qualityVars>>

FlushActive ==
  /\ run.open
  /\ cost' = [kind |-> "flushed", used |-> TotalOf(run.tokens), whole |-> FALSE]
  /\ UNCHANGED <<listVars, run, runs, usage, usedOn, died, spentTotal, lostWrites, today, announced, alerts, qualityVars>>

\* Settlement writes the rows of the run's nodes once more.
Rewritten(S) ==
  /\ usage'  = [n \in CostNodes |-> IF n \in S THEN run.tokens[n] ELSE usage[n]]
  /\ usedOn' = [n \in CostNodes |-> IF n \in S THEN today ELSE usedOn[n]]

\* settleTaskCost: the ledger is gone, whatever becomes of the statements.
SettleTask ==
  /\ run.open /\ run' = NoRun
  /\ spentTotal' = spentTotal + TotalOf(run.tokens)
  /\ LET called == {n \in CostNodes : run.tokens[n] > 0}
         row    == [kind |-> "settled", used |-> TotalOf(run.tokens), whole |-> TRUE] IN
     \/ cost' = row /\ Rewritten(called) /\ UNCHANGED lostWrites
     \/ \E n \in called : cost' = [row EXCEPT !.whole = FALSE] /\ Rewritten(called \ {n}) /\ Lost
     \/ cost' = [cost EXCEPT !.whole = FALSE] /\ Lost /\ UNCHANGED <<usage, usedOn>>
  /\ UNCHANGED <<listVars, runs, died, today, announced, alerts, qualityVars>>

RunDies ==
  /\ run.open /\ run' = NoRun /\ died' = TRUE
  /\ UNCHANGED <<listVars, runs, usage, usedOn, cost, spentTotal, lostWrites, today, announced, alerts, qualityVars>>

\* GET /tasks/:id/cost: the ledger first, then the task's row, then the nodes' rows.
ReportedTokens ==
  IF run.open THEN TotalOf(run.tokens)
  ELSE IF cost.kind # "none" THEN cost.used ELSE TotalOf(usage)

\* listCostBreakdown: rows by the day of their last update.
SpentOn(day) == TotalOf([n \in CostNodes |-> IF usedOn[n] = day THEN usage[n] ELSE 0])

\* listAgentCostTotals
SpentByAgents == TotalOf(usage)

\* GET /costs: the settled tasks' total beside what the nodes' rows add up to.
CostReport ==
  [totals |-> cost.used, byAgent |-> SpentByAgents, breakdown |-> [day \in 0 .. LastDay |-> SpentOn(day)]]

\* getDailySpendUsd
SpentToday == SpentOn(today)

LevelOf(spent) ==
  CASE DayBudget = 0 \/ 4 * spent < 3 * DayBudget -> "ok"
    [] spent >= DayBudget -> "exceeded"
    [] OTHER -> "warn"

AnnouncedFor(level) == announced.day = today /\ announced.level \in {level, "exceeded"}

\* The gate in front of every node; what it finds exceeded, it refuses.
CheckBudget ==
  /\ LET level == LevelOf(SpentToday) IN
     /\ level # "ok" /\ ~AnnouncedFor(level)
     /\ announced' = [day |-> today, level |-> level]
     /\ alerts' = Append(alerts, announced')
  /\ UNCHANGED <<listVars, run, runs, usage, usedOn, cost, died, spentTotal, lostWrites, today, qualityVars>>

NextDay ==
  /\ today < LastDay /\ today' = today + 1
  /\ UNCHANGED <<listVars, run, runs, usage, usedOn, cost, died, spentTotal, lostWrites, announced, alerts, qualityVars>>

CostStep ==
  \/ RunStarts \/ FlushActive \/ SettleTask \/ RunDies \/ CheckBudget \/ NextDay
  \/ \E n \in CostNodes, tokens \in 1 .. MaxNodeTokens : CallAccounted(n, tokens)

-----------------------------------------------------------------------------
(***************************************************************************)
(* Scores.                                                                 *)
(***************************************************************************)
Rounded(num, den) == (2 * num + den) \div (2 * den)
Clamped(x, max) == IF x > max THEN max ELSE x

\* scoreCompleteness: optional fields are a bonus.
Completeness(t) ==
  IF t.object THEN Clamped(Rounded(100 * (Required - t.missing) + 10 * Required * t.optional, Required), 100) ELSE 0

\* scoreRelevance, without expected keywords: at most 90.
Relevance(t) == IF PromptTokens = 0 THEN 100 ELSE Rounded(90 * t.matched, PromptTokens)

\* scoreFormat: 20 off for every issue with the schema.
Format(t) == IF t.issues > 5 THEN 0 ELSE 100 - 20 * t.issues

\* getRules: the configuration's weights, which the rules of no agent type override.
WeightsOf(c) == Weights[c]

\* computeTotalScore with the weights of configuration c.
RawScore(c, o) ==
  LET w == WeightsOf(c) t == Traits[o] IN
  Rounded(w.completeness * Completeness(t) + w.relevance * Relevance(t) + w.format * Format(t),
          w.completeness + w.relevance + w.format)

\* percentileNormalize: the share of earlier scores below this one, rounded.
Percentile(raw, seq) == Rounded(100 * Cardinality({i \in 1 .. Len(seq) : seq[i] < raw}), Len(seq))

\* computeScore
ComputedScore(o) ==
  IF Len(history) >= MinScores THEN Percentile(RawScore(config, o), history) ELSE RawScore(config, o)

\* reputationDeltaForScore and updateReputation: two thousandths a point, from 50 on.
Reputed(r, s) == IF r + 2 * s < 100 THEN 0 ELSE Clamped(r + 2 * s - 100, MaxReputation)

\* recordQualityScore: what cannot be written is let go.
ScoreRecorded(s) ==
  \/ scores' = Append(scores, s) /\ UNCHANGED lostWrites
  \/ Lost /\ UNCHANGED scores

\* score with a rules object that the caller holds on to.
ScoreWithRules(o) ==
  /\ scoreCache' = [scoreCache EXCEPT ![o] = IF @ # NotScored THEN @ ELSE ComputedScore(o)]
  /\ UNCHANGED <<listVars, costVars, config, history, rescored, scores, reputation>>

\* scoreOutput by scoreForAgentType: getRules makes a new object, and the key is that object's own.
ScoreForAgentType(o) ==
  /\ Len(scores) < MaxScores
  /\ rescored' = IF scoreCache[o] # NotScored THEN rescored \cup {o} ELSE rescored
  /\ scoreCache' = [scoreCache EXCEPT ![o] = ComputedScore(o)]
  /\ ScoreRecorded(ComputedScore(o))
  /\ reputation' = Reputed(reputation, ComputedScore(o))
  /\ UNCHANGED <<listVars, run, runs, usage, usedOn, cost, died, spentTotal, today, announced, alerts, config, history>>

ScoresDropped == scoreCache' = [o \in Outputs |-> NotScored]

\* Mutant: the scores kept outlive the distribution they were normalised with.
MutantLoadHistory ==
  /\ history # Reverse(scores) /\ history' = Reverse(scores)
  /\ UNCHANGED <<listVars, costVars, config, rescored, scores, reputation, scoreCache>>

\* loadHistoricalScores: the rows as they are listed, newest first.
LoadHistory ==
  /\ history # Reverse(scores) /\ history' = Reverse(scores)
  /\ ScoresDropped
  /\ UNCHANGED <<listVars, costVars, config, rescored, scores, reputation>>

ReloadConfig(c) ==
  /\ config' = c /\ ScoresDropped
  /\ UNCHANGED <<listVars, costVars, history, rescored, scores, reputation>>

EvictScore(o) ==
  /\ scoreCache[o] # NotScored
  /\ scoreCache' = [scoreCache EXCEPT ![o] = NotScored]
  /\ UNCHANGED <<listVars, costVars, config, history, rescored, scores, reputation>>

Mean2(seq) == IF Len(seq) = 0 THEN 0 ELSE (2 * FoldSeq(+, 0, seq)) \div Len(seq)

\* computeTrend: the second half against the first.
TrendOf(seq) ==
  LET mid == Len(seq) \div 2
      first  == Mean2(SubSeq(seq, 1, mid))
      second == Mean2(SubSeq(seq, mid + 1, Len(seq))) IN
  CASE Len(seq) < 2       -> "insufficient_data"
    [] second > first + 2 -> "improving"
    [] first > second + 2 -> "declining"
    [] OTHER              -> "stable"

\* getAgentQualityMetrics
ReportedTrend == TrendOf(Reverse(scores))

QualityStep ==
  \/ LoadHistory
  \/ \E o \in Outputs : ScoreWithRules(o) \/ ScoreForAgentType(o) \/ EvictScore(o)
  \/ \E c \in DOMAIN Weights : ReloadConfig(c)

TaskDataNext == ListingStep \/ CostStep \/ QualityStep
TaskDataSpec == TaskDataInit /\ [][TaskDataNext]_dataVars

-----------------------------------------------------------------------------
\* A client that follows cursors to the end has been given every task that was on its list
\* the whole time, and none twice, whatever tasks are submitted, run and cancelled
\* meanwhile and however many share an instant.
CursorWalkIsWhole ==
  walk.mode = "cursor" =>
    /\ IsInjective(walk.got)
    /\ walk.done => walk.kept \subseteq ToSet(walk.got)

\* By page numbers that holds only for the unfiltered list with the newest first, and tasks
\* come twice.
PageWalkIsWhole ==
  walk.mode = "page" /\ walk.done /\ walk.status = "any" /\ walk.newest =>
    walk.kept \subseteq ToSet(walk.got)

\* The bands foretell the quota: a wallet is at or over its limit exactly if its next
\* submission is refused, and no wallet was ever refused from a band below.
BandsForetellRefusal ==
  /\ \A w \in Wallets : Refused(w) <=> w \in WalletsInBand("at-limit") \cup WalletsInBand("over-limit")
  /\ refusals["below"] = 0 /\ refusals["disabled"] = 0

\* The statistics that are shown lie no further back than their entry may, and their series
\* accounts for every task that was there and inside its span.
StatsAddUp ==
  stats.series # <<>> =>
    /\ stats.total >= Cardinality({i \in 1 .. Len(inserted) : rows[inserted[i]].created < stats.at})
    /\ FoldSeq(+, 0, stats.series) <= stats.total
    /\ stats.at < SeriesLength => FoldSeq(+, 0, stats.series) = stats.total

\* Once a task is settled its nodes' rows account for at least the task's total, and for
\* exactly that after a single run, by agents and by days, whatever writes were lost while it ran.
NodesCoverTask ==
  cost.kind = "settled" /\ cost.whole /\ ~run.open /\ ~died =>
    /\ CostReport.totals <= CostReport.byAgent
    /\ runs = 1 => CostReport.totals = CostReport.byAgent
    /\ TotalOf(CostReport.breakdown) = CostReport.byAgent

\* What the metrics say was ever spent, with the current ledger, covers what the rows of the
\* nodes say, whatever writes of a settlement were lost.
SpendIsCounted == ~died => TotalOf(usage) <= spentTotal + TotalOf(run.tokens)

\* A day's threshold is announced once, and none after the budget was announced as spent,
\* although what counts as spent that day can fall.
AlertsOnce ==
  /\ IsInjective(alerts)
  /\ \A i, j \in 1 .. Len(alerts) :
       i < j /\ alerts[i].day = alerts[j].day => alerts[i].level = "warn" /\ alerts[j].level = "exceeded"

\* A score that is kept is the one that scoring anew would give, after any reload of the
\* configuration or of the distribution.
KeptScoresAreCurrent == \A o \in Outputs : scoreCache[o] # NotScored => scoreCache[o] = ComputedScore(o)

\* Every score is a percentage, and an output that is at least as complete, as relevant and as
\* well formed as another scores no less, under every configuration.
ScoresFollowTraits ==
  \A c \in DOMAIN Weights, o, p \in Outputs :
    LET s == Traits[o] t == Traits[p] IN
    /\ RawScore(c, o) <= 100
    /\ /\ s.object /\ s.missing <= t.missing /\ s.optional >= t.optional
       /\ s.matched >= t.matched /\ s.issues <= t.issues
       => RawScore(c, o) >= RawScore(c, p)

\* Listing, bands, statistics, costs, alerts and scores say what the rows and runs behind them say.
DataInv ==
  /\ TaskDataTypeOK
  /\ CursorWalkIsWhole /\ PageWalkIsWhole /\ BandsForetellRefusal /\ StatsAddUp
  /\ NodesCoverTask /\ SpendIsCounted /\ AlertsOnce /\ KeptScoresAreCurrent /\ ScoresFollowTraits

\* qualityScoreCache.ts: repeated outputs are answered from memory instead of being scored
\* again.
RepeatsAreAnswered == rescored = {}

\* computeAgentQualityMetrics: scores are expected oldest first.
TrendGoesWithTime == ReportedTrend = TrendOf(scores)

\* setNodeUsage: the totals written over a node's row are cumulative.
UsageIsCumulative == [][\A n \in CostNodes : usage'[n] >= usage[n]]_dataVars
=============================================================================
