---------------------------- MODULE BudgetLedger ----------------------------
(***************************************************************************)
(* The token budget of one task: the ledger in the memory of the process   *)
(* that runs it (src/backend/src/services/budget/ledger.ts), the way the   *)
(* coordinator gates, reserves, dispatches and records a node              *)
(* (coordinator/coordinator.ts), and what persistence.ts keeps of it.      *)
(*                                                                         *)
(* Nodes of a run are in flight together; every run of the task's job has  *)
(* a ledger of its own.                                                    *)
(***************************************************************************)
EXTENDS Naturals, FiniteSets, Functions

CONSTANTS Spenders,      \* nodes of the task, independent of each other
          TaskCap,       \* maxTokensPerTask
          CallCap,       \* maxTokensPerCall
          DefaultCall,   \* what an agent requests that was told no ceiling
          MaxBudgetRuns  \* bound on runs of the task

ASSUME BudgetAssumption ==
  /\ IsFiniteSet(Spenders)
  /\ {TaskCap, CallCap, DefaultCall, MaxBudgetRuns} \subseteq Nat \ {0}

VARIABLES ledger,    \* the ledger of the current run
          spender,   \* spender[n]: where node n is in runNode
          told,      \* told[n]: the ceiling that the request of n carries
          costRow,   \* usedTokens of the task's row in task_costs
          charged,   \* tokens of the wallet's quota events
          forgotten, \* tokens that died with a process
          burnt,     \* tokens that agents reported, over all runs
          budgetRun  \* number of the current run

budgetVars == <<ledger, spender, told, costRow, charged, forgotten, burnt, budgetRun>>

MostTokens == CallCap + DefaultCall
SpenderStages == {"pending", "reserved", "calling", "completed", "failed"}

BudgetTypeOK ==
  /\ ledger \in [open : BOOLEAN, used : Nat, reserved : Nat, held : [Spenders -> Nat],
                 calls : [Spenders -> Nat], over : Nat]
  /\ spender \in [Spenders -> SpenderStages]
  /\ told \in [Spenders -> 0 .. CallCap]
  /\ {costRow, charged, forgotten, burnt} \subseteq Nat
  /\ budgetRun \in 0 .. MaxBudgetRuns

NoLedger == [open |-> FALSE, used |-> 0, reserved |-> 0, held |-> [n \in Spenders |-> 0],
             calls |-> [n \in Spenders |-> 0], over |-> 0]

BudgetInit ==
  /\ ledger = NoLedger
  /\ spender = [n \in Spenders |-> "failed"] /\ told = [n \in Spenders |-> 0]
  /\ costRow = 0 /\ charged = 0 /\ forgotten = 0 /\ burnt = 0
  /\ budgetRun = 0

-----------------------------------------------------------------------------
Lesser(a, b)  == IF a < b THEN a ELSE b
Greater(a, b) == IF a > b THEN a ELSE b
Minus(a, b)   == IF a > b THEN a - b ELSE 0

Available(l) == Minus(Minus(TaskCap, l.used), l.reserved)
Allowance(l) == Lesser(Available(l), CallCap)

\* reserve(node, want): the grant is debited at once.
ClaimTaken(l, n, want) ==
  LET granted == Lesser(Lesser(want, Available(l)), Lesser(CallCap, TaskCap)) IN
  [l EXCEPT !.reserved = @ + granted, !.held[n] = Greater(@, granted)]

\* Mutant: settling forgets the node's claim and leaves the pool debited.
MutantUnclaimed(l, n) == [l EXCEPT !.held[n] = 0]

\* release
Unclaimed(l, n) == [l EXCEPT !.reserved = Minus(@, l.held[n]), !.held[n] = 0]

\* record: the claim turns into what the provider says it took.  `over` is what calls
\* took beyond their claims.
UsageAdded(l, n, tokens) ==
  [Unclaimed(l, n) EXCEPT !.used = @ + tokens, !.calls[n] = @ + 1,
                          !.over = @ + Minus(tokens, l.held[n])]

UnlessCalled(l, n) == IF l.calls[n] = 0 THEN Unclaimed(l, n) ELSE l

-----------------------------------------------------------------------------
Accounts == UNCHANGED <<costRow, charged, forgotten, budgetRun>>
InRun(n, from, to) == spender[n] = from /\ spender' = [spender EXCEPT ![n] = to]

\* A run starts with what is not completed, and with a new ledger.
StartBudgetRun ==
  /\ ~ledger.open /\ \E n \in Spenders : spender[n] = "failed"
  /\ budgetRun < MaxBudgetRuns
  /\ budgetRun' = budgetRun + 1
  /\ ledger' = [NoLedger EXCEPT !.open = TRUE]
  /\ spender' = [n \in Spenders |-> IF spender[n] = "failed" THEN "pending" ELSE spender[n]]
  /\ UNCHANGED <<told, costRow, charged, forgotten, burnt>>

\* failNodeForBudget: the entry is marked, calls and claims stay.
HaltForBudget(n, from, l) == InRun(n, from, "failed") /\ ledger' = l

\* The gate: the task's budget, then the day's; the claim comes with passing it.
GateSpend(n) ==
  /\ \/ Available(ledger) > 0 /\ InRun(n, "pending", "reserved")
        /\ ledger' = ClaimTaken(ledger, n, Allowance(ledger))
     \/ HaltForBudget(n, "pending", ledger)
  /\ UNCHANGED <<told, burnt>> /\ Accounts

\* dispatchNode, again with every retry and for the fallback agent.
SendAllowance(n) ==
  /\ InRun(n, "reserved", "calling")
  /\ told' = [told EXCEPT ![n] = Allowance(ledger)]
  /\ UNCHANGED <<ledger, burnt>> /\ Accounts

\* No response that parses: the next attempt.
RetryCall(n) ==
  /\ InRun(n, "calling", "reserved")
  /\ told' = [told EXCEPT ![n] = 0]
  /\ UNCHANGED <<ledger, burnt>> /\ Accounts

\* Attempts and agents are used up.
CallFails(n) ==
  /\ \/ InRun(n, "calling", "failed") \/ InRun(n, "reserved", "failed")
  /\ told' = [told EXCEPT ![n] = 0]
  /\ ledger' = UnlessCalled(ledger, n)
  /\ UNCHANGED burnt /\ Accounts

Ceiling(n) == IF told[n] = 0 THEN DefaultCall ELSE told[n]

\* An agent answers with a result, or that its budget did not suffice.
CallReports(n, tokens) ==
  /\ tokens <= Ceiling(n) + 1
  /\ told' = [told EXCEPT ![n] = 0]
  /\ LET recorded == UnlessCalled(UsageAdded(ledger, n, tokens), n) IN
     \/ InRun(n, "calling", "completed") /\ ledger' = recorded
     \/ HaltForBudget(n, "calling", recorded)
  /\ burnt' = burnt + tokens
  /\ Accounts

-----------------------------------------------------------------------------
\* flushActiveCosts, on a timer.
FlushCosts ==
  /\ ledger.open /\ costRow # ledger.used
  /\ costRow' = ledger.used
  /\ UNCHANGED <<ledger, spender, told, charged, forgotten, burnt, budgetRun>>

TokensOf(l) == l.used

\* settleCost: the run's tokens go to the wallet's quota and the task's row.
SettleCost ==
  /\ ledger.open
  /\ \A n \in Spenders : spender[n] \in {"completed", "failed"}
  /\ charged' = charged + TokensOf(ledger)
  /\ costRow' = ledger.used
  /\ ledger' = NoLedger
  /\ UNCHANGED <<spender, told, forgotten, burnt, budgetRun>>

\* The process dies; the job runs again elsewhere.
LoseLedger ==
  /\ ledger.open
  /\ forgotten' = forgotten + ledger.used
  /\ ledger' = NoLedger
  /\ spender' = [n \in Spenders |-> IF spender[n] = "completed" THEN "completed" ELSE "failed"]
  /\ told' = [n \in Spenders |-> 0]
  /\ UNCHANGED <<costRow, charged, burnt, budgetRun>>

BudgetNext ==
  \/ StartBudgetRun \/ FlushCosts \/ SettleCost \/ LoseLedger
  \/ \E n \in Spenders :
       \/ GateSpend(n) \/ SendAllowance(n) \/ RetryCall(n) \/ CallFails(n)
       \/ \E tokens \in 0 .. MostTokens : CallReports(n, tokens)

BudgetSpec == BudgetInit /\ [][BudgetNext]_budgetVars

-----------------------------------------------------------------------------
SumOver(f) == SumFunctionOnSet(f, Spenders)

\* The pool is debited by what nodes in flight hold, to the token: no failure, retry or
\* report leaves the task short of budget it never spent.
ClaimsAddUp ==
  /\ ledger.reserved = SumOver(ledger.held)
  /\ \A n \in Spenders : ledger.held[n] > 0 => spender[n] \in {"reserved", "calling"}

\* What a run spends or has claimed passes its cap only by what providers took beyond
\* the claims of their calls, whatever nodes run side by side.
ClaimsWithinCap == ledger.used + ledger.reserved <= TaskCap + ledger.over

\* Every token an agent reported reaches the wallet's quota, once: through the run that
\* it was spent in, unless the process died in between.
EveryTokenCharged == burnt = charged + forgotten + ledger.used

\* Claims, spending and charges of a task agree to the token through failures, retries
\* and restarts.
BudgetInv == BudgetTypeOK /\ ClaimsAddUp /\ ClaimsWithinCap /\ EveryTokenCharged
=============================================================================
