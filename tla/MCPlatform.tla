----------------------------- MODULE MCPlatform -----------------------------
(***************************************************************************)
(* What surrounds the execution of tasks, one part at a time as in         *)
(* MCBackend: the databases and their pools, the calls to Venice, what is  *)
(* kept of tasks and of events, the operators' desk, the client library    *)
(* and the pages of the frontend.                                          *)
(***************************************************************************)
EXTENDS Database, VeniceCalls, TaskData, EventLog, OperatorDesk,
        ClientLibrary, WebApp, TLC

CONSTANTS e1, e2, a1, a2, n1, n2, n3, m1, m2, t1, t2

VARIABLE part

\* a table, a column, and a migration without a way down
MCKindOf  == <<"table", "column", "oneway">>
MCShipped == ("r1" :> ((1 :> "a") @@ (3 :> "a"))) @@ ("r2" :> ((1 :> "a") @@ (2 :> "a") @@ (3 :> "b")))

MCTopicOf   == (e1 :> "p") @@ (e2 :> "p")
MCRetryOf   == "p" :> "p2"
MCSimilarTo == ("p" :> {"p", "p2"}) @@ ("p2" :> {"p", "p2"})
MCChain     == <<"k1", "k2">>

MCTraits  == [o1 |-> [object |-> TRUE, missing |-> 0, optional |-> 1, matched |-> 2, issues |-> 0],
              o2 |-> [object |-> TRUE, missing |-> 2, optional |-> 0, matched |-> 1, issues |-> 3]]
MCWeights == [c1 |-> [completeness |-> 4, relevance |-> 3, format |-> 3],
              c2 |-> [completeness |-> 1, relevance |-> 0, format |-> 0]]

MCBucket  == [f \in Flags |-> [w \in FlagWallets |-> IF w = "w1" THEN 10 ELSE 60]]
MCDefault == [f \in Flags |-> f = "f1"]

MCCapability == (a1 :> {"x"}) @@ (a2 :> {"x", "y"})
MCDag        == <<n1, n2, n3>>
MCDependsOn  == (n1 :> {}) @@ (n2 :> {n1}) @@ (n3 :> {n2})
MCTaskType   == (n1 :> "x") @@ (n2 :> "y") @@ (n3 :> "x")
MCAmountOf   == (m1 :> 1) @@ (m2 :> 2)

Of(k)    == [kind |-> k, node |-> "n"]
MCScript == (t1 :> <<Of("node_started"), Of("node_completed"), [kind |-> "task_completed", node |-> ""]>>)
         @@ (t2 :> <<Of("payment_released")>>)

MCListed     == <<"a", "b", "c">>
MCListStatus == ("a" :> "ok") @@ ("b" :> "bad") @@ ("c" :> "ok")

PlatformInit ==
  /\ part \in {"migrations", "pool", "calls", "streams", "health", "quota", "walk", "cost", "quality", "log",
               "flags", "switch", "limits", "bucket", "guard", "jobs", "restore", "registry", "escrow", "page",
               "session", "keyed", "timer", "list", "toast", "shell"}
  /\ MigrationsInit /\ PoolInit /\ VeniceInit /\ TaskDataInit /\ LogInit /\ DeskInit /\ LibraryInit
  /\ ConsoleInit /\ WalletInit
  /\ part # "migrations" => engine = "runner" /\ \A v \in Versions : schema[v] = NotApplied
  /\ part \notin {"session", "keyed"} => legacy = NoKey /\ extension.account = CHOOSE k \in AccountKeys : TRUE
  /\ part # "quality" => config = "c1"
  /\ part # "restore" => shelf = [f \in Snapshots |-> "sealed"]

OfVenice == {"calls", "streams", "health"}
OfData   == {"quota", "walk", "cost", "quality"}
OfDesk   == {"flags", "switch", "limits", "bucket", "guard", "jobs", "restore"}
OfWallet == {"session", "keyed", "timer", "list", "toast", "shell"}

\* Whatever `service` is not stays as it is.
Only(service) ==
  /\ part = service /\ UNCHANGED part
  /\ service # "migrations" => UNCHANGED migrationVars
  /\ service # "pool" => UNCHANGED poolVars
  /\ service \notin OfVenice => UNCHANGED veniceVars
  /\ service \notin OfData => UNCHANGED dataVars
  /\ service # "log" => UNCHANGED logVars
  /\ service \notin OfDesk => UNCHANGED deskVars
  /\ service \notin {"registry", "escrow"} => UNCHANGED libraryVars
  /\ service # "page" => UNCHANGED consoleVars
  /\ service \notin OfWallet => UNCHANGED walletVars

\* What bounds the parts further than the constants do.
QuotaPart == DataTick \/ GetStats \/ \E w \in Wallets : Submit(w) \/ \E id \in TaskIds : InsertTask(w, id)
WalkPart  ==
  /\ ListingStep /\ UNCHANGED <<stats, refusals>>
  /\ inserted = <<>> \/ \A w \in Wallets : passing'[w] <= passing[w]
  /\ walk = NoWalk => \A id \in TaskIds : rows'[id].status \in {"none", "queued"}
  /\ Cardinality({id \in TaskIds : rows'[id].status \notin {"none", "queued"}}) <= 1
  /\ walk'.status \in {"any", "queued"}
JobPart     == JobStep /\ deskTime' <= 3 /\ Len(trail') <= 3
PagePart    == ConsoleNext /\ (view' = t2 => visits' = 2)
LogPart     == LogNext /\ (instant' # instant => Len(logged) \in 2 .. 3)
SessionPart == SessionStep /\ Len(balance'.inflight) <= 2
KeyedPart   == /\ KeyedStep \/ Disconnect \/ \E k \in AccountKeys : ConnectSecretKey(k)
               /\ Len(balance'.inflight) + Len(transfers'.inflight) <= 3

PlatformNext ==
  \/ Only("migrations") /\ MigrationsNext
  \/ Only("pool") /\ PoolNext
  \/ Only("calls") /\ CallStep
  \/ Only("streams") /\ StreamStep
  \/ Only("health") /\ HealthStep
  \/ Only("quota") /\ QuotaPart
  \/ Only("walk") /\ WalkPart
  \/ Only("cost") /\ CostStep
  \/ Only("quality") /\ QualityStep
  \/ Only("log") /\ LogPart
  \/ Only("flags") /\ FlagStep
  \/ Only("switch") /\ SwitchStep
  \/ Only("limits") /\ LimitStep
  \/ Only("bucket") /\ BucketStep
  \/ Only("guard") /\ GuardStep
  \/ Only("jobs") /\ JobPart
  \/ Only("restore") /\ RestoringStep
  \/ Only("registry") /\ RegistryStep
  \/ Only("escrow") /\ EscrowStep
  \/ Only("page") /\ PagePart
  \/ Only("session") /\ SessionPart
  \/ Only("keyed") /\ KeyedPart
  \/ Only("timer") /\ TimerStep
  \/ Only("list") /\ ListStep
  \/ Only("toast") /\ ToastStep
  \/ Only("shell") /\ ShellStep

platformVars == <<part, migrationVars, poolVars, veniceVars, dataVars, logVars, deskVars, libraryVars,
                  consoleVars, walletVars>>

PlatformSpec == PlatformInit /\ [][PlatformNext]_platformVars

\* Each invariant is asked of the states in which its service has moved: where it has not,
\* its variables are as one of those states has them at the start.

\* What is kept can be trusted: migrations leave a schema that the ledger describes, task
\* rows and their costs and scores are what the runs wrote, and the log folds to the task.
RecordsInv ==
  /\ part = "migrations" => MigrationsInv
  /\ part \in OfData => DataInv
  /\ part = "log" => EventLogInv

\* Who asks from outside is shown and charged what happened: the callers of Venice, of the
\* client library, and the pages over their caches, retries and switches.
ClientsInv ==
  /\ part \in OfVenice => VeniceInv
  /\ part \in {"registry", "escrow"} => LibraryInv
  /\ part = "page" => ConsoleInv
  /\ part \in OfWallet => WalletInv
=============================================================================
