----------------------------- MODULE MCBackend -----------------------------
(***************************************************************************)
(* The services of the backend that share no state, one at a time: `part`   *)
(* is chosen at the start and says whose steps the behaviour takes, so that *)
(* the states of a run are the sum of the services' and not their product.  *)
(***************************************************************************)
EXTENDS JobSubmission, TaskAdmission, CircuitBreaker, BudgetLedger, SessionRotation,
        RegistrySync, TaskEvents, AdminControl, TLC

CONSTANTS j1, j2, j3, t1, t2, r1, r2, r3, p1, p2, s1, e1, bg, b3

VARIABLE part

MCTaskOf    == (j1 :> t1) @@ (j2 :> t1) @@ (j3 :> t2)
MCKeyOf     == [r \in {r1, r2, r3} |-> "k1"]
MCProcessOf == (r1 :> p1) @@ (r2 :> p2) @@ (r3 :> p1)
MCHostOf    == [w \in {s1, e1} |-> "h"]
MCDatabases == <<"d1", "d2">>

BackendInit ==
  /\ part \in {"submission", "admission", "breaker", "probe", "budget", "session", "fleet", "walk",
               "sync", "proofs", "nonces", "beats", "retention", "stream", "audit", "upkeep", "backup"}
  /\ SubmissionInit /\ AdmissionInit /\ BreakerInit /\ BudgetInit /\ SessionInit /\ SyncInit
  /\ RetentionInit /\ StreamInit
  /\ AdminInit /\ keyed["p2"] /\ (part \notin {"upkeep", "backup"} => keyed["p1"]) /\ (part # "audit" => log = <<>>)

\* Whatever `service` is not stays as it is.
Only(service) ==
  /\ part = service /\ UNCHANGED part
  /\ service # "submission" => UNCHANGED submissionVars
  /\ service # "admission" => UNCHANGED admissionVars
  /\ service \notin {"breaker", "probe"} => UNCHANGED breakerVars
  /\ service # "budget" => UNCHANGED budgetVars
  /\ service # "session" => UNCHANGED sessionVars
  /\ service \notin {"fleet", "walk", "sync", "proofs", "nonces", "beats"} => UNCHANGED <<fleetVars, chainVars>>
  /\ service # "retention" => UNCHANGED retentionVars
  /\ service # "stream" => UNCHANGED streamVars
  /\ service \notin {"audit", "upkeep", "backup"} => UNCHANGED adminVars
\* What bounds the parts further than the constants do.
Absent(a)    == agentRow'[a] = NoRow
FleetPart    == FleetNext /\ walk' = walk /\ UNCHANGED chainVars /\ Absent(3) /\ fleetTime' <= 4
WalkPart     == FleetNext /\ UNCHANGED chainVars /\ fleetTime' <= 1
                /\ serving' /\ listing' = NotCached /\ UNCHANGED <<lastPass, alerts>> /\ swept' = {}
SyncPart     == /\ SyncNext /\ walk' = walk /\ Absent(2) /\ Absent(3) /\ fleetTime' = 0
                /\ ~ReadListing /\ ~WatchdogPass /\ ~DeleteOffline /\ ~CleanupTick
                /\ ~\E a \in FleetAgents : DeregisterAgent(a) \/ (SetAgentEnabled(a) /\ ~Heartbeat(a))
Busy         == {c \in Calls : through'[c] # NoBreaker}
BreakerPart  == BreakerNext /\ UNCHANGED probe /\ breaker'[b3] = breaker[b3]
ProbePart    == /\ BreakerNext /\ Cardinality(Busy) <= 1 /\ breaker'[bg] = breaker[bg]
                /\ (probe'.kind = "ready" => \A b \in Breakers : breaker'[b].failures = 0)
                /\ LET met == DOMAIN probe'.answer
                   IN  probe'.kind = "deep" => (met # {} => "database" \in met) /\ (met \cap {"venice", "horizon"} # {} => "queue" \in met)
ProofPart    == /\ ProofStep \/ FleetTick
                /\ fleetTime' <= 1 /\ \A n \in DOMAIN proofs' : proofs'[n].of = 1 /\ proofs'[n].for # "delete"
NoncePart    == (NonceStep \/ FleetTick) /\ fleetTime' <= 2
BeatPart     == BeatStep /\ beats'[3] = NoBeats
Eldest       == CHOOSE c \in AdminCalls : TRUE
AuditPart    == /\ AdminNext /\ UNCHANGED <<backups, crashes, manual, life>> /\ passes' <= 1
                /\ (call'[Eldest].stage = "idle" => call' = call) /\ (upkeep["p1"].next \in 1 .. 2 => upkeep' # upkeep)
                /\ (exporting'.state # exporting.state => log # <<>> /\ \E c \in AdminCalls : call[c].stage \in {"writing", "recorded", "lost"})
                /\ upkeep'["p2"] = AtRest /\ upkeep'["p1"].stage \in {AtRest.stage, "next"}
UpkeepPart   == UpkeepStep /\ upkeep'["p2"] = AtRest /\ keyed'["p2"] /\ life'["p2"] = "up" /\ UNCHANGED manual
ManualPart   == UpkeepStep /\ passes' <= 1 /\ manual'.by # "p2" /\ upkeep'["p2"] = AtRest /\ life'["p2"] = "up"

BackendNext ==
  \/ Only("submission") /\ SubmissionNext
  \/ Only("admission") /\ AdmissionNext /\ (stage'[r3] # "new" => stage'[r1] \in {"respond", "done"} /\ r3 \notin bare')
  \/ Only("breaker") /\ BreakerPart
  \/ Only("probe") /\ ProbePart
  \/ Only("budget") /\ BudgetNext
  \/ Only("session") /\ SessionNext
  \/ Only("fleet") /\ FleetPart
  \/ Only("walk") /\ WalkPart
  \/ Only("sync") /\ SyncPart
  \/ Only("proofs") /\ ProofPart /\ UNCHANGED chainVars
  \/ Only("nonces") /\ NoncePart /\ UNCHANGED chainVars
  \/ Only("beats") /\ BeatPart /\ UNCHANGED chainVars
  \/ Only("retention") /\ RetentionNext
  \/ Only("stream") /\ StreamNext
  \/ Only("audit") /\ AuditPart
  \/ Only("upkeep") /\ UpkeepPart
  \/ Only("backup") /\ ManualPart

backendVars == <<part, submissionVars, admissionVars, breakerVars, budgetVars, sessionVars, fleetVars,
                 chainVars, retentionVars, streamVars, adminVars>>

BackendSpec == BackendInit /\ [][BackendNext]_backendVars
=============================================================================
