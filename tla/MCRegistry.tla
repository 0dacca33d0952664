----------------------------- MODULE MCRegistry -----------------------------
(***************************************************************************)
(* The registry contract's concerns that share no state, and the disputes   *)
(* that work on its bonds.  As in MCBackend, `part` says which of them a    *)
(* behaviour is about.                                                      *)
(***************************************************************************)
EXTENDS DisputeResolution, RegistryMultisig, AgentReputation, RegistryVersions,
        AgentDiscovery, RegistryAudit

CONSTANTS m1, m2, a1, a2

VARIABLE part

Config(S, listed, threshold) == [admins |-> S, listed |-> listed, threshold |-> threshold, delay |-> 1]

\* The second lists m2 twice, the third asks for more approvals than there are admins.
MCConfigs    == {Config({m1, m2}, 2, 2), Config({m2}, 2, 1), Config({m2}, 1, 2)}
MCOperations ==
  {[kind |-> "pause"], [kind |-> "unpause"], [kind |-> "set_admin", to |-> m2],
   [kind |-> "slash", amount |-> 1], [kind |-> "min_bond", amount |-> 1]}
  \cup {[kind |-> "multisig", config |-> c] : c \in {Config({m2}, 2, 1), Config({m2}, 1, 2)}}

MCGrades        == {[success |-> 100, quality |-> 50, uptime |-> 150, price |-> 0]}
MCDeltas        == {-10, 0, 20}
MCSchedules     == {[pct |-> 50, epoch |-> 1], [pct |-> 100, epoch |-> 2]}
MCFirstSchedule == [pct |-> 50, epoch |-> 1]
MCServiceLevels == {[response |-> 2, uptime |-> 50, quality |-> 50],
                    [response |-> 1, uptime |-> 50, quality |-> 60]}

MCAgentVersions == {<<1, 0, 0>>, <<1, 2, 0>>, <<2, 1, 0>>}
MCCodeVersions  == {<<>>, <<0, 9, 0>>, <<1, 1, 0>>, <<2, 0, 0>>}

MCTerms   == {[price |-> 1, rep |-> 100, latency |-> 2, avail |-> 120],
              [price |-> 2, rep |-> 50, latency |-> 1, avail |-> 100]}
MCQueries == {[maxPrice |-> 0, minRep |-> 0, maxLatency |-> 0],
              [maxPrice |-> 1, minRep |-> 0, maxLatency |-> 2]}

MCDefaultAudit == [limit |-> 1, window |-> 2, high |-> 2, retention |-> 1]
MCAuditConfigs == {MCDefaultAudit, [limit |-> 2, window |-> 1, high |-> 1, retention |-> 2]}

RegistrySuiteInit ==
  /\ part \in {"registry", "dispute", "multisig", "scores", "figures", "publish",
               "code", "discovery", "trail", "proofs"}
  /\ DisputeInit /\ MultisigInit /\ ReputationInit /\ VersionsInit /\ DiscoveryInit /\ AuditInit

Only(concern) ==
  /\ part = concern /\ UNCHANGED part
  /\ concern \notin {"registry", "dispute"} => UNCHANGED <<registryVars, disputeVars>>
  /\ concern # "multisig" => UNCHANGED multisigVars
  /\ concern \notin {"scores", "figures"} => UNCHANGED ratedVars
  /\ concern \notin {"publish", "code"} => UNCHANGED versionVars
  /\ concern # "discovery" => UNCHANGED discoveryVars
  /\ concern \notin {"trail", "proofs"} => UNCHANGED auditVars

\* What bounds the parts further than the constants do.
RegistryPart == (RegistryStep \/ RegistryTick) /\ UNCHANGED disputeVars
                /\ adminActs' <= 1 /\ (Registered(a2)' => Registered(a1)' \/ Registered(a2))
DisputePart  == DisputeNext /\ Len(sequenceOf') <= 1 /\ paidIn' \in {0, 2} /\ adminActs' <= 1
                /\ UNCHANGED <<minBond, slaSet>> /\ ~Registered(a2)'
ScoresPart   == ReputationNext /\ \A a \in RatedAgents : figures'[a] = figures[a]
FiguresPart  == ReputationNext /\ UNCHANGED <<scoreOf, outcomes, ratedTime, settings>> /\ Len(enrolments') <= 1
                /\ figures'[a2] = figures[a2] /\ a2 \notin enrolled'
PublishPart  == VersionsNext /\ installs' = installs /\ UNCHANGED codeLedger
CodePart     == VersionsNext /\ UNCHANGED based
ProofsPart   == (BridgeNext \/ ErrorNext \/ TrailTick) /\ Len(trail') <= 2 /\ trailTime' <= 2

RegistrySuiteNext ==
  \/ Only("registry") /\ RegistryPart
  \/ Only("dispute") /\ DisputePart
  \/ Only("multisig") /\ MultisigNext
  \/ Only("scores") /\ ScoresPart
  \/ Only("figures") /\ FiguresPart
  \/ Only("publish") /\ PublishPart
  \/ Only("code") /\ CodePart
  \/ Only("discovery") /\ DiscoveryNext
  \/ Only("trail") /\ (TrailNext \/ TrailTick)
  \/ Only("proofs") /\ ProofsPart

registrySuiteVars == <<part, registryVars, disputeVars, multisigVars, ratedVars, versionVars,
                       discoveryVars, auditVars>>

RegistrySuiteSpec == RegistrySuiteInit /\ [][RegistrySuiteNext]_registrySuiteVars
=============================================================================
