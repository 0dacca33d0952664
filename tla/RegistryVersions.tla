-------------------------- MODULE RegistryVersions --------------------------
(***************************************************************************)
(* Two kinds of version the agent registry keeps                           *)
(* (src/smart-contracts/contracts/agent_registry/src/lib.rs, upgrade.rs):  *)
(* the published capability versions of each agent, with the lookup that   *)
(* asks for a least version, and the version of the contract's own code    *)
(* with its upgrades, their hooks and the emergency rollback.  A version is *)
(* its three numbers, or Malformed when the string does not parse.         *)
(***************************************************************************)
EXTENDS Naturals, FiniteSets, SequencesExt

CONSTANTS VersionedAgents,
          AgentVersions,     \* versions published
          CodeVersions,      \* versions given to upgrades; may hold Malformed
          Wasms,             \* code given to upgrades
          FirstWasm,
          RollbackLedgers,   \* ROLLBACK_WINDOW_LEDGERS
          MaxInstalls,       \* bound: upgrades
          CodeEnd            \* bound: ledger sequence

Malformed == <<>>
Semver == Nat \X Nat \X Nat
FirstVersion == <<1, 0, 0>>    \* CURRENT_VERSION

ASSUME VersionsAssumption ==
    /\ AgentVersions \subseteq Semver /\ CodeVersions \subseteq Semver \cup {Malformed}
    /\ FirstWasm \in Wasms
    /\ {RollbackLedgers, MaxInstalls} \subseteq Nat /\ CodeEnd \in Nat \ {0}

VARIABLES based,          \* agents with a base record
          published,      \* AgentVersionIndex, oldest first
          superseded,     \* VersionedAgentRecords marked superseded
          code,           \* the running Wasm
          codeVersion,    \* the version recorded for it
          lastUpgrade,    \* ledger of the last upgrade; 0 when there is none
          codePaused,
          installs, rollbacks,   \* history: upgrades and rollbacks so far
          migrations,     \* history: migrations of the storage format
          codeLedger

versionVars == <<based, published, superseded, code, codeVersion, lastUpgrade, codePaused,
                 installs, rollbacks, migrations, codeLedger>>
publishVars == <<based, published, superseded>>

VersionsTypeOK ==
    /\ based \subseteq VersionedAgents
    /\ published \in [VersionedAgents -> Seq(AgentVersions)]
    /\ superseded \in [VersionedAgents -> SUBSET AgentVersions]
    /\ code \in Wasms /\ codeVersion \in CodeVersions \cup {FirstVersion}
    /\ lastUpgrade \in 0 .. CodeEnd /\ codePaused \in BOOLEAN
    /\ installs \in 0 .. MaxInstalls /\ rollbacks \in Nat /\ migrations \in Nat
    /\ codeLedger \in 1 .. CodeEnd

-----------------------------------------------------------------------------
(* Agents' versions.                                                       *)

\* a bug: a lower major version with a higher minor one passes
MutantVersionLT(a, b) == \E i \in 1 .. 3 : a[i] < b[i]
VersionLT(a, b) == \E i \in 1 .. 3 : a[i] < b[i] /\ \A j \in 1 .. i - 1 : a[j] = b[j]

KeepCode == UNCHANGED <<code, codeVersion, lastUpgrade, codePaused, installs, rollbacks,
                        migrations, codeLedger>>

\* Registration and deregistration; what was published stays.
BaseRecord(a) ==
    /\ ~codePaused
    /\ based' = IF a \in based THEN based \ {a} ELSE based \cup {a}
    /\ UNCHANGED <<published, superseded>> /\ KeepCode

RegisterAgentVersion(a, v) ==
    /\ ~codePaused /\ a \in based
    /\ \A i \in DOMAIN published[a] : VersionLT(published[a][i], v)
    /\ published' = [published EXCEPT ![a] = Append(@, v)]
    /\ superseded' = [superseded EXCEPT ![a] =
         IF published[a] = <<>> THEN @ ELSE @ \cup {Last(published[a])}]
    /\ UNCHANGED based /\ KeepCode

\* lookup_agents_versioned: the newest version not superseded decides.
Current(a) == {i \in DOMAIN published[a] : published[a][i] \notin superseded[a]}
Satisfies(a, least) == /\ Current(a) # {}
                       /\ ~VersionLT(published[a][Max(Current(a))], least)
LookupVersioned(least) == {a \in based : Satisfies(a, least)}

-----------------------------------------------------------------------------
(* The contract's code.                                                    *)

\* check_compatibility: both versions parse and the target is no downgrade.
Compatible(target) == /\ Malformed \notin {codeVersion, target}
                      /\ ~VersionLT(target, codeVersion)

Install(w, v) ==
    /\ installs < MaxInstalls /\ installs' = installs + 1
    /\ code' = w /\ codeVersion' = v /\ lastUpgrade' = codeLedger
    /\ UNCHANGED <<codePaused, rollbacks, codeLedger>> /\ UNCHANGED publishVars

\* upgrade: no hook runs, and any version is taken down.
UpgradeCode(w, v) == Install(w, v) /\ UNCHANGED migrations

\* generate_migration_steps from the version this code was compiled with.
Migrates(from, to) == from[1] = 1 /\ to[1] = 2

\* upgrade_contract: both hooks, the second from the compiled version.
UpgradeContract(w, v) ==
    /\ Compatible(v) /\ ~codePaused
    /\ ~VersionLT(v, FirstVersion)
    /\ Install(w, v)
    /\ migrations' = IF Migrates(FirstVersion, v) THEN migrations + 1 ELSE migrations

\* get_upgrade_status.
RollbackAvailable == lastUpgrade > 0 /\ codeLedger <= lastUpgrade + RollbackLedgers

Forgotten == 0

EmergencyRollback(w, v) ==
    /\ RollbackAvailable
    /\ code' = w /\ codeVersion' = v /\ lastUpgrade' = Forgotten
    /\ rollbacks' = rollbacks + 1
    /\ UNCHANGED <<codePaused, installs, migrations, codeLedger>> /\ UNCHANGED publishVars

PauseCode ==
    /\ codePaused' = ~codePaused
    /\ UNCHANGED <<code, codeVersion, lastUpgrade, installs, rollbacks, migrations, codeLedger>>
    /\ UNCHANGED publishVars

CodeTick ==
    /\ codeLedger < CodeEnd /\ codeLedger' = codeLedger + 1
    /\ UNCHANGED <<code, codeVersion, lastUpgrade, codePaused, installs, rollbacks, migrations>>
    /\ UNCHANGED publishVars

-----------------------------------------------------------------------------
VersionsInit ==
    /\ based = {} /\ published = [a \in VersionedAgents |-> <<>>]
    /\ superseded = [a \in VersionedAgents |-> {}]
    /\ code = FirstWasm /\ codeVersion = FirstVersion /\ lastUpgrade = 0 /\ codePaused = FALSE
    /\ installs = 0 /\ rollbacks = 0 /\ migrations = 0 /\ codeLedger = 1

VersionsNext ==
    \/ \E a \in VersionedAgents : BaseRecord(a) \/ \E v \in AgentVersions : RegisterAgentVersion(a, v)
    \/ \E w \in Wasms, v \in CodeVersions : UpgradeCode(w, v) \/ UpgradeContract(w, v) \/ EmergencyRollback(w, v)
    \/ PauseCode \/ CodeTick

VersionsSpec == VersionsInit /\ [][VersionsNext]_versionVars

-----------------------------------------------------------------------------
(* The lookup goes by the greatest version an agent ever published, which  *)
(* is the only one not superseded, also after the agent left and came back *)
(* (register_agent_version, lookup_agents_versioned).                      *)
LookupGoesByGreatest == \A a \in VersionedAgents : published[a] # <<>> =>
    /\ Cardinality(Current(a)) = 1
    /\ \A least \in AgentVersions :
         a \in LookupVersioned(least) <=>
           a \in based /\ \E v \in Range(published[a]) : ~VersionLT(v, least)

(* An upgrade can be rolled back at most once: there are never more        *)
(* rollbacks than upgrades, and never one when no upgrade is recorded      *)
(* (emergency_rollback).                                                   *)
OneRollbackPerUpgrade == rollbacks + (IF lastUpgrade > 0 THEN 1 ELSE 0) <= installs

(* Versions of agents and of the code only move as lookups and rollbacks   *)
(* take for granted.                                                       *)
VersionsInv == VersionsTypeOK /\ LookupGoesByGreatest /\ OneRollbackPerUpgrade
=============================================================================
