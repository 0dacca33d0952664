--------------------------- MODULE UpgradeManager ---------------------------
(***************************************************************************)
(* The upgrade manager contract                                            *)
(* (src/smart-contracts/contracts/upgrade-manager/src): upgrades of the    *)
(* contract's own code are proposed, approved by members under a multisig  *)
(* that the admin may replace meanwhile, wait out a timelock, are executed *)
(* and can be rolled back for a while.  Several proposals are in flight at *)
(* once.  One clock stands for the ledger's seconds and its sequence.      *)
(***************************************************************************)
EXTENDS Naturals, Sequences, FiniteSets

CONSTANTS Members, Upgrades,
          FirstAdmin,
          VersionOf,        \* VersionOf[u]: the rank of new_version; the first version is 0
          Multisigs,        \* the MultisigConfigs the admin may set
          DefaultDelay, UpgradeExpiry, RollbackWindow,
          UpgradeEnd        \* bound on the ledger's time

ASSUME UpgradeAssumption ==
  /\ FirstAdmin \in Members /\ IsFiniteSet(Upgrades)
  /\ VersionOf \in [Upgrades -> Nat]
  /\ \A c \in Multisigs : /\ c.admins \subseteq Members
                          /\ c.threshold \in 1 .. Cardinality(c.admins)
                          /\ c.delay \in Nat \ {0}
  /\ {DefaultDelay, UpgradeExpiry, RollbackWindow, UpgradeEnd} \subseteq Nat

VARIABLES upgrade,        \* upgrade[u]: the UpgradeProposal
          rollback,       \* rollback[u]: its RollbackRecord, or none
          running,        \* CurrentVersion: version and code
          swaps,          \* the codes swap_wasm was given, in order
          versionIndex,   \* the versions recorded
          multisig, upgradeAdmin, upgradesPaused, upgradeTime

upgradeVars == <<upgrade, rollback, running, swaps, versionIndex, multisig, upgradeAdmin,
                 upgradesPaused, upgradeTime>>

Original == [version |-> 0, code |-> "original"]
Versions == {Original} \cup {[version |-> VersionOf[u], code |-> u] : u \in Upgrades}
NoRollback == [to |-> Original, deadline |-> 0, usable |-> FALSE]
NoMultisig == [admins |-> {}, threshold |-> 1, delay |-> DefaultDelay]
NoUpgrade == [status |-> "none", approvals |-> {}, created |-> 0, eta |-> 0, validated |-> FALSE]
Terminal == {"executed", "rolled_back", "expired"}

UpgradeTypeOK ==
  /\ \A u \in Upgrades :
       /\ upgrade[u].status \in {"none", "proposed", "pending_timelock"} \cup Terminal
       /\ upgrade[u].approvals \subseteq Members
       /\ {upgrade[u].created, upgrade[u].eta} \subseteq Nat
       /\ upgrade[u].validated \in BOOLEAN
       /\ rollback[u].to \in Versions
  /\ running \in Versions /\ versionIndex \subseteq {v.version : v \in Versions}
  /\ multisig \in Multisigs \cup {NoMultisig} /\ upgradeAdmin \in Members
  /\ upgradesPaused \in BOOLEAN /\ upgradeTime \in 0 .. UpgradeEnd

UpgradeInit ==
  /\ upgrade = [u \in Upgrades |-> NoUpgrade]
  /\ rollback = [u \in Upgrades |-> NoRollback]
  /\ running = Original /\ swaps = <<>> /\ versionIndex = {0}
  /\ multisig = NoMultisig /\ upgradeAdmin = FirstAdmin
  /\ upgradesPaused = FALSE /\ upgradeTime = 0

-----------------------------------------------------------------------------
Member(m) == m = upgradeAdmin \/ m \in multisig.admins
Governed(m) == ~upgradesPaused /\ Member(m)
Fixed == UNCHANGED <<multisig, upgradeAdmin, upgradesPaused, upgradeTime>>
KeepsRunning == UNCHANGED <<rollback, running, swaps, versionIndex>>

ExpiresAt(u) == upgrade[u].created + UpgradeExpiry

\* Mutant: only the eta is asked for, not what became of the proposal.
MutantEffectiveStatus(u) ==
  IF upgrade[u].eta > 0 /\ upgradeTime >= upgrade[u].eta THEN "ready" ELSE upgrade[u].status

\* "ready" is derived, never stored.
EffectiveStatus(u) ==
  IF upgrade[u].status \in Terminal THEN upgrade[u].status
  ELSE IF upgradeTime > ExpiresAt(u) THEN "expired"
  ELSE IF /\ upgrade[u].status = "pending_timelock"
          /\ upgrade[u].eta > 0 /\ upgradeTime >= upgrade[u].eta
       THEN "ready" ELSE upgrade[u].status

\* The timelock starts when the approvals first reach the threshold in force.
Timelocked(proposal) ==
  IF proposal.eta = 0 /\ Cardinality(proposal.approvals) >= multisig.threshold
  THEN [proposal EXCEPT !.eta = upgradeTime + multisig.delay, !.status = "pending_timelock"]
  ELSE proposal

\* The version has to be newer than the one that runs now.
ProposeUpgrade(m, u) ==
  /\ Governed(m)
  /\ upgrade[u].status = "none"
  /\ VersionOf[u] > running.version
  /\ upgrade' = [upgrade EXCEPT ![u] =
       Timelocked([NoUpgrade EXCEPT !.status = "proposed", !.approvals = {m}, !.created = upgradeTime])]
  /\ Fixed /\ KeepsRunning

ApproveUpgrade(m, u) ==
  /\ Governed(m)
  /\ upgrade[u].status \notin {"none", "executed", "rolled_back"}
  /\ upgradeTime <= ExpiresAt(u)
  /\ m \notin upgrade[u].approvals
  /\ upgrade' = [upgrade EXCEPT ![u] = Timelocked([upgrade[u] EXCEPT !.approvals = @ \cup {m}])]
  /\ Fixed /\ KeepsRunning

\* Every pre-upgrade check the contract knows succeeds.
ValidateProposal(m, u) ==
  /\ Governed(m)
  /\ upgrade[u].status \notin {"none", "executed", "rolled_back"}
  /\ upgrade' = [upgrade EXCEPT ![u].validated = TRUE]
  /\ Fixed /\ KeepsRunning

ExecuteUpgrade(m, u) ==
  /\ Governed(m)
  /\ EffectiveStatus(u) = "ready"
  /\ Cardinality(upgrade[u].approvals) >= multisig.threshold
  /\ upgrade[u].validated
  /\ running' = [version |-> VersionOf[u], code |-> u]
  /\ swaps' = Append(swaps, u)
  /\ versionIndex' = versionIndex \cup {VersionOf[u]}
  /\ rollback' = [rollback EXCEPT ![u] =
       [to |-> running, deadline |-> upgradeTime + RollbackWindow, usable |-> TRUE]]
  /\ upgrade' = [upgrade EXCEPT ![u].status = "executed"]
  /\ Fixed

RollbackUpgrade(m, u) ==
  /\ Governed(m)
  /\ upgrade[u].status = "executed"
  /\ rollback[u].usable /\ upgradeTime <= rollback[u].deadline
  /\ running' = rollback[u].to
  /\ swaps' = Append(swaps, rollback[u].to.code)
  /\ rollback' = [rollback EXCEPT ![u] = NoRollback]
  /\ upgrade' = [upgrade EXCEPT ![u].status = "rolled_back"]
  /\ UNCHANGED versionIndex /\ Fixed

\* Works while paused.
SweepExpiredProposals(m) ==
  LET late == {u \in Upgrades : /\ upgrade[u].status \in {"proposed", "pending_timelock"}
                                /\ upgradeTime > ExpiresAt(u)} IN
  /\ Member(m) /\ late # {}
  /\ upgrade' = [u \in Upgrades |-> IF u \in late THEN [upgrade[u] EXCEPT !.status = "expired"]
                                    ELSE upgrade[u]]
  /\ Fixed /\ KeepsRunning

-----------------------------------------------------------------------------
SetUpgradeAdmin(m) ==
  /\ ~upgradesPaused
  /\ upgradeAdmin' = m
  /\ UNCHANGED <<upgrade, multisig, upgradesPaused, upgradeTime>> /\ KeepsRunning

SetUpgradeMultisig(config) ==
  /\ ~upgradesPaused
  /\ multisig' = config
  /\ UNCHANGED <<upgrade, upgradeAdmin, upgradesPaused, upgradeTime>> /\ KeepsRunning

PauseUpgrades ==
  /\ upgradesPaused' = ~upgradesPaused
  /\ UNCHANGED <<upgrade, multisig, upgradeAdmin, upgradeTime>> /\ KeepsRunning

UpgradeTick ==
  /\ upgradeTime < UpgradeEnd /\ upgradeTime' = upgradeTime + 1
  /\ UNCHANGED <<upgrade, multisig, upgradeAdmin, upgradesPaused>> /\ KeepsRunning

UpgradeNext ==
  \/ \E m \in Members :
       \/ \E u \in Upgrades : \/ ProposeUpgrade(m, u) \/ ApproveUpgrade(m, u)
                              \/ ValidateProposal(m, u)
                              \/ ExecuteUpgrade(m, u) \/ RollbackUpgrade(m, u)
       \/ SweepExpiredProposals(m) \/ SetUpgradeAdmin(m)
  \/ \E config \in Multisigs : SetUpgradeMultisig(config)
  \/ PauseUpgrades \/ UpgradeTick

UpgradeSpec == UpgradeInit /\ [][UpgradeNext]_upgradeVars

-----------------------------------------------------------------------------
Status(s) == {u \in Upgrades : upgrade[u].status = s}

\* What runs is what was swapped in last, and every swap is one execution or one rollback
\* of one proposal: none is executed or rolled back twice, however many are in flight.
SwapsAddUp ==
  /\ swaps # <<>> => running.code = swaps[Len(swaps)]
  /\ Len(swaps) = Cardinality(Status("executed")) + 2 * Cardinality(Status("rolled_back"))
  /\ running.version \in versionIndex
  /\ \A u \in Upgrades : rollback[u].usable <=> u \in Status("executed")

\* Typed states, in which code, versions and proposals tell one story.
UpgradeInv == UpgradeTypeOK /\ SwapsAddUp
=============================================================================
