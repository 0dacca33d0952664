---------------------------- MODULE AgentRegistry ----------------------------
(***************************************************************************)
(* The agent registry contract                                             *)
(* (src/smart-contracts/contracts/agent_registry/src/lib.rs and bond.rs):  *)
(* registration one by one and in batches, the indexes over the agents, the *)
(* life of a bond (deposit, slash, reward, cooldown, return), and the       *)
(* entry points the dispute contract locks and slashes bonds through.       *)
(* A bond is kept three times over: in the AgentRecord, in the BondRecord   *)
(* and, after a deregistration, in a CooldownRecord.  The contract moves no *)
(* funds itself; paidIn and paidOut are what its events tell the payment    *)
(* side to collect and to return.  Prices and metadata are left out.        *)
(***************************************************************************)
EXTENDS Integers, SequencesExt

CONSTANTS AgentIds, Owners, Capabilities, NoOwner,
          BondAmounts,       \* amounts an owner may bring
          MinBonds,          \* values of the minimum bond; the least is the first
          BondCooldown,      \* BOND_COOLDOWN_LEDGERS
          SlaPenalty,        \* SLA_PENALTY_PERCENT
          MaxAgents, MaxPerCapability,   \* StorageConfig; 0 is no limit
          MaxRegistrations,  \* bound on the registration sequence
          MaxBrought,        \* bound on what owners bring in all
          MaxAdminActs,      \* bound on the administrators' changes of settings
          LedgerEnd          \* bound on the ledger's time

ASSUME RegistryAssumption ==
  /\ IsFiniteSet(AgentIds) /\ NoOwner \notin Owners
  /\ BondAmounts \subseteq Nat \ {0} /\ MinBonds \subseteq Nat /\ MinBonds # {}
  /\ SlaPenalty \in 0 .. 100
  /\ {BondCooldown, MaxAgents, MaxPerCapability, MaxRegistrations, MaxBrought,
      MaxAdminActs, LedgerEnd} \subseteq Nat

VARIABLES agentRec,    \* agentRec[a]: the AgentRecord; its owner is NoOwner when there is none
          bondRec,     \* bondRec[a]: the BondRecord
          cooling,     \* cooling[a]: the CooldownRecord
          held,        \* agents with a DisputeBondLock
          flagged,     \* agents with a SlashedBond mark
          frozen,      \* frozen agents
          slaSet,      \* agents with service-level terms
          capIndex,    \* capIndex[c]: the ids listed under capability c
          sequenceOf,  \* AgentByIndex, in order
          total,       \* TotalAgents
          rewardPool, minBond, registryPaused,
          paidIn, paidOut,
          adminActs,   \* changes of settings so far
          ledger

registryVars == <<agentRec, bondRec, cooling, held, flagged, frozen, slaSet, capIndex,
                  sequenceOf, total, rewardPool, minBond, registryPaused, paidIn, paidOut, adminActs, ledger>>
indexVars == <<capIndex, sequenceOf, total>>

NoAgent == [owner |-> NoOwner, cap |-> NoOwner, bond |-> 0]
NoBond == [owner |-> NoOwner, amount |-> 0, status |-> "none", until |-> 0]
NoCooldown == [owner |-> NoOwner, amount |-> 0, until |-> 0]

RegistryTypeOK ==
  /\ agentRec \in [AgentIds -> [owner : Owners \cup {NoOwner}, cap : Capabilities \cup {NoOwner}, bond : Nat]]
  /\ bondRec \in [AgentIds -> [owner : Owners \cup {NoOwner}, amount : Nat, until : Nat,
                    status : {"none", "active", "cooldown", "slashed", "returned"}]]
  /\ cooling \in [AgentIds -> [owner : Owners \cup {NoOwner}, amount : Nat, until : Nat]]
  /\ held \subseteq AgentIds /\ flagged \subseteq AgentIds
  /\ frozen \subseteq AgentIds /\ slaSet \subseteq AgentIds
  /\ capIndex \in [Capabilities -> Seq(AgentIds)] /\ sequenceOf \in Seq(AgentIds)
  /\ {total, rewardPool, paidIn, paidOut} \subseteq Nat
  /\ minBond \in MinBonds /\ registryPaused \in BOOLEAN
  /\ adminActs \in 0 .. MaxAdminActs /\ ledger \in 0 .. LedgerEnd

RegistryInit ==
  /\ agentRec = [a \in AgentIds |-> NoAgent] /\ bondRec = [a \in AgentIds |-> NoBond]
  /\ cooling = [a \in AgentIds |-> NoCooldown]
  /\ held = {} /\ flagged = {} /\ frozen = {} /\ slaSet = {}
  /\ capIndex = [c \in Capabilities |-> <<>>] /\ sequenceOf = <<>> /\ total = 0
  /\ rewardPool = 0 /\ minBond = Min(MinBonds) /\ registryPaused = FALSE
  /\ paidIn = 0 /\ paidOut = 0 /\ adminActs = 0 /\ ledger = 0

Registered(a) == agentRec[a].owner # NoOwner
IsCooling(a) == cooling[a].owner # NoOwner
HasBond(a) == bondRec[a].status # "none"
BondIs(a, s) == bondRec[a].status = s
Running == ~registryPaused
Unlocked(a) == a \notin held
KeepAdmin == UNCHANGED <<frozen, slaSet, minBond, registryPaused, adminActs, ledger>>
AdminAct == adminActs < MaxAdminActs /\ adminActs' = adminActs + 1

-----------------------------------------------------------------------------
(* Registration.                                                           *)

\* An identity that was slashed returns with its restored bond, by its owner.
BondSuffices(r) ==
  /\ r.bond >= minBond
  /\ r.id \in flagged => /\ BondIs(r.id, "active") /\ bondRec[r.id].amount >= minBond
                         /\ bondRec[r.id].owner = r.owner /\ r.bond >= bondRec[r.id].amount

WithinLimits(rows) ==
  /\ MaxAgents > 0 => total + Cardinality(rows) <= MaxAgents
  /\ MaxPerCapability > 0 => \A c \in {r.cap : r \in rows} :
        Len(capIndex[c]) + Cardinality({r \in rows : r.cap = c}) <= MaxPerCapability

Bring(n) == paidIn + n <= MaxBrought /\ paidIn' = paidIn + n

\* What the owner brings for a new record: all of the bond, but for the part restored before.
Brought(r) == r.bond - (IF r.id \in flagged THEN bondRec[r.id].amount ELSE 0)

\* All rows pass or none is written; a cooldown record is left as it is.
RegisterAgents(rows) ==
  LET ids == {r.id : r \in rows}  row(a) == CHOOSE r \in rows : r.id = a
      brought == [a \in AgentIds |-> IF a \in ids THEN Brought(row(a)) ELSE 0] IN
  /\ Running /\ Cardinality(ids) = Cardinality(rows)
  /\ \A r \in rows : ~Registered(r.id) /\ r.id \notin frozen /\ BondSuffices(r)
  /\ WithinLimits(rows)
  /\ Len(sequenceOf) + Cardinality(rows) <= MaxRegistrations
  /\ agentRec' = [a \in AgentIds |-> IF a \in ids
        THEN [owner |-> row(a).owner, cap |-> row(a).cap, bond |-> row(a).bond] ELSE agentRec[a]]
  /\ bondRec' = [a \in AgentIds |-> IF a \in ids
        THEN [owner |-> row(a).owner, amount |-> row(a).bond, status |-> "active", until |-> 0]
        ELSE bondRec[a]]
  /\ flagged' = flagged \ ids
  /\ capIndex' = [c \in Capabilities |-> capIndex[c] \o SetToSeq({a \in ids : row(a).cap = c})]
  /\ sequenceOf' = sequenceOf \o SetToSeq(ids) /\ total' = total + Cardinality(rows)
  /\ Bring(SumFunctionOnSet(brought, AgentIds))
  /\ UNCHANGED <<cooling, held, rewardPool, paidOut>> /\ KeepAdmin

\* The loop that lists all but a anew.
Unlist(c, a) ==
  LET updated[i \in 0 .. Len(c)] ==
        IF i = 0 THEN <<>>
        ELSE IF c[i] # a THEN Append(updated[i - 1], c[i]) ELSE updated[i - 1]
  IN updated[Len(c)]

\* The first call: the agent goes and its bond starts to cool.
LeaveRegistry(a) ==
  /\ Running /\ Unlocked(a) /\ ~IsCooling(a) /\ Registered(a)
  /\ capIndex' = [capIndex EXCEPT ![agentRec[a].cap] = Unlist(@, a)]
  /\ total' = IF total > 0 THEN total - 1 ELSE 0
  /\ agentRec' = [agentRec EXCEPT ![a] = NoAgent]
  /\ cooling' = [cooling EXCEPT ![a] = [owner |-> agentRec[a].owner, amount |-> agentRec[a].bond,
                                        until |-> ledger + BondCooldown]]
  /\ bondRec' = [bondRec EXCEPT ![a].status = "cooldown", ![a].until = ledger + BondCooldown]
  /\ UNCHANGED <<held, flagged, sequenceOf, rewardPool, paidIn, paidOut>> /\ KeepAdmin

Uncooled(a) == [cooling EXCEPT ![a] = NoCooldown]

\* The second call returns what the cooldown record says, once it has elapsed.
ReturnCooled(a) ==
  /\ Running /\ Unlocked(a) /\ IsCooling(a) /\ ledger >= cooling[a].until
  /\ paidOut' = paidOut + cooling[a].amount
  /\ cooling' = Uncooled(a)
  /\ bondRec' = [bondRec EXCEPT ![a].amount = 0, ![a].status = "returned", ![a].until = 0]
  /\ UNCHANGED <<agentRec, held, flagged, rewardPool, paidIn>> /\ UNCHANGED indexVars /\ KeepAdmin

-----------------------------------------------------------------------------
(* The bond of a registered agent.                                         *)

SetBond(a, n, status) ==
  bondRec' = [bondRec EXCEPT ![a].amount = n, ![a].status = status,
                             ![a].until = IF status = "cooldown" THEN @ ELSE 0]

DepositBond(a, n) ==
  /\ Running /\ Unlocked(a) /\ n >= minBond /\ Registered(a) /\ ~BondIs(a, "cooldown")
  /\ SetBond(a, bondRec[a].amount + n, "active")
  /\ agentRec' = [agentRec EXCEPT ![a].bond = bondRec[a].amount + n]
  /\ Bring(n)
  /\ UNCHANGED <<cooling, held, flagged, rewardPool, paidOut>> /\ UNCHANGED indexVars /\ KeepAdmin

RestoreSlashedBond(a, n) ==
  LET amount == bondRec[a].amount + n IN
  /\ Running /\ a \in flagged /\ Unlocked(a) /\ HasBond(a) /\ ~BondIs(a, "cooldown")
  /\ SetBond(a, amount, IF amount >= minBond THEN "active" ELSE "slashed")
  /\ agentRec' = IF Registered(a) THEN [agentRec EXCEPT ![a].bond = amount] ELSE agentRec
  /\ Bring(n)
  /\ UNCHANGED <<cooling, held, flagged, rewardPool, paidOut>> /\ UNCHANGED indexVars /\ KeepAdmin

InitiateBondReturn(a) ==
  /\ Running /\ Unlocked(a) /\ HasBond(a) /\ ~BondIs(a, "cooldown") /\ bondRec[a].amount > 0
  /\ bondRec' = [bondRec EXCEPT ![a].status = "cooldown", ![a].until = ledger + BondCooldown]
  /\ UNCHANGED <<agentRec, cooling, held, flagged, rewardPool, paidIn, paidOut>>
  /\ UNCHANGED indexVars /\ KeepAdmin

ClaimBond(a) ==
  /\ Unlocked(a) /\ BondIs(a, "cooldown") /\ ledger >= bondRec[a].until
  /\ paidOut' = paidOut + bondRec[a].amount
  /\ SetBond(a, 0, "returned")
  /\ cooling' = Uncooled(a)
  /\ agentRec' = IF Registered(a) THEN [agentRec EXCEPT ![a].bond = 0] ELSE agentRec
  /\ UNCHANGED <<held, flagged, rewardPool, paidIn>> /\ UNCHANGED indexVars /\ KeepAdmin

RewardBond(a, n) ==
  /\ Unlocked(a) /\ Registered(a) /\ ~BondIs(a, "cooldown") /\ rewardPool >= n
  /\ SetBond(a, bondRec[a].amount + n, "active")
  /\ agentRec' = [agentRec EXCEPT ![a].bond = bondRec[a].amount + n]
  /\ rewardPool' = rewardPool - n
  /\ UNCHANGED <<cooling, held, flagged, paidIn, paidOut>> /\ UNCHANGED indexVars /\ KeepAdmin

\* The penalty is taken from the agent's record; the bond record follows it.
Penalty(a, n) == IF n >= agentRec[a].bond THEN agentRec[a].bond ELSE n

SlashInternal(a, n) ==
  LET left == agentRec[a].bond - Penalty(a, n) IN
  /\ Registered(a) /\ ~BondIs(a, "cooldown")
  /\ agentRec' = [agentRec EXCEPT ![a].bond = left]
  /\ bondRec' = IF HasBond(a) THEN [bondRec EXCEPT ![a].amount = left,
                     ![a].status = IF left = 0 THEN "slashed" ELSE "active"] ELSE bondRec
  /\ flagged' = IF Penalty(a, n) > 0 /\ left < minBond THEN flagged \cup {a} ELSE flagged
  /\ rewardPool' = rewardPool + Penalty(a, n)
  /\ UNCHANGED <<cooling, paidIn, paidOut>> /\ UNCHANGED indexVars /\ KeepAdmin

Share(a, percent) == (bondRec[a].amount * percent) \div 100

SlashBondAmount(a, n) == SlashInternal(a, n) /\ UNCHANGED held
SlashBond(a, percent) ==
  BondIs(a, "active") /\ SlashInternal(a, Share(a, percent)) /\ UNCHANGED held

\* A violated service level costs the agent's record its share, and only that.
CheckSlaCompliance(a) ==
  /\ a \in slaSet /\ Registered(a)
  /\ agentRec' = [agentRec EXCEPT ![a].bond = @ - (@ * SlaPenalty) \div 100]
  /\ UNCHANGED <<bondRec, cooling, held, flagged, rewardPool, paidIn, paidOut>>
  /\ UNCHANGED indexVars /\ KeepAdmin

-----------------------------------------------------------------------------
(* The dispute contract's entry points; each action of that contract takes *)
(* one of them as part of its own step.                                    *)

LockBondForDispute(a) ==
  /\ a \notin held /\ Registered(a) /\ ~IsCooling(a)
  /\ BondIs(a, "active") /\ bondRec[a].amount > 0
  /\ held' = held \cup {a}
  /\ UNCHANGED <<agentRec, bondRec, cooling, flagged, rewardPool, paidIn, paidOut>>
  /\ UNCHANGED indexVars /\ KeepAdmin

ReleaseBondAfterDispute(a) ==
  /\ a \in held /\ held' = held \ {a}
  /\ UNCHANGED <<agentRec, bondRec, cooling, flagged, rewardPool, paidIn, paidOut>>
  /\ UNCHANGED indexVars /\ KeepAdmin

SlashBondFromDispute(a, percent) ==
  a \in held /\ SlashInternal(a, Share(a, percent)) /\ held' = held \ {a}

-----------------------------------------------------------------------------
(* The administrator, the agents' owners and the ledger.                   *)

KeepBonds == UNCHANGED <<agentRec, bondRec, cooling, held, flagged, rewardPool, paidIn, paidOut>>
             /\ UNCHANGED indexVars

FreezeAgent(a) == frozen' = frozen \cup {a} /\ UNCHANGED <<minBond, registryPaused>>
UnfreezeAgent(a) == frozen' = frozen \ {a} /\ UNCHANGED <<minBond, registryPaused>>
SetRegistryPaused(b) == registryPaused' = b /\ UNCHANGED <<frozen, minBond>>
SetMinBond(n) == minBond' = n /\ UNCHANGED <<frozen, registryPaused>>
SetSla(a) == /\ Registered(a) /\ a \notin slaSet /\ slaSet' = slaSet \cup {a}
             /\ KeepBonds /\ UNCHANGED <<frozen, minBond, registryPaused, adminActs, ledger>>
RegistryTick == /\ ledger < LedgerEnd /\ ledger' = ledger + 1
                /\ KeepBonds /\ UNCHANGED <<frozen, slaSet, minBond, registryPaused, adminActs>>

Rows == [id : AgentIds, owner : Owners, cap : Capabilities, bond : BondAmounts]

BondStep(a) ==
  \/ LeaveRegistry(a) \/ ReturnCooled(a)
  \/ \E n \in BondAmounts : DepositBond(a, n) \/ RestoreSlashedBond(a, n) \/ RewardBond(a, n)
                            \/ SlashBondAmount(a, n)
  \/ InitiateBondReturn(a) \/ ClaimBond(a) \/ SlashBond(a, 50) \/ CheckSlaCompliance(a)

AdminStep ==
  /\ AdminAct
  /\ \/ \E a \in AgentIds : FreezeAgent(a) \/ UnfreezeAgent(a)
     \/ \E b \in BOOLEAN : SetRegistryPaused(b)
     \/ \E n \in MinBonds : SetMinBond(n)
  /\ KeepBonds /\ UNCHANGED <<slaSet, ledger>>

RegistryStep ==
  \/ \E r, s \in Rows : RegisterAgents({r, s})
  \/ \E a \in AgentIds : BondStep(a)
  \/ AdminStep
  \/ \E a \in AgentIds : SetSla(a)

-----------------------------------------------------------------------------
(* The indexes list every registered agent once, under its capability, and *)
(* the counter agrees with them (register_agents, deregister_agent).       *)
IndexesAgree ==
  /\ total = Cardinality({a \in AgentIds : Registered(a)})
  /\ \A c \in Capabilities :
        /\ ToSet(capIndex[c]) = {a \in AgentIds : Registered(a) /\ agentRec[a].cap = c}
        /\ IsInjective(capIndex[c])

(* Whatever order bonds are slashed, rewarded, restored, cooled and        *)
(* returned in, the registry never announces the return of more than was   *)
(* brought, counting what it still holds (internal_slash_bond, claim_bond, *)
(* deregister_agent).                                                      *)
PaysBackWhatCameIn ==
  paidOut + rewardPool + SumFunctionOnSet([a \in AgentIds |-> bondRec[a].amount], AgentIds) <= paidIn

(* Records, indexes and money of the registry agree.                       *)
RegistryInv == RegistryTypeOK /\ IndexesAgree /\ PaysBackWhatCameIn
=============================================================================
