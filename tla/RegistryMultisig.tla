-------------------------- MODULE RegistryMultisig --------------------------
(***************************************************************************)
(* Administration of the agent registry: what the single admin may do by   *)
(* itself, and the proposals that the members of a multisig approve and,   *)
(* after a timelock, execute (src/smart-contracts/contracts/agent_registry *)
(* /src/lib.rs).  Both reach the same settings.  A call that returns an    *)
(* error leaves no trace, so an action is a call that succeeds.  The one   *)
(* agent a proposal may slash comes and goes by its owner's calls.         *)
(***************************************************************************)
EXTENDS Naturals, FiniteSets

CONSTANTS Signers,         \* addresses
          Genesis,         \* the admin given to initialize
          Operations,      \* the AdminActions proposed
          SignerConfigs,   \* the MultisigConfigs set
          Motions,         \* bound: proposals, by id
          PlainDelay,      \* DEFAULT_TIMELOCK_DELAY
          MotionLife,      \* seconds to the expiry of a proposal
          FullBond,        \* the agent's bond when it registers
          MaxDirect,       \* bound: direct calls and registrations
          AdminEnd         \* bound: ledger time

\* The list of admins is kept with its length, since it may repeat one.
SignerLists == [admins : SUBSET Signers, listed : Nat, threshold : Nat, delay : Nat]

ASSUME MultisigAssumption ==
    /\ Genesis \in Signers /\ SignerConfigs \subseteq SignerLists
    /\ \A c \in SignerConfigs : c.listed >= Cardinality(c.admins)
    /\ {PlainDelay, MotionLife, FullBond, MaxDirect, AdminEnd} \subseteq Nat
    /\ \A op \in Operations : CASE op.kind = "set_admin" -> op.to \in Signers
                                [] op.kind = "min_bond" -> op.amount \in 0..FullBond
                                [] op.kind = "slash" -> op.amount \in Nat
                                [] op.kind = "multisig" -> op.config \in SignerConfigs
                                [] OTHER -> TRUE

VARIABLES chief,        \* DataKey::Admin
          signers,      \* DataKey::MultisigConfig, or NoSigners
          motion,       \* DataKey::Proposal by id, or NoMotion
          halted,       \* DataKey::Paused
          minimum,      \* DataKey::MinBond
          bonded,       \* the agent's bond
          carried,      \* history: how often a proposal's action took effect
          direct,       \* history: direct calls so far
          adminTime

multisigVars == <<chief, signers, motion, halted, minimum, bonded, carried, direct, adminTime>>

NoSigners == [admins |-> {}, listed |-> 0, threshold |-> 1, delay |-> PlainDelay]
NoMotion == [status |-> "none", op |-> [kind |-> "pause"], by |-> Genesis,
             eta |-> 0, until |-> 0, approvals |-> {}]
NoStake == [state |-> "absent", amount |-> 0]

\* is_admin: the single admin, or one of the listed.
IsAdmin(s) == s = chief \/ s \in signers.admins

\* threshold == 0 || threshold > admins.len()
ValidConfig(c) == c.threshold > 0 /\ c.threshold <= c.listed

Direct == /\ direct < MaxDirect
          /\ direct' = direct + 1
          /\ UNCHANGED <<motion, carried, adminTime>>

-----------------------------------------------------------------------------
(* What an admin does alone.                                               *)

SetAdmin(s) ==
    /\ signers = NoSigners
    /\ chief' = s
    /\ Direct /\ UNCHANGED <<signers, halted, minimum, bonded>>

SetMultisigConfig(s, c) ==
    /\ IsAdmin(s) /\ ValidConfig(c)
    /\ signers' = c
    /\ Direct /\ UNCHANGED <<chief, halted, minimum, bonded>>

ClearMultisigConfig(s) ==
    /\ IsAdmin(s) /\ signers # NoSigners
    /\ signers' = NoSigners
    /\ Direct /\ UNCHANGED <<chief, halted, minimum, bonded>>

\* pause and unpause, by the single admin.
SetPaused(b) ==
    /\ halted # b
    /\ halted' = b
    /\ Direct /\ UNCHANGED <<chief, signers, minimum, bonded>>

ChiefSetsMinBond(n) ==
    /\ minimum # n
    /\ minimum' = n
    /\ Direct /\ UNCHANGED <<chief, signers, halted, bonded>>

\* The owner registers the agent, sets it cooling down, or takes the bond.
OwnerCalls ==
    /\ \/ bonded.state = "absent" /\ bonded' = [state |-> "active", amount |-> FullBond]
       \/ bonded.state = "active" /\ bonded' = [bonded EXCEPT !.state = "cooldown"]
       \/ bonded.state = "cooldown" /\ bonded' = NoStake
    /\ Direct /\ UNCHANGED <<chief, signers, halted, minimum>>

-----------------------------------------------------------------------------
(* Proposals.                                                              *)

\* The delay in force when a proposal is made; the proposer approves it.
ProposeOperation(s, id, op) ==
    /\ IsAdmin(s)
    /\ motion[id] = NoMotion
    /\ \A j \in Motions : j < id => motion[j] # NoMotion
    /\ motion' = [motion EXCEPT ![id] =
                    [status |-> "open", op |-> op, by |-> s,
                     eta |-> adminTime + signers.delay,
                     until |-> adminTime + MotionLife, approvals |-> {s}]]
    /\ UNCHANGED <<chief, signers, halted, minimum, bonded, carried, direct, adminTime>>

Pending(id) == motion[id].status = "open" /\ adminTime <= motion[id].until

ApproveOperation(s, id) ==
    /\ IsAdmin(s) /\ Pending(id)
    /\ s \notin motion[id].approvals
    /\ motion' = [motion EXCEPT ![id].approvals = @ \cup {s}]
    /\ UNCHANGED <<chief, signers, halted, minimum, bonded, carried, direct, adminTime>>

\* Mutant: the proposer may withdraw a proposal that was carried out.
MutantWithdrawable(id) == motion[id].status \in {"open", "executed"}

Withdrawable(id) == motion[id].status = "open"

\* Only the proposer, an admin still or not, expired or not.
CancelOperation(id) ==
    /\ Withdrawable(id)
    /\ motion' = [motion EXCEPT ![id].status = "cancelled"]
    /\ UNCHANGED <<chief, signers, halted, minimum, bonded, carried, direct, adminTime>>

\* internal_slash_bond.
Slash(n) ==
    /\ bonded.state = "active"
    /\ bonded' = [bonded EXCEPT !.amount = IF n >= @ THEN 0 ELSE @ - n]

\* What an action changes; where it fails the call fails and the proposal
\* stays open.
Perform(op) ==
    \/ /\ op.kind \in {"pause", "unpause"}
       /\ halted' = (op.kind = "pause")
       /\ UNCHANGED <<chief, signers, minimum, bonded>>
    \/ /\ op.kind = "set_admin"
       /\ chief' = op.to
       /\ UNCHANGED <<signers, halted, minimum, bonded>>
    \/ /\ op.kind = "slash" /\ Slash(op.amount)
       /\ UNCHANGED <<chief, signers, halted, minimum>>
    \/ /\ op.kind = "min_bond"
       /\ minimum' = op.amount
       /\ UNCHANGED <<chief, signers, halted, bonded>>
    \/ /\ op.kind = "multisig" /\ ValidConfig(op.config)
       /\ signers' = op.config
       /\ UNCHANGED <<chief, halted, minimum, bonded>>

\* Approvals count whoever gave them by now; so does the threshold in force.
ExecuteOperation(s, id) ==
    /\ IsAdmin(s) /\ Pending(id)
    /\ adminTime >= motion[id].eta
    /\ Cardinality(motion[id].approvals) >= signers.threshold
    /\ motion' = [motion EXCEPT ![id].status = "executed"]
    /\ Perform(motion[id].op)
    /\ carried' = [carried EXCEPT ![id] = @ + 1]
    /\ UNCHANGED <<direct, adminTime>>

AdminTick ==
    /\ adminTime < AdminEnd
    /\ adminTime' = adminTime + 1
    /\ UNCHANGED <<chief, signers, motion, halted, minimum, bonded, carried, direct>>

-----------------------------------------------------------------------------
MultisigInit ==
    /\ chief = Genesis /\ signers = NoSigners
    /\ motion = [id \in Motions |-> NoMotion]
    /\ halted = FALSE /\ minimum = 0 /\ bonded = NoStake
    /\ carried = [id \in Motions |-> 0] /\ direct = 0 /\ adminTime = 0

MultisigNext ==
    \/ \E s \in Signers : \/ SetAdmin(s) \/ ClearMultisigConfig(s)
                          \/ \E c \in SignerConfigs : SetMultisigConfig(s, c)
                          \/ \E id \in Motions : \/ ApproveOperation(s, id)
                                                 \/ ExecuteOperation(s, id)
                                                 \/ \E op \in Operations : ProposeOperation(s, id, op)
    \/ \E b \in BOOLEAN : SetPaused(b)
    \/ \E n \in 0..FullBond : ChiefSetsMinBond(n)
    \/ \E id \in Motions : CancelOperation(id)
    \/ OwnerCalls \/ AdminTick

MultisigSpec == MultisigInit /\ [][MultisigNext]_multisigVars

-----------------------------------------------------------------------------
(* Properties.                                                             *)

\* Every variable keeps to its type.
MultisigTypeOK ==
    /\ chief \in Signers /\ signers \in SignerConfigs \cup {NoSigners}
    /\ \A id \in Motions :
         /\ motion[id].status \in {"none", "open", "executed", "cancelled"}
         /\ motion[id].op \in Operations \cup {NoMotion.op}
         /\ motion[id].by \in Signers /\ motion[id].approvals \subseteq Signers
         /\ {motion[id].eta, motion[id].until} \subseteq Nat
    /\ halted \in BOOLEAN /\ minimum \in 0..FullBond
    /\ bonded.state \in {"absent", "active", "cooldown"} /\ bonded.amount \in 0..FullBond
    /\ carried \in [Motions -> Nat] /\ direct \in 0..MaxDirect
    /\ adminTime \in 0..AdminEnd

\* A proposal is carried out once or not at all, and the proposal says
\* which: none that was cancelled or whose action failed has had an effect.
CarriedOnceIfExecuted ==
    \A id \in Motions : carried[id] = IF motion[id].status = "executed" THEN 1 ELSE 0

\* Typed states, in which every proposal had the one effect its status says.
MultisigInv == MultisigTypeOK /\ CarriedOnceIfExecuted
=============================================================================
