-------------------------- MODULE AgentGovernance --------------------------
(***************************************************************************)
(* The governance contract                                                 *)
(* (src/smart-contracts/contracts/agent_governance/src/lib.rs): agents     *)
(* register with a voting power, which they may change or withdraw at any  *)
(* time; a proposal snapshots the total power when it is created, a vote   *)
(* weighs what a bounded history of checkpoints says its voter had then;   *)
(* after the voting period a proposal that carries waits out a timelock    *)
(* and is executed by anyone, unless the admin cancels it.                 *)
(***************************************************************************)
EXTENDS Naturals, Sequences, FiniteSets, Functions

CONSTANTS Electors, Proposals,
          Powers,           \* the voting powers stake and reputation add up to
          MaxCheckpoints,   \* MAX_CHECKPOINTS
          VotingPeriod, ExecutionDelay,
          MaxPowerChanges,  \* bound on changes of power
          GovernanceEnd     \* bound on the ledger's time

ASSUME GovernanceAssumption ==
  /\ IsFiniteSet(Electors)
  /\ Powers \subseteq Nat \ {0}
  /\ MaxCheckpoints \in Nat \ {0}
  /\ {VotingPeriod, ExecutionDelay, MaxPowerChanges, GovernanceEnd} \subseteq Nat

VARIABLES powerOf,       \* powerOf[e]: AgentInfo.power, 0 of who is not registered
          checkpoints,   \* checkpoints[e]: the bounded history of its power
          totalPower,    \* TotalPower
          proposal,      \* proposal[p]: the Proposal and its ballots
          execQueue,     \* execQueue[p]: can_execute_at of a QueuedProposal, or none
          govPaused, powerChanges, govTime

governanceVars == <<powerOf, checkpoints, totalPower, proposal, execQueue, govPaused,
                    powerChanges, govTime>>

VoteChoices == {"for", "against", "abstain"}
NoVote == [choice |-> "none", weight |-> 0]
NoProposal == [status |-> "none", created |-> 0, snapshot |-> 0, target |-> FALSE,
               votes |-> [e \in Electors |-> NoVote]]
NotQueued == GovernanceEnd + ExecutionDelay + 1

GovernanceTypeOK ==
  /\ powerOf \in [Electors -> Powers \cup {0}] /\ totalPower \in Nat
  /\ \A e \in Electors :
       /\ Len(checkpoints[e]) <= MaxCheckpoints
       /\ \A i \in DOMAIN checkpoints[e] :
            checkpoints[e][i] \in [at : 0 .. GovernanceEnd, power : Powers \cup {0}]
  /\ proposal \in [Proposals ->
       [status : {"none", "active", "queued", "executed", "failed"},
        created : 0 .. GovernanceEnd, snapshot : Nat, target : BOOLEAN,
        votes : [Electors -> [choice : VoteChoices \cup {"none"}, weight : Powers \cup {0}]]]]
  /\ execQueue \in [Proposals -> 0 .. NotQueued]
  /\ govPaused \in BOOLEAN /\ powerChanges \in 0 .. MaxPowerChanges
  /\ govTime \in 0 .. GovernanceEnd

GovernanceInit ==
  /\ powerOf = [e \in Electors |-> 0] /\ totalPower = 0
  /\ checkpoints = [e \in Electors |-> <<>>]
  /\ proposal = [p \in Proposals |-> NoProposal]
  /\ execQueue = [p \in Proposals |-> NotQueued]
  /\ govPaused = FALSE /\ powerChanges = 0 /\ govTime = 0

-----------------------------------------------------------------------------
Newest(s) == SubSeq(s, IF Len(s) > MaxCheckpoints THEN 2 ELSE 1, Len(s))

\* One checkpoint for a timestamp, the last; beyond the limit the oldest goes.
WriteCheckpoint(e, power) ==
  LET past == checkpoints[e]
      same == past # <<>> /\ past[Len(past)].at = govTime
      kept == IF same THEN SubSeq(past, 1, Len(past) - 1) ELSE past
  IN  checkpoints' = [checkpoints EXCEPT ![e] =
                        Newest(Append(kept, [at |-> govTime, power |-> power]))]

PowerAt(e, at) ==
  LET then == {i \in DOMAIN checkpoints[e] : checkpoints[e][i].at <= at} IN
  IF then = {} THEN 0 ELSE checkpoints[e][CHOOSE i \in then : \A j \in then : j <= i].power

\* Mutant: an update adds the new power without taking the old one back.
MutantRestated(e, power) == totalPower + power

Restated(e, power) == totalPower + power - powerOf[e]

SetPower(e, power) ==
  /\ powerChanges < MaxPowerChanges /\ powerChanges' = powerChanges + 1
  /\ powerOf' = [powerOf EXCEPT ![e] = power]
  /\ WriteCheckpoint(e, power)
  /\ totalPower' = Restated(e, power)
  /\ UNCHANGED <<proposal, execQueue, govPaused, govTime>>

RegisterElector(e, power) == powerOf[e] = 0 /\ SetPower(e, power)
UpdateElector(e, power) == powerOf[e] > 0 /\ SetPower(e, power)
RemoveElector(e) == powerOf[e] > 0 /\ SetPower(e, 0)

-----------------------------------------------------------------------------
Electorate == UNCHANGED <<powerOf, checkpoints, totalPower, powerChanges>>

\* `target` tells a proposal with a payload from one that only signals.
CreateProposal(p, target) ==
  /\ ~govPaused
  /\ proposal[p].status = "none"
  /\ \E e \in Electors : powerOf[e] > 0
  /\ totalPower > 0
  /\ proposal' = [proposal EXCEPT ![p] =
                    [NoProposal EXCEPT !.status = "active", !.created = govTime,
                                       !.snapshot = totalPower, !.target = target]]
  /\ UNCHANGED <<execQueue, govPaused, govTime>> /\ Electorate

\* A vote weighs what its voter had when the proposal was created; a voter who has left
\* since cannot vote.
VoteOnProposal(p, e, choice) ==
  LET weight == PowerAt(e, proposal[p].created) IN
  /\ ~govPaused
  /\ powerOf[e] > 0
  /\ proposal[p].status = "active" /\ govTime < proposal[p].created + VotingPeriod
  /\ proposal[p].votes[e] = NoVote
  /\ weight > 0
  /\ proposal' = [proposal EXCEPT ![p].votes[e] = [choice |-> choice, weight |-> weight]]
  /\ UNCHANGED <<execQueue, govPaused, govTime>> /\ Electorate

\* for_power, against_power and abstain_power.
Tally(p, choice) ==
  LET voters == {e \in Electors : proposal[p].votes[e].choice = choice} IN
  SumFunctionOnSet([e \in voters |-> proposal[p].votes[e].weight], voters)

Cast(p) == Tally(p, "for") + Tally(p, "against") + Tally(p, "abstain")
Quorum(p) == Cast(p) * 10 >= proposal[p].snapshot * 3
Majority(p) == Tally(p, "for") * 2 > Tally(p, "for") + Tally(p, "against")

Carried(p) == Quorum(p) /\ Majority(p)

QueueProposal(p) ==
  /\ proposal[p].status = "active" /\ govTime >= proposal[p].created + VotingPeriod
  /\ proposal' = [proposal EXCEPT ![p].status = IF Carried(p) THEN "queued" ELSE "failed"]
  /\ execQueue' = [execQueue EXCEPT ![p] = IF Carried(p) THEN govTime + ExecutionDelay ELSE @]
  /\ UNCHANGED <<govPaused, govTime>> /\ Electorate

\* The payload, if there is one, is invoked, and may fail.
ExecuteProposal(p) ==
  /\ execQueue[p] # NotQueued /\ govTime >= execQueue[p]
  /\ proposal[p].status = "queued"
  /\ \E status \in IF proposal[p].target THEN {"executed", "failed"} ELSE {"executed"} :
       proposal' = [proposal EXCEPT ![p].status = status]
  /\ execQueue' = [execQueue EXCEPT ![p] = NotQueued]
  /\ UNCHANGED <<govPaused, govTime>> /\ Electorate

CancelProposal(p) ==
  /\ execQueue[p] # NotQueued
  /\ execQueue' = [execQueue EXCEPT ![p] = NotQueued]
  /\ proposal' = [proposal EXCEPT ![p].status = "failed"]
  /\ UNCHANGED <<govPaused, govTime>> /\ Electorate

PauseGovernance ==
  /\ govPaused' = ~govPaused
  /\ UNCHANGED <<proposal, execQueue, govTime>> /\ Electorate

GovernanceTick ==
  /\ govTime < GovernanceEnd /\ govTime' = govTime + 1
  /\ UNCHANGED <<proposal, execQueue, govPaused>> /\ Electorate

GovernanceNext ==
  \/ \E e \in Electors :
       \/ \E power \in Powers : RegisterElector(e, power) \/ UpdateElector(e, power)
       \/ RemoveElector(e)
       \/ \E p \in Proposals, choice \in VoteChoices : VoteOnProposal(p, e, choice)
  \/ \E p \in Proposals :
       \/ \E target \in BOOLEAN : CreateProposal(p, target)
       \/ QueueProposal(p) \/ ExecuteProposal(p) \/ CancelProposal(p)
  \/ PauseGovernance \/ GovernanceTick

GovernanceSpec == GovernanceInit /\ [][GovernanceNext]_governanceVars

-----------------------------------------------------------------------------
\* The aggregate that register_agent, update_agent and remove_agent each adjust by a
\* difference is the power of those registered, and is what the newest checkpoints say.
TotalPowerAddsUp ==
  /\ totalPower = SumFunctionOnSet(powerOf, Electors)
  /\ \A e \in Electors : PowerAt(e, govTime) = powerOf[e]

\* A proposal waits in the timelock's queue exactly while its status says so, and one
\* that waits or was executed carried by its own votes and its own snapshot, whatever
\* happened to the electorate since.
QueuedHasCarried ==
  \A p \in Proposals :
    /\ proposal[p].status = "queued" <=> execQueue[p] # NotQueued
    /\ proposal[p].status \in {"queued", "executed"} => Quorum(p) /\ Majority(p)

\* Powers add up, and what waits or was executed had carried.
GovernanceInv == GovernanceTypeOK /\ TotalPowerAddsUp /\ QueuedHasCarried
=============================================================================
