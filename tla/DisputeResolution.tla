-------------------------- MODULE DisputeResolution --------------------------
(***************************************************************************)
(* The dispute contract                                                    *)
(* (src/smart-contracts/contracts/dispute_resolution/src/lib.rs) composed   *)
(* with the registry whose bonds it locks, slashes and releases: a call to *)
(* the registry fails the whole call.  A dispute is filed over an agent,    *)
(* takes evidence, takes votes of the registered voters and of a pool of   *)
(* arbiters, gets a provisional ruling and, after an appeal window, a      *)
(* final one.                                                              *)
(***************************************************************************)
EXTENDS AgentRegistry

CONSTANTS Disputes, Voters, Arbiters, NoParty,
          FirstPool,         \* the arbiters the administrator names at the start
          EvidencePhase, VotingPhase, AppealPhase,
          MinimumVotes, RequiredArbiterVotes, VoterStanding, MaxEvidence,
          DisputeSlash,      \* the percentage slash_bond_from_dispute is called with
          TaskEscrow         \* what set_task_escrow recorded for each task

ASSUME DisputeAssumption ==
  /\ Voters \cap Owners = {} /\ NoParty \notin Owners \cup AgentIds /\ FirstPool \subseteq Arbiters
  /\ {EvidencePhase, VotingPhase, AppealPhase, MinimumVotes, RequiredArbiterVotes,
      VoterStanding, MaxEvidence, TaskEscrow} \subseteq Nat
  /\ DisputeSlash \in 1 .. 100

VARIABLES dispute,     \* dispute[d]: the Dispute
          ballot,      \* ballot[d][v]: the vote kept for voter v in the current round
          arbiterVote, \* arbiterVote[d][x]: the vote of arbiter x
          evidence,    \* evidence[d]: the EvidenceCount
          pool,        \* the ArbiterPool
          electorate,  \* the ActiveVoters
          standing,    \* standing[v]: the VoterReputation
          courtPaused

disputeVars == <<dispute, ballot, arbiterVote, evidence, pool, electorate, standing, courtPaused>>
courtVars == <<pool, electorate, standing, courtPaused>>

Sides == {"filer", "agent"}
NoDispute == [status |-> "none", agent |-> NoParty, filer |-> NoParty, evidenceBy |-> 0,
              voteBy |-> 0, appealBy |-> 0, voters |-> {}, appealed |-> FALSE, round |-> 0,
              resolution |-> "none", refund |-> 0, payment |-> 0]

DisputeTypeOK ==
  /\ dispute \in [Disputes -> [status : {"none", "evidence", "voting", "appealPending", "resolved"},
        agent : AgentIds \cup {NoParty}, filer : Owners \cup {NoParty}, evidenceBy : Nat, voteBy : Nat,
        appealBy : Nat, voters : SUBSET Voters, appealed : BOOLEAN, round : {0, 1},
        resolution : {"none", "filer", "agent", "tie"}, refund : Nat, payment : Nat]]
  /\ ballot \in [Disputes -> [Voters -> Sides \cup {"none"}]]
  /\ arbiterVote \in [Disputes -> [Arbiters -> Sides \cup {"none"}]]
  /\ evidence \in [Disputes -> 0 .. MaxEvidence]
  /\ pool \subseteq Arbiters /\ electorate \subseteq Voters
  /\ standing \in [Voters -> {VoterStanding - 1, VoterStanding}] /\ courtPaused \in BOOLEAN

DisputeInit ==
  /\ RegistryInit
  /\ dispute = [d \in Disputes |-> NoDispute]
  /\ ballot = [d \in Disputes |-> [v \in Voters |-> "none"]]
  /\ arbiterVote = [d \in Disputes |-> [x \in Arbiters |-> "none"]]
  /\ evidence = [d \in Disputes |-> 0]
  /\ pool = FirstPool /\ electorate = Voters
  /\ standing = [v \in Voters |-> VoterStanding] /\ courtPaused = FALSE

InSession == ~courtPaused
Is(d, s) == dispute[d].status = s
InVoting(d) == /\ dispute[d].status \notin {"none", "resolved"}
               /\ dispute[d].evidenceBy <= ledger /\ ledger < dispute[d].voteBy
VotesFor(votes, side) == Cardinality({x \in DOMAIN votes : votes[x] = side})

-----------------------------------------------------------------------------
\* The agent's bond is locked in the registry by the same call.
FileDispute(d, filer, a) ==
  LET by == ledger + EvidencePhase IN
  /\ InSession /\ Is(d, "none") /\ Cardinality(electorate) >= MinimumVotes
  /\ LockBondForDispute(a)
  /\ dispute' = [dispute EXCEPT ![d] = [NoDispute EXCEPT !.status = "evidence", !.agent = a,
        !.filer = filer, !.evidenceBy = by, !.voteBy = by + VotingPhase, !.voters = electorate]]
  /\ UNCHANGED <<ballot, arbiterVote, evidence>> /\ UNCHANGED courtVars

SubmitEvidence(d) ==
  /\ InSession /\ dispute[d].status \notin {"none", "resolved"}
  /\ ledger < dispute[d].evidenceBy /\ evidence[d] < MaxEvidence
  /\ evidence' = [evidence EXCEPT ![d] = @ + 1]
  /\ UNCHANGED <<dispute, ballot, arbiterVote>> /\ UNCHANGED courtVars /\ UNCHANGED registryVars

CastVote(d, v, side) ==
  /\ InSession /\ InVoting(d)
  /\ v \in dispute[d].voters /\ standing[v] >= VoterStanding
  /\ ballot[d][v] = "none"
  /\ ballot' = [ballot EXCEPT ![d][v] = side]
  /\ dispute' = [dispute EXCEPT ![d].status = "voting"]
  /\ UNCHANGED <<arbiterVote, evidence>> /\ UNCHANGED courtVars /\ UNCHANGED registryVars

\* apply_final_ruling, whose loser's standing is not that of a voter here.
MutantSettleBond(a, outcome) ==  \* a bug: a ruling for the agent forgets the lock
  IF outcome = "filer" THEN SlashBondFromDispute(a, DisputeSlash) ELSE UNCHANGED registryVars
SettleBond(a, outcome) ==
  IF outcome = "filer" THEN SlashBondFromDispute(a, DisputeSlash) ELSE ReleaseBondAfterDispute(a)

\* Only the votes of the present pool are counted; two of a kind end the dispute.
VoteAsArbiter(d, x, side) ==
  LET votes == [arbiterVote[d] EXCEPT ![x] = side]
      counted == [y \in pool |-> votes[y]]
      outcome == CHOOSE s \in Sides : VotesFor(counted, s) >= RequiredArbiterVotes
      decided == \E s \in Sides : VotesFor(counted, s) >= RequiredArbiterVotes
  IN
  /\ InSession /\ InVoting(d) /\ x \in pool /\ arbiterVote[d][x] = "none"
  /\ arbiterVote' = [arbiterVote EXCEPT ![d] = votes]
  /\ dispute' = [dispute EXCEPT ![d].status = IF decided THEN "resolved" ELSE "voting"]
  /\ IF decided THEN SettleBond(dispute[d].agent, outcome) ELSE UNCHANGED registryVars
  /\ UNCHANGED <<ballot, evidence>> /\ UNCHANGED courtVars

\* The outcome of the voters' round, and what it would pay to each party.
Outcome(d) ==
  LET f == VotesFor(ballot[d], "filer")  g == VotesFor(ballot[d], "agent") IN
  IF f + g < MinimumVotes \/ f = g THEN "tie" ELSE IF f > g THEN "filer" ELSE "agent"
Awarded(d) ==
  CASE Outcome(d) = "tie" -> [dispute[d] EXCEPT !.refund = TaskEscrow \div 2,
                                                !.payment = TaskEscrow - TaskEscrow \div 2]
    [] Outcome(d) = "filer" -> [dispute[d] EXCEPT !.refund = TaskEscrow]
    [] OTHER -> [dispute[d] EXCEPT !.payment = TaskEscrow]

\* The first round only proposes, and leaves resolution as it is; the pause is not
\* looked at.
Resolve(d) ==
  /\ dispute[d].status \in {"evidence", "voting"} /\ ledger >= dispute[d].voteBy
  /\ dispute[d].round = 0
  /\ dispute' = [dispute EXCEPT ![d] = [Awarded(d) EXCEPT !.status = "appealPending",
                                                          !.appealBy = ledger + AppealPhase]]
  /\ UNCHANGED <<ballot, arbiterVote, evidence>> /\ UNCHANGED courtVars /\ UNCHANGED registryVars

-----------------------------------------------------------------------------
(* What follows a provisional ruling.                                      *)

AppealDispute(d, p) ==
  /\ InSession /\ Is(d, "appealPending") /\ ~dispute[d].appealed /\ ledger < dispute[d].appealBy
  /\ \/ dispute[d].resolution = "filer" /\ p = dispute[d].agent
     \/ dispute[d].resolution = "agent" /\ p = dispute[d].filer
  /\ dispute' = [dispute EXCEPT ![d] = [@ EXCEPT !.status = "voting", !.appealed = TRUE, !.round = 1,
        !.evidenceBy = ledger, !.voteBy = ledger + VotingPhase, !.resolution = "none", !.refund = 0, !.payment = 0]]
  /\ ballot' = [ballot EXCEPT ![d] = [v \in Voters |-> "none"]]
  /\ UNCHANGED <<arbiterVote, evidence>> /\ UNCHANGED courtVars /\ UNCHANGED registryVars

\* The second round's ruling is final.
ResolveAppeal(d) ==
  /\ Is(d, "voting") /\ dispute[d].round = 1 /\ ledger >= dispute[d].voteBy
  /\ dispute' = [dispute EXCEPT ![d] = [Awarded(d) EXCEPT !.status = "resolved"]]
  /\ SettleBond(dispute[d].agent, Outcome(d))
  /\ UNCHANGED <<ballot, arbiterVote, evidence>> /\ UNCHANGED courtVars

FinalizeDispute(d) ==
  /\ Is(d, "appealPending") /\ ~dispute[d].appealed /\ ledger >= dispute[d].appealBy
  /\ dispute[d].resolution \in {"filer", "agent", "tie"}
  /\ dispute' = [dispute EXCEPT ![d].status = "resolved"]
  /\ SettleBond(dispute[d].agent, dispute[d].resolution)
  /\ UNCHANGED <<ballot, arbiterVote, evidence>> /\ UNCHANGED courtVars

-----------------------------------------------------------------------------
(* The administrator of the dispute contract.                              *)

\* A pool is of a fixed size, ARBITER_POOL_SIZE.
SetArbiterPool(s) == Cardinality(s) = Cardinality(pool) /\ pool' = s
                     /\ UNCHANGED <<electorate, standing, courtPaused>>
SetVoters(s) == s # {} /\ electorate' = s /\ UNCHANGED <<pool, standing, courtPaused>>
SetReputation(v, n) == standing' = [standing EXCEPT ![v] = n]
                       /\ UNCHANGED <<pool, electorate, courtPaused>>
SetCourtPaused(b) == courtPaused' = b /\ UNCHANGED <<pool, electorate, standing>>

CourtAdmin ==
  /\ AdminAct
  /\ \/ /\ InSession
        /\ \/ \E s \in SUBSET Arbiters : SetArbiterPool(s)
           \/ \E s \in SUBSET Voters : SetVoters(s)
           \/ \E v \in Voters, n \in {VoterStanding - 1, VoterStanding} : SetReputation(v, n)
     \/ \E b \in BOOLEAN : SetCourtPaused(b)
  /\ KeepBonds /\ UNCHANGED <<frozen, slaSet, minBond, registryPaused, ledger>>
  /\ UNCHANGED <<dispute, ballot, arbiterVote, evidence>>

\* What can be called with success; AppealDispute and FinalizeDispute need a resolution.
DisputeStep(d) ==
  \/ \E o \in Owners, a \in AgentIds : FileDispute(d, o, a)
  \/ SubmitEvidence(d) \/ Resolve(d)
  \/ \E v \in Voters, side \in Sides : CastVote(d, v, side)
  \/ \E x \in Arbiters, side \in Sides : VoteAsArbiter(d, x, side)
LateStep(d) ==
  \/ \E p \in Owners \cup AgentIds : AppealDispute(d, p)
  \/ ResolveAppeal(d) \/ FinalizeDispute(d)

DisputeNext ==
  \/ (RegistryStep \/ RegistryTick) /\ UNCHANGED disputeVars
  \/ CourtAdmin
  \/ \E d \in Disputes : DisputeStep(d)

DisputeSpec == DisputeInit /\ [][DisputeNext]_<<registryVars, disputeVars>>

\* Anyone may finalize a ruling, and the ledger's time passes.
DisputeFairSpec ==
  /\ DisputeInit
  /\ [][DisputeNext \/ \E d \in Disputes : LateStep(d)]_<<registryVars, disputeVars>>
  /\ WF_<<registryVars, disputeVars>>(RegistryTick /\ UNCHANGED disputeVars)
  /\ \A d \in Disputes : WF_<<registryVars, disputeVars>>(Resolve(d) \/ FinalizeDispute(d))

-----------------------------------------------------------------------------
(* A bond is locked exactly while one open dispute is about its agent: no  *)
(* two disputes reserve one bond, and no ruling leaves a lock behind       *)
(* (file_dispute, apply_final_ruling and the registry's lock).             *)
LocksFollowDisputes ==
  \A a \in AgentIds :
     LET open == {d \in Disputes : dispute[d].agent = a /\ ~Is(d, "resolved")} IN
     /\ Cardinality(open) <= 1
     /\ a \in held <=> open # {}

(* Whatever the owner and the administrator do meanwhile, a locked bond     *)
(* stays where a ruling can reach it: its agent registered, its bond not    *)
(* cooling and not returned, so that slash_bond_from_dispute cannot fail.   *)
LockedBondsStay ==
  \A a \in held : /\ Registered(a) /\ ~IsCooling(a)
                  /\ bondRec[a].status \in {"active", "slashed"}

(* The registry's invariant holds with disputes working on its bonds, and  *)
(* each lock is one open dispute's.                                        *)
DisputeInv == RegistryInv /\ DisputeTypeOK /\ LocksFollowDisputes /\ LockedBondsStay
=============================================================================
