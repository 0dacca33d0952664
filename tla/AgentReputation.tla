-------------------------- MODULE AgentReputation --------------------------
(***************************************************************************)
(* What the agent registry remembers of an agent's work                    *)
(* (src/smart-contracts/contracts/agent_registry/src/lib.rs): the          *)
(* reputation score, which decays by whole epochs when it is read; the     *)
(* completed tasks with their running mean; the service level and its      *)
(* violations.  Deregistering removes none of these records; the           *)
(* leaderboard only reads them.  The ledger's sequence and its clock are   *)
(* one time; daily snapshots and the lifetime of entries are left out.     *)
(***************************************************************************)
EXTENDS Integers, FiniteSets, SequencesExt

CONSTANTS RatedAgents,
          RatedTasks,
          Reporters,         \* addresses the admin may allow or appoint
          MaxReporters,      \* the allowlist's 16
          Grades,            \* the ReputationInputs given
          Deltas,            \* score_deltas of task outcomes
          DecaySchedules,    \* ReputationConfigs set
          FirstSchedule,     \* DEFAULT_DECAY_PCT each DEFAULT_EPOCH_SECS
          ScoreScale,        \* REPUTATION_SCALE
          MaxDecayEpochs,    \* MAX_DECAY_EPOCHS
          ResponseTimes, Earnings,     \* of completed tasks
          ServiceLevels,     \* terms, and the measurements checked against them
          MaxEnrolments, MaxCompletions, MaxChecks, MaxSettings,   \* bounds
          RatedEnd           \* bound: ledger time

ASSUME ReputationAssumption ==
    /\ FirstSchedule \in DecaySchedules
    /\ \A d \in DecaySchedules : d.pct \in 0 .. 100 /\ d.epoch \in Nat \ {0}
    /\ IsFiniteSet(RatedAgents) /\ IsFiniteSet(Deltas) /\ Deltas \subseteq Int
    /\ \A g \in Grades : {g.success, g.quality, g.uptime, g.price} \subseteq Nat
    /\ ResponseTimes \subseteq Nat /\ Earnings \subseteq Nat
    /\ {ScoreScale, MaxDecayEpochs, MaxReporters, MaxEnrolments, MaxCompletions,
        MaxChecks, MaxSettings, RatedEnd} \subseteq Nat
    /\ \A s \in ServiceLevels : s.response \in Nat \ {0} /\ {s.uptime, s.quality} \subseteq 0 .. 100

VARIABLES enrolled,       \* agents registered
          enrolments,     \* AgentByIndex, in order; a second registration adds a second entry
          scoreOf,        \* DataKey::Reputation
          outcomes,       \* tasks with a TaskOutcome
          reporters,      \* AuthorizedCallers
          overseer,       \* the Coordinator, or NoReporter
          schedule,       \* ReputationConfig
          figures,        \* AgentMetrics
          ratingsHalted, ratedTime,
          settings,       \* changes of settings so far
          graded,         \* history: the last full update of each score
          responses       \* history: response times of each agent's tasks

ratedVars == <<enrolled, enrolments, scoreOf, outcomes, reporters, overseer, schedule,
               figures, ratingsHalted, ratedTime, settings, graded, responses>>

NoReporter == "nobody"
NoScore == [value |-> 0, since |-> 0 - 1]
NoTerms == [response |-> 0, uptime |-> 0, quality |-> 0]
NoFigures == [total |-> 0, good |-> 0, bad |-> 0, earned |-> 0, mean |-> 0,
              terms |-> NoTerms, checks |-> 0, violations |-> 0]

\* get_sla_status.
Compliance(f) == IF f.checks = 0 THEN 100 ELSE ((f.checks - f.violations) * 100) \div f.checks

ReputationTypeOK ==
    /\ enrolled \subseteq RatedAgents /\ enrolments \in Seq(RatedAgents)
    /\ scoreOf \in [RatedAgents -> [value : 0 .. ScoreScale, since : -1 .. RatedEnd]]
    /\ outcomes \subseteq RatedTasks /\ reporters \subseteq Reporters
    /\ overseer \in Reporters \cup {NoReporter} /\ schedule \in DecaySchedules
    /\ figures \in [RatedAgents -> [total : Nat, good : Nat, bad : Nat, earned : Nat, mean : Nat,
                     terms : ServiceLevels \cup {NoTerms}, checks : Nat, violations : Nat]]
    /\ \A a \in RatedAgents : Compliance(figures[a]) \in 0 .. 100
    /\ ratingsHalted \in BOOLEAN /\ ratedTime \in 0 .. RatedEnd /\ settings \in 0 .. MaxSettings
    /\ graded \in [RatedAgents -> 0 .. ScoreScale] /\ responses \in [RatedAgents -> Seq(ResponseTimes)]

-----------------------------------------------------------------------------
(* Registration, and the settings of the admin.                            *)

KeepRatings == UNCHANGED <<scoreOf, outcomes, figures, graded, responses>>
KeepSettings == UNCHANGED <<reporters, overseer, schedule, ratingsHalted, settings>>
KeepEnrolment == UNCHANGED <<enrolled, enrolments>>

Enrol(a) ==
    /\ ~ratingsHalted /\ a \notin enrolled /\ Len(enrolments) < MaxEnrolments
    /\ enrolled' = enrolled \cup {a} /\ enrolments' = Append(enrolments, a)
    /\ KeepRatings /\ KeepSettings /\ UNCHANGED ratedTime

Withdraw(a) ==
    /\ ~ratingsHalted /\ a \in enrolled
    /\ enrolled' = enrolled \ {a}
    /\ KeepRatings /\ KeepSettings /\ UNCHANGED <<enrolments, ratedTime>>

ChangeSetting ==
    /\ settings < MaxSettings /\ settings' = settings + 1
    /\ KeepRatings /\ KeepEnrolment /\ UNCHANGED ratedTime

SetCoordinator(r) ==
    /\ overseer' = r
    /\ ChangeSetting /\ UNCHANGED <<reporters, schedule, ratingsHalted>>

AddAuthorizedCaller(r) ==
    /\ r \notin reporters /\ Cardinality(reporters) < MaxReporters
    /\ reporters' = reporters \cup {r}
    /\ ChangeSetting /\ UNCHANGED <<overseer, schedule, ratingsHalted>>

RemoveAuthorizedCaller(r) ==
    /\ r \in reporters
    /\ reporters' = reporters \ {r}
    /\ ChangeSetting /\ UNCHANGED <<overseer, schedule, ratingsHalted>>

SetReputationConfig(d) ==
    /\ schedule' = d
    /\ ChangeSetting /\ UNCHANGED <<reporters, overseer, ratingsHalted>>

HaltRatings(b) ==
    /\ ratingsHalted # b /\ ratingsHalted' = b
    /\ ChangeSetting /\ UNCHANGED <<reporters, overseer, schedule>>

-----------------------------------------------------------------------------
(* Scores.                                                                 *)

Clamped(n) == IF n > 100 THEN 100 ELSE n
Weighted(g) == 40 * Clamped(g.success) + 30 * Clamped(g.quality)
             + 20 * Clamped(g.uptime) + 10 * Clamped(g.price)
ScoreFor(g) == (Weighted(g) * ScoreScale) \div 10000

\* A missing record reads as zero, stamped with the time of the call.
Record(a) == IF scoreOf[a] = NoScore THEN [value |-> 0, since |-> ratedTime] ELSE scoreOf[a]

\* apply_reputation_decay: floored epoch by epoch; a score dormant for too long is zero.
Elapsed(rec) == (ratedTime - rec.since) \div schedule.epoch
Kept(value, epochs) ==
    LET kept[n \in 0 .. epochs] ==
          IF n = 0 THEN value ELSE (kept[n - 1] * (100 - schedule.pct)) \div 100
    IN kept[epochs]
Decayed(rec) == [value |-> IF Elapsed(rec) > MaxDecayEpochs THEN 0 ELSE Kept(rec.value, Elapsed(rec)),
                 since |-> rec.since + Elapsed(rec) * schedule.epoch]

\* A failed task cannot raise the score; the score stays within its scale.
Moved(value, good, delta) ==
    LET d == IF good \/ delta < 0 THEN delta ELSE 0
    IN  CASE value + d < 0 -> 0
          [] value + d > ScoreScale -> ScoreScale
          [] OTHER -> value + d

MutantUncounted(t, a) == t \notin outcomes \/ scoreOf[a] = NoScore  \* a bug: remembered with the agent's score
Uncounted(t, a) == t \notin outcomes

KeepRest == KeepSettings /\ KeepEnrolment /\ UNCHANGED ratedTime

\* The pending decay is not applied, yet the stamp moves to now.
RecordTaskOutcome(a, t, good, delta) ==
    /\ ~ratingsHalted /\ reporters # {}
    /\ Uncounted(t, a) /\ a \in enrolled
    /\ scoreOf' = [scoreOf EXCEPT ![a] =
         [value |-> Moved(Record(a).value, good, delta), since |-> ratedTime]]
    /\ outcomes' = outcomes \cup {t}
    /\ UNCHANGED <<figures, graded, responses>> /\ KeepRest

\* A full update forgets the old score and its decay.
Graded(g) == [value |-> ScoreFor(g), since |-> ratedTime]

\* update_reputation and batch_update_reputation: all the agents, or none.
GradeAgents(grades) ==
    /\ ~ratingsHalted /\ DOMAIN grades # {} /\ DOMAIN grades \subseteq enrolled
    /\ scoreOf' = [a \in RatedAgents |-> IF a \in DOMAIN grades THEN Graded(grades[a]) ELSE scoreOf[a]]
    /\ graded' = [a \in RatedAgents |-> IF a \in DOMAIN grades THEN ScoreFor(grades[a]) ELSE graded[a]]
    /\ UNCHANGED <<outcomes, figures, responses>> /\ KeepRest

\* A read writes back what it computed when an epoch has elapsed.
GetReputation(a) ==
    /\ a \in enrolled /\ Elapsed(Record(a)) > 0
    /\ scoreOf' = [scoreOf EXCEPT ![a] = Decayed(Record(a))]
    /\ UNCHANGED <<outcomes, figures, graded, responses>> /\ KeepRest

-----------------------------------------------------------------------------
(* Completed tasks and service levels.                                     *)

MeanWith(f, r) == (f.mean * f.total + r) \div (f.total + 1)

WithTask(f, good, r, e) ==
    [f EXCEPT !.total = @ + 1, !.good = IF good THEN @ + 1 ELSE @,
              !.bad = IF good THEN @ ELSE @ + 1, !.earned = @ + e, !.mean = MeanWith(f, r)]

\* Anyone may call it, for any agent.
RecordTaskCompletion(a, good, r, e) ==
    /\ figures[a].total < MaxCompletions
    /\ figures' = [figures EXCEPT ![a] = WithTask(@, good, r, e)]
    /\ responses' = [responses EXCEPT ![a] = Append(@, r)]
    /\ UNCHANGED <<scoreOf, outcomes, graded>> /\ KeepRest

\* Terms are set once, by the owner.
AgreeService(a, terms) ==
    /\ a \in enrolled /\ figures[a].terms = NoTerms
    /\ figures' = [figures EXCEPT ![a].terms = terms]
    /\ UNCHANGED <<scoreOf, outcomes, graded, responses>> /\ KeepRest

Meets(measured, terms) == /\ measured.response <= terms.response
                          /\ measured.uptime >= terms.uptime /\ measured.quality >= terms.quality

\* A violation penalises the agent's record (AgentRegistry), so it needs one.
MeasureService(a, measured) ==
    /\ figures[a].terms # NoTerms /\ figures[a].checks < MaxChecks
    /\ Meets(measured, figures[a].terms) \/ a \in enrolled
    /\ figures' = [figures EXCEPT ![a].checks = @ + 1,
         ![a].violations = IF Meets(measured, figures[a].terms) THEN @ ELSE @ + 1]
    /\ UNCHANGED <<scoreOf, outcomes, graded, responses>> /\ KeepRest

RatedTick == /\ ratedTime < RatedEnd
             /\ ratedTime' = ratedTime + 1
             /\ KeepRatings /\ KeepSettings /\ KeepEnrolment

-----------------------------------------------------------------------------
ReputationInit ==
    /\ enrolled = {} /\ enrolments = <<>> /\ outcomes = {}
    /\ scoreOf = [a \in RatedAgents |-> NoScore]
    /\ reporters = {} /\ overseer = NoReporter /\ schedule = FirstSchedule
    /\ figures = [a \in RatedAgents |-> NoFigures]
    /\ ratingsHalted = FALSE /\ ratedTime = 0 /\ settings = 0
    /\ graded = [a \in RatedAgents |-> 0] /\ responses = [a \in RatedAgents |-> <<>>]

ReputationNext ==
    \/ \E a \in RatedAgents :
        \/ Enrol(a) \/ Withdraw(a) \/ GetReputation(a)
        \/ \E t \in RatedTasks, good \in BOOLEAN, d \in Deltas : RecordTaskOutcome(a, t, good, d)
        \/ \E good \in BOOLEAN, r \in ResponseTimes, e \in Earnings : RecordTaskCompletion(a, good, r, e)
        \/ \E s \in ServiceLevels : AgreeService(a, s) \/ MeasureService(a, s)
    \/ \E A \in SUBSET RatedAgents : \E grades \in [A -> Grades] : GradeAgents(grades)
    \/ \E r \in Reporters : SetCoordinator(r) \/ AddAuthorizedCaller(r) \/ RemoveAuthorizedCaller(r)
    \/ \E d \in DecaySchedules : SetReputationConfig(d)
    \/ \E b \in BOOLEAN : HaltRatings(b)
    \/ RatedTick

ReputationSpec == ReputationInit /\ [][ReputationNext]_ratedVars

-----------------------------------------------------------------------------
MostPerTask == Max({0} \cup Deltas)

(* A task raises reputation once: together the scores are never above what *)
(* the last full updates gave plus one delta for each task counted, however *)
(* outcomes, reads, updates and registrations interleave                   *)
(* (record_task_outcome's TaskOutcome key).                                *)
EachTaskCountsOnce ==
    LET scores == [a \in RatedAgents |-> scoreOf[a].value]
    IN  SumFunction(scores) <= SumFunction(graded) + MostPerTask * Cardinality(outcomes)

(* The running mean is floored at every task, and the error carries over;  *)
(* still it lies between the shortest response and the true mean           *)
(* (record_task_completion).                                               *)
MeanIsBracketed == \A a \in RatedAgents : responses[a] # <<>> =>
    LET r == responses[a] IN
    /\ figures[a].mean >= Min(Range(r))
    /\ figures[a].mean * Len(r) <= SumFunction(r)

(* Scores count tasks once and means stay near what they average.          *)
ReputationInv == ReputationTypeOK /\ EachTaskCountsOnce /\ MeanIsBracketed
=============================================================================
