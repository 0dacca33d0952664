-------------------------- MODULE CircuitBreaker --------------------------
(***************************************************************************)
(* The two circuit breakers of the backend and the calls that run through  *)
(* them: the generic one (src/backend/src/services/circuitBreaker.ts),     *)
(* through which the payment service reaches Horizon, and the one of the   *)
(* Venice client (services/venice/circuitBreaker.ts), which hands out      *)
(* probe slots.  Calls overlap: one that was admitted before the breaker   *)
(* opened may end at any time after.                                       *)
(*                                                                         *)
(* Beside the calls: the health probes (services/deepHealth.ts and the      *)
(* handlers of api/routes/health.ts), by whose answer a server is taken out *)
(* of rotation and which, looking at the breakers, also move them.         *)
(***************************************************************************)
EXTENDS Naturals, FiniteSets

CONSTANTS Breakers, VeniceBreakers,   \* the latter with probe slots
          Calls, NoBreaker,
          FailureThreshold, RecoveryTime, ProbeCount

ASSUME BreakerAssumption ==
  /\ VeniceBreakers \subseteq Breakers /\ NoBreaker \notin Breakers
  /\ IsFiniteSet(Calls)
  /\ {FailureThreshold, RecoveryTime, ProbeCount} \subseteq Nat \ {0}

VARIABLES breaker,  \* breaker[b]: one instance of either class
          through,  \* through[c]: the breaker that call c has been admitted by
          probe     \* the health request under way, or the last one

breakerVars == <<breaker, through, probe>>

\* cooling counts what is left of the recovery timeout; failures are counted up to
\* the threshold, with which alone they are compared.
BreakerStates == {"CLOSED", "OPEN", "HALF_OPEN"}
BreakerRecord == [state : BreakerStates, failures : 0 .. FailureThreshold,
                  cooling : 0 .. RecoveryTime, probes : 0 .. ProbeCount]

\* What /health/deep and /health/ready ask, and what a failure of makes deep answer 503.
Dependencies(kind) == IF kind = "deep" THEN {"venice", "horizon", "database", "queue"}
               ELSE {"tasks", "payments", "queue", "venice", "horizon", "websocket"}
Critical == {"venice", "horizon", "database"}

\* Breakers of one name are those of the clients of one service.
Instances(d) == IF d = "venice" THEN VeniceBreakers ELSE IF d = "horizon" THEN Breakers \ VeniceBreakers ELSE {}

\* left is how long the breaker that failed a dependency still refuses calls.
HealthAnswers == [status : {"ok", "degraded", "fail"}, reached : BOOLEAN, left : 0 .. RecoveryTime]
NoProbe == [kind |-> "none", answer |-> <<>>, verdict |-> "none"]

BreakerTypeOK ==
  /\ probe.kind = "none" \/ \A d \in DOMAIN probe.answer : d \in Dependencies(probe.kind) /\ probe.answer[d] \in HealthAnswers
  /\ breaker \in [Breakers -> BreakerRecord]
  /\ through \in [Calls -> Breakers \cup {NoBreaker}]

BreakerInit ==
  /\ breaker = [b \in Breakers |-> [state |-> "CLOSED", failures |-> 0, cooling |-> 0, probes |-> 0]]
  /\ through = [c \in Calls |-> NoBreaker]
  /\ probe = NoProbe

-----------------------------------------------------------------------------
\* Mutant: recovery starts with a clean count, as a closed breaker does.
MutantEvaluated(x) ==
  IF x.state = "OPEN" /\ x.cooling = 0
  THEN [x EXCEPT !.state = "HALF_OPEN", !.probes = 0, !.failures = 0] ELSE x

\* OPEN turns HALF_OPEN when somebody looks after the timeout.
Evaluated(x) ==
  IF x.state = "OPEN" /\ x.cooling = 0
  THEN [x EXCEPT !.state = "HALF_OPEN", !.probes = 0] ELSE x

Less(n) == IF n = 0 THEN 0 ELSE n - 1
Tripped(x) == [x EXCEPT !.state = "OPEN", !.cooling = RecoveryTime, !.probes = 0]

\* recordSuccess
Healed(x) == [x EXCEPT !.state = "CLOSED", !.failures = 0,
                       !.probes = IF x.state = "CLOSED" THEN Less(@) ELSE 0]

Counted(x) == [x EXCEPT !.failures = IF @ = FailureThreshold THEN @ ELSE @ + 1]

\* recordFailure: the generic breaker starts its timeout anew with every failure past
\* the threshold, the Venice breaker with a failed probe but not while open.
Failed(x) ==
  LET y == Counted(x) IN IF y.failures = FailureThreshold THEN Tripped(y) ELSE y

VeniceFailed(x) ==
  LET y == [Counted(x) EXCEPT !.probes = Less(@)] IN
  IF x.state = "HALF_OPEN" \/ (x.state = "CLOSED" /\ y.failures = FailureThreshold)
  THEN Tripped(y) ELSE y

Released(x) == [x EXCEPT !.probes = Less(@)]

-----------------------------------------------------------------------------
\* Health checks ask for the state, of one breaker or of all that share a name: every one
\* of those is evaluated, and the worst of them reported.
Look(b) ==
  /\ Evaluated(breaker[b]) # breaker[b]
  /\ breaker' = [breaker EXCEPT ![b] = Evaluated(@)]
  /\ UNCHANGED through

Summarized(instances) == [b \in Breakers |-> IF b \in instances THEN Evaluated(breaker[b]) ELSE breaker[b]]

Summarize(instances) ==
  /\ Summarized(instances) # breaker
  /\ breaker' = Summarized(instances)
  /\ UNCHANGED through

Admits(b, x) == x.state = "CLOSED" \/ (x.state = "HALF_OPEN" /\ (b \in VeniceBreakers => x.probes < ProbeCount))

\* assertClosed and acquire; a rejected call has looked all the same.
Begin(c, b) ==
  LET x == Evaluated(breaker[b]) IN
  /\ through[c] = NoBreaker
  /\ Admits(b, x)
  /\ through' = [through EXCEPT ![c] = b]
  /\ breaker' = [breaker EXCEPT ![b] = IF x.state = "HALF_OPEN" /\ b \in VeniceBreakers
                                       THEN [x EXCEPT !.probes = @ + 1] ELSE x]

Settle(c, x) ==
  /\ breaker' = [breaker EXCEPT ![through[c]] = x]
  /\ through' = [through EXCEPT ![c] = NoBreaker]

Succeed(c) == through[c] # NoBreaker /\ Settle(c, Healed(breaker[through[c]]))

Fail(c) ==
  \/ through[c] \in Breakers \ VeniceBreakers /\ Settle(c, Failed(breaker[through[c]]))
  \/ through[c] \in VeniceBreakers /\ Settle(c, VeniceFailed(breaker[through[c]]))

\* The call was served from a cache, shared another's fetch, or threw before its outcome
\* was recorded.
LetGo(c) == through[c] \in VeniceBreakers /\ Settle(c, Released(breaker[through[c]]))

Cool ==
  /\ \E b \in Breakers : breaker[b].cooling > 0
  /\ breaker' = [b \in Breakers |-> [breaker[b] EXCEPT !.cooling = Less(@)]]
  /\ UNCHANGED through

-----------------------------------------------------------------------------
(* The health probes.                                                      *)

AskHealth(kind) ==
  /\ probe.kind = "none" \/ probe.verdict # "none"
  /\ probe' = [kind |-> kind, answer |-> <<>>, verdict |-> "none"]
  /\ UNCHANGED <<breaker, through>>

Asking(d) == probe.kind # "none" /\ d \in Dependencies(probe.kind) \ DOMAIN probe.answer
Hears(d, answer) ==
  probe' = [probe EXCEPT !.answer = [x \in DOMAIN @ \cup {d} |-> IF x = d THEN answer ELSE @[x]]]
Plain(status) == [status |-> status, reached |-> FALSE, left |-> 0]

\* combine: an open breaker fails the dependency also when it can be reached.
Combined(reached, bs) ==
  LET in(state) == {x \in bs : x.state = state}
      open == in("OPEN")
  IN  [status |-> CASE open # {} \/ ~reached -> "fail"
                    [] in("HALF_OPEN") # {} -> "degraded"
                    [] OTHER -> "ok",
       reached |-> reached,
       left |-> IF open = {} THEN 0 ELSE CHOOSE n \in {x.cooling : x \in open} : \A x \in open : x.cooling <= n]

\* The request comes back, and then the breakers are summarized.
CheckUpstream(d, reached) ==
  /\ probe.kind = "deep" /\ Asking(d) /\ d \in {"venice", "horizon"}
  /\ breaker' = Summarized(Instances(d))
  /\ Hears(d, Combined(reached, {breaker'[b] : b \in Instances(d)}))
  /\ UNCHANGED through

\* The write lock is to be had, is held by another, or the file cannot be opened, read
\* or, but in read-only mode, written to.
CheckDatabase(status) ==
  /\ probe.kind = "deep" /\ Asking("database") /\ Hears("database", Plain(status))
  /\ UNCHANGED <<breaker, through>>

\* Jobs that wait, jobs that failed: too many, or they cannot be counted.
CheckQueue(status) ==
  /\ probe.kind = "deep" /\ status # "fail" /\ Asking("queue") /\ Hears("queue", Plain(status))
  /\ UNCHANGED <<breaker, through>>

\* /health/ready looks at no breaker; a socket server that is not attached does no harm.
CheckReady(d, status) ==
  /\ probe.kind = "ready" /\ status # "degraded" /\ Asking(d) /\ Hears(d, Plain(status))
  /\ UNCHANGED <<breaker, through>>

\* 503 and 500 say fail; of what is not critical a deep probe only says degraded.
Verdict ==
  LET of(status) == {d \in DOMAIN probe.answer : probe.answer[d].status = status}
  IN  IF of("fail") \cap (IF probe.kind = "deep" THEN Critical ELSE Dependencies("ready")) # {} THEN "fail"
      ELSE IF of("fail") \cup of("degraded") # {} THEN "degraded" ELSE "ok"

AnswerHealth ==
  /\ probe.kind # "none" /\ probe.verdict = "none"
  /\ DOMAIN probe.answer = Dependencies(probe.kind)
  /\ probe' = [probe EXCEPT !.verdict = Verdict]
  /\ UNCHANGED <<breaker, through>>

ProbeStep ==
  \/ \E kind \in {"deep", "ready"} : AskHealth(kind)
  \/ \E d \in {"venice", "horizon"}, reached \in BOOLEAN : CheckUpstream(d, reached)
  \/ \E status \in {"ok", "degraded", "fail"} :
       \/ CheckDatabase(status) \/ CheckQueue(status)
       \/ \E d \in Dependencies("ready") : CheckReady(d, status)
  \/ AnswerHealth

BreakerStep ==
  \/ Summarize(Breakers \ VeniceBreakers) \/ Summarize(VeniceBreakers)
  \/ \E b \in Breakers : Look(b) \/ \E c \in Calls : Begin(c, b)
  \/ \E c \in Calls : Succeed(c) \/ Fail(c) \/ LetGo(c)
  \/ Cool

BreakerNext == (BreakerStep /\ UNCHANGED probe) \/ ProbeStep

BreakerSpec == BreakerInit /\ [][BreakerNext]_breakerVars

-----------------------------------------------------------------------------
\* A breaker is closed exactly when it counts fewer failures than its threshold, in
\* whatever order calls admitted in different states end.  This is what lets the
\* generic breaker re-open on one failed probe: it has no branch for that case.
CountMatchesState ==
  \A b \in Breakers : (breaker[b].state = "CLOSED") = (breaker[b].failures < FailureThreshold)

\* A probe slot is never held by nobody: when the budget is exhausted, a call is under way
\* whose end gives a slot back, so that the breaker cannot stay half open for ever.
SlotsAreHeld ==
  \A b \in VeniceBreakers : breaker[b].probes <= Cardinality({c \in Calls : through[c] = b})

\* A server is not kept out of rotation by a breaker alone: a deep probe fails a service
\* that can be reached only for a breaker whose timeout still runs, so that the first
\* probe after it says degraded, even when no call has come to try the breaker.
RefusalsPass ==
  \A d \in DOMAIN probe.answer :
    probe.answer[d].status = "fail" /\ probe.answer[d].reached => probe.answer[d].left > 0

\* State, failure count and probe slots of a breaker agree, in whatever order calls end,
\* and health answers tell of them what callers will meet.
BreakerInv == BreakerTypeOK /\ CountMatchesState /\ SlotsAreHeld /\ RefusalsPass
=============================================================================
