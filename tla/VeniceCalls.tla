----------------------------- MODULE VeniceCalls -----------------------------
(***************************************************************************)
(* What an agent's execute does with the language model: the client of      *)
(* services/venice/client.ts with its response cache, its deduplication of  *)
(* equal requests and its pool of keys, and the second attempt that         *)
(* agents/base/BaseAgent.ts makes when the first answer does not parse.     *)
(*                                                                         *)
(* The breaker is the one of CircuitBreaker.tla: here it is open or not     *)
(* when a call asks.  A key's attempts with their retries are one step that *)
(* ends in an answer, a failure another key may mend, or a refusal.         *)
(*                                                                         *)
(* Beside the calls: the streams of client.ts, whose deltas are kept until   *)
(* an attempt is over, and the store of keyHealth.ts that ranks the keys.   *)
(*                                                                         *)
(* client.ts carries the residue of a merge (an outer `try` without a catch *)
(* around the admission, calls of a `keyHealth` the class does not have):   *)
(* it is read without those lines.                                          *)
(***************************************************************************)
EXTENDS Integers, Sequences, FiniteSets, SequencesExt

CONSTANTS Executions,    \* tasks that agents of one type execute
          TopicOf,       \* execution -> its first prompt
          RetryOf,       \* first prompt -> the prompt with the JSON addendum
          SimilarTo,     \* prompt -> prompts whose similarity reaches the threshold
          Chain,         \* the providers' keys in order
          NoEntry, NoLeader,
          KeyWindow, MinSamples, MaxErrors, \* of a window more than MaxErrors failures trip
          KeyCooldown, CacheTtl,
          DegradedOf,    \* DEGRADED_ERROR_RATE, in ten-thousandths
          FrameCount,    \* frames of a streamed answer
          HealthWindow, BaseCooldown, MaxCooldown, \* keyHealth.ts
          MaxOutcomes,   \* bound on the outcomes recorded for a key
          VeniceEnd      \* bound on the clock

Prompts == DOMAIN SimilarTo
Keys    == Range(Chain)

ASSUME VeniceAssumption ==
    /\ TopicOf \in [Executions -> Prompts]
    /\ \A p \in Prompts : p \in SimilarTo[p] /\ SimilarTo[p] \subseteq Prompts
    /\ {KeyWindow, MinSamples, MaxErrors, KeyCooldown, CacheTtl, DegradedOf, VeniceEnd} \subseteq Nat
    /\ {FrameCount, HealthWindow, BaseCooldown, MaxCooldown} \subseteq Nat \ {0}

VARIABLES exec,     \* execution -> where its current call is
          keyState, \* key -> recent outcomes and the end of its cooldown
          cache,    \* prompt -> what VeniceResponseCache holds for it
          inflight, \* prompt -> the execution whose fetch runs
          veniceTime,
          stream,   \* one streamed call
          health    \* key -> its entry in VeniceKeyHealthStore

callVars   == <<exec, keyState, cache, inflight>>
veniceVars == <<callVars, veniceTime, stream, health>>

\* An answer: the prompt the model was given and whether its output parses.
Answer(p, good) == [to |-> p, good |-> good]

Prompt(e) == IF exec[e].turn = 1 THEN TopicOf[e] ELSE RetryOf[TopicOf[e]]

-----------------------------------------------------------------------------
(* The cache.                                                              *)

Live(p) == cache[p] # NoEntry /\ cache[p].expires > veniceTime

\* get: the prompt itself, or one that is similar enough.
CacheHits(p) == IF Live(p) THEN {p} ELSE {q \in SimilarTo[p] : Live(q)}

\* getStale: of any age.
StaleHits(p) ==
    IF cache[p] # NoEntry THEN {p} ELSE {q \in SimilarTo[p] : cache[q] # NoEntry}

\* set: whatever the model said, also when nothing can be made of it.
Stored(p, answer) ==
    [cache EXCEPT ![p] = [answer |-> answer, expires |-> veniceTime + CacheTtl]]

\* invalidateAll: calls under way go on, and store what they get.
Invalidate ==
    /\ cache # [p \in Prompts |-> NoEntry]
    /\ cache' = [p \in Prompts |-> NoEntry]
    /\ UNCHANGED <<exec, keyState, inflight, veniceTime, stream, health>>

-----------------------------------------------------------------------------
(* The keys.                                                               *)

Available(k) == keyState[k].until <= veniceTime

Errors(window) == Len(SelectSeq(window, LAMBDA ok : ~ok))

Trips(window, ok) == ~ok /\ Len(window) >= MinSamples /\ Errors(window) > MaxErrors

\* recordResult: a key that trips rests, with a clean window.
Recorded(k, ok) ==
    LET full == Append(keyState[k].window, ok)
        window == IF Len(full) > KeyWindow THEN Tail(full) ELSE full
    IN  [keyState EXCEPT ![k] =
            IF Trips(window, ok) THEN [window |-> <<>>, until |-> veniceTime + KeyCooldown]
                                 ELSE [@ EXCEPT !.window = window]]

-----------------------------------------------------------------------------
(* One execution.                                                          *)

Ended(how) == [stage |-> how, turn |-> 1, at |-> 0]

\* What BaseAgent makes of an answer: the result, a second question, or the
\* end.
After(e, answer) ==
    CASE answer.good -> [Ended("answered") EXCEPT !.turn = exec[e].turn]
      [] ~answer.good /\ exec[e].turn = 1 -> [stage |-> "ask", turn |-> 2, at |-> 0]
      [] OTHER -> [Ended("malformed") EXCEPT !.turn = 2]

Execute(e) ==
    /\ exec[e].stage = "idle"
    /\ exec' = [exec EXCEPT ![e] = [stage |-> "ask", turn |-> 1, at |-> 0]]
    /\ UNCHANGED <<keyState, cache, inflight, veniceTime, stream, health>>

\* The circuit is open: something from the cache, however old, or an error.
Shed(e) ==
    /\ exec[e].stage = "ask"
    /\ \/ \E q \in StaleHits(Prompt(e)) :
            exec' = [exec EXCEPT ![e] = After(e, cache[q].answer)]
       \/ /\ StaleHits(Prompt(e)) = {}
          /\ exec' = [exec EXCEPT ![e] = Ended("unavailable")]
    /\ UNCHANGED <<keyState, cache, inflight, veniceTime, stream, health>>

HitCache(e) ==
    /\ exec[e].stage = "ask"
    /\ \E q \in CacheHits(Prompt(e)) :
         exec' = [exec EXCEPT ![e] = After(e, cache[q].answer)]
    /\ UNCHANGED <<keyState, cache, inflight, veniceTime, stream, health>>

\* dedup: behind the fetch for the same prompt, or a fetch of its own.
Fetch(e) ==
    /\ exec[e].stage = "ask" /\ CacheHits(Prompt(e)) = {}
    /\ IF inflight[Prompt(e)] # NoLeader
         THEN /\ exec' = [exec EXCEPT ![e].stage = "follow"]
              /\ UNCHANGED inflight
         ELSE /\ exec' = [exec EXCEPT ![e].stage = "lead", ![e].at = 1]
              /\ inflight' = [inflight EXCEPT ![Prompt(e)] = e]
    /\ UNCHANGED <<keyState, cache, veniceTime, stream, health>>

Sharing(e) == {f \in Executions : f = e \/ (exec[f].stage = "follow" /\ Prompt(f) = Prompt(e))}

\* Every caller of the fetch goes on with its answer.
Resolve(e, answer) ==
    /\ exec' = [f \in Executions |-> IF f \in Sharing(e) THEN After(f, answer) ELSE exec[f]]
    /\ cache' = Stored(Prompt(e), answer)
    /\ inflight' = [inflight EXCEPT ![Prompt(e)] = NoLeader]

\* ... or each with what the cache still has, or with the error.
Reject(e) ==
    /\ LET stale == StaleHits(Prompt(e)) IN
         IF stale = {}
           THEN exec' = [f \in Executions |-> IF f \in Sharing(e) THEN Ended("unavailable") ELSE exec[f]]
           ELSE \E q \in stale :
                  exec' = [f \in Executions |->
                             IF f \in Sharing(e) THEN After(f, cache[q].answer) ELSE exec[f]]
    /\ inflight' = [inflight EXCEPT ![Prompt(e)] = NoLeader]
    /\ UNCHANGED cache

\* The next key that is not cooling down, or none is left.
SendNext(e) ==
    /\ exec[e].stage = "lead"
    /\ LET rest == {i \in exec[e].at .. Len(Chain) : Available(Chain[i])}
       IN  IF rest = {}
             THEN Reject(e)
             ELSE /\ exec' = [exec EXCEPT ![e].stage = "sent",
                                          ![e].at = CHOOSE i \in rest : \A j \in rest : i <= j]
                  /\ UNCHANGED <<cache, inflight>>
    /\ UNCHANGED <<keyState, veniceTime, stream, health>>

Succeed(e) ==
    /\ exec[e].stage = "sent"
    /\ keyState' = Recorded(Chain[exec[e].at], TRUE)
    /\ \E good \in BOOLEAN : Resolve(e, Answer(Prompt(e), good))
    /\ UNCHANGED <<veniceTime, stream, health>>

\* 401, 429, 5xx, a timeout or a broken connection: the next provider's turn.
FailOver(e) ==
    /\ exec[e].stage = "sent"
    /\ keyState' = Recorded(Chain[exec[e].at], FALSE)
    /\ IF exec[e].at < Len(Chain)
         THEN /\ exec' = [exec EXCEPT ![e].stage = "lead", ![e].at = @ + 1]
              /\ UNCHANGED <<cache, inflight>>
         ELSE Reject(e)
    /\ UNCHANGED <<veniceTime, stream, health>>

\* Any other 4xx: every provider would say so.
Refuse(e) ==
    /\ exec[e].stage = "sent"
    /\ Reject(e)
    /\ UNCHANGED <<keyState, veniceTime, stream, health>>

-----------------------------------------------------------------------------
(* A stream.                                                               *)

NoStream == [stage |-> "idle", at |-> 1, deltas |-> <<>>, next |-> 1, out |-> <<>>]

OpenStream ==
    /\ stream.stage = "idle"
    /\ stream' = [NoStream EXCEPT !.stage = "reading"]
    /\ UNCHANGED <<callVars, veniceTime, health>>

\* A frame that is whole within one chunk adds its delta; of one that two
\* chunks share neither half parses.
ReadFrame ==
    /\ stream.stage = "reading" /\ stream.next <= FrameCount
    /\ \E whole \in BOOLEAN :
         stream' = [stream EXCEPT
           !.next = @ + 1,
           !.deltas = IF whole THEN Append(@, [from |-> Chain[stream.at], frame |-> stream.next]) ELSE @]
    /\ UNCHANGED <<callVars, veniceTime, health>>

\* Only a whole attempt reaches the caller.
EndStream ==
    /\ stream.stage = "reading" /\ stream.next > FrameCount
    /\ stream' = [stream EXCEPT !.stage = "done", !.out = stream.deltas]
    /\ UNCHANGED <<callVars, veniceTime, health>>

\* Mutant: the next provider's deltas follow those of the one that broke.
MutantNextAttempt == [stream EXCEPT !.at = @ + 1, !.next = 1]

NextAttempt == [stream EXCEPT !.at = @ + 1, !.next = 1, !.deltas = <<>>]

BreakStream(mayFailOver) ==
    /\ stream.stage = "reading"
    /\ stream' = IF mayFailOver /\ stream.at < Len(Chain) THEN NextAttempt
                                                         ELSE [stream EXCEPT !.stage = "failed"]
    /\ UNCHANGED <<callVars, veniceTime, health>>

-----------------------------------------------------------------------------
(* The health of the keys.                                                 *)

NeverCooled == -1
Fresh == [recent |-> <<>>, ok |-> 0, bad |-> 0, quota |-> 0, inARow |-> 0, until |-> NeverCooled]

Slid(window, ok) ==
    LET full == Append(window, ok) IN IF Len(full) > HealthWindow THEN Tail(full) ELSE full

Room(k) == health[k].ok + health[k].bad < MaxOutcomes

RecordSuccess(k) ==
    /\ Room(k)
    /\ health' = [health EXCEPT ![k] = [@ EXCEPT !.ok = @ + 1, !.recent = Slid(@, TRUE),
                                                !.inARow = 0, !.until = NeverCooled]]
    /\ UNCHANGED <<callVars, veniceTime, stream>>

\* auth, server, transport: the error rate only.
RecordKeyFailure(k) ==
    /\ Room(k)
    /\ health' = [health EXCEPT ![k] = [@ EXCEPT !.bad = @ + 1, !.recent = Slid(@, FALSE)]]
    /\ UNCHANGED <<callVars, veniceTime, stream>>

Backoff(n) ==
    LET wait == BaseCooldown * 2 ^ (n - 1) IN IF wait < MaxCooldown THEN wait ELSE MaxCooldown

\* quota: a cooldown that doubles, and no mark in the window.
RecordQuota(k) ==
    /\ Room(k)
    /\ health' = [health EXCEPT ![k] =
         [@ EXCEPT !.bad = @ + 1, !.quota = @ + 1, !.inARow = @ + 1,
                   !.until = veniceTime + Backoff(health[k].inARow + 1)]]
    /\ UNCHANGED <<callVars, veniceTime, stream>>

\* The error rate, in the ten-thousandths of scoreOf.
Score(window) == IF window = <<>> THEN 0 ELSE (10000 * Errors(window)) \div Len(window)

Cooling(k) == health[k].until > veniceTime

\* snapshot: what operators are shown.
ShownAs(k) == IF Cooling(k) THEN "cooldown" ELSE IF Score(health[k].recent) >= DegradedOf THEN "degraded" ELSE "healthy"

\* order: keys that rest come last, the one that rests shortest before the others; among
\* the rest the error rate decides and then the place in the chain.
Before(k, l) ==
    IF Cooling(k) # Cooling(l) THEN Cooling(l)
    ELSE IF Cooling(k) THEN health[k].until < health[l].until
    ELSE Score(health[k].recent) < Score(health[l].recent)

Ordered == SortSeq(Chain, Before)

\* register with another key behind the slot.
RotateKey(k) ==
    /\ health[k] # Fresh
    /\ health' = [health EXCEPT ![k] = Fresh]
    /\ UNCHANGED <<callVars, veniceTime, stream>>

VeniceTick ==
    /\ veniceTime < VeniceEnd
    /\ veniceTime' = veniceTime + 1
    /\ UNCHANGED <<callVars, stream, health>>

-----------------------------------------------------------------------------
VeniceInit ==
    /\ exec = [e \in Executions |-> Ended("idle")]
    /\ keyState = [k \in Keys |-> [window |-> <<>>, until |-> 0]]
    /\ cache = [p \in Prompts |-> NoEntry]
    /\ inflight = [p \in Prompts |-> NoLeader]
    /\ veniceTime = 0
    /\ stream = NoStream
    /\ health = [k \in Keys |-> Fresh]

CallStep ==
    \/ \E e \in Executions :
         \/ Execute(e) \/ Shed(e) \/ HitCache(e) \/ Fetch(e)
         \/ SendNext(e) \/ Succeed(e) \/ FailOver(e) \/ Refuse(e)
    \/ Invalidate \/ VeniceTick

StreamStep ==
    \/ OpenStream \/ ReadFrame \/ EndStream
    \/ \E mayFailOver \in BOOLEAN : BreakStream(mayFailOver)

HealthStep ==
    \/ \E k \in Keys : RecordSuccess(k) \/ RecordKeyFailure(k) \/ RecordQuota(k) \/ RotateKey(k)
    \/ VeniceTick

VeniceNext == CallStep \/ StreamStep \/ HealthStep

VeniceSpec == VeniceInit /\ [][VeniceNext]_veniceVars

-----------------------------------------------------------------------------
(* Properties.                                                             *)

\* Every variable keeps to its type.
VeniceTypeOK ==
    /\ \A e \in Executions :
         /\ exec[e].stage \in {"idle", "ask", "lead", "follow", "sent",
                               "answered", "malformed", "unavailable"}
         /\ exec[e].turn \in {1, 2} /\ exec[e].at \in 0..Len(Chain)
    /\ \A k \in Keys : Len(keyState[k].window) <= KeyWindow
    /\ \A p \in Prompts : inflight[p] \in Executions \cup {NoLeader}

\* Whoever waits for somebody else's fetch waits for one that runs, for the
\* same prompt, and no prompt is fetched twice at once.
FollowersAreLed ==
    /\ \A e \in Executions :
         exec[e].stage = "follow" => inflight[Prompt(e)] # NoLeader
    /\ \A e \in Executions :
         exec[e].stage \in {"lead", "sent"} <=> \E p \in Prompts : inflight[p] = e
    /\ \A p \in Prompts : inflight[p] # NoLeader => Prompt(inflight[p]) = p

\* A key that stays in rotation has not failed too often in its window,
\* whatever order the outcomes of overlapping calls come in.
TrippedKeysRest ==
    \A k \in Keys :
        Len(keyState[k].window) >= MinSamples => Errors(keyState[k].window) <= MaxErrors

\* What a caller of a stream gets comes from one provider's one attempt, in
\* the order it was sent: a provider that broke leaves nothing behind.
StreamIsOneAttempt ==
    \A i, j \in DOMAIN stream.out : i < j =>
        /\ stream.out[i].from = stream.out[j].from
        /\ stream.out[i].frame < stream.out[j].frame

\* The counters of a key agree with each other and with its cooldown: a run
\* of quota refusals has a deadline no longer than the longest one, the
\* window holds what is not a quota refusal, and a key that has only run out of
\* quota is not shown as degraded.
HealthAddsUp ==
    \A k \in Keys :
        LET h == health[k] IN
        /\ h.inARow > 0 <=> h.until # NeverCooled
        /\ h.inARow <= h.quota /\ h.quota <= h.bad
        /\ h.until <= veniceTime + MaxCooldown
        /\ Len(h.recent) = (IF h.ok + h.bad - h.quota < HealthWindow
                              THEN h.ok + h.bad - h.quota ELSE HealthWindow)
        /\ h.bad = h.quota => ShownAs(k) # "degraded"

\* The first key tried does not rest while another could be used.
RestedKeysFirst ==
    (\E k \in Keys : ~Cooling(k)) => ~Cooling(Ordered[1])

VeniceInv ==
    /\ VeniceTypeOK /\ FollowersAreLed /\ TrippedKeysRest
    /\ StreamIsOneAttempt /\ HealthAddsUp /\ RestedKeysFirst

\* "Your previous response was not valid JSON. You MUST respond with ONLY a
\* raw JSON object" (research.ts:82): the second question is put to the
\* model, and not to the cache that holds the answer it complains of.
RetryIsAsked ==
    [][\A e \in Executions :
         HitCache(e) /\ exec[e].turn = 2 => ~(Prompt(e) # TopicOf[e] /\ Live(TopicOf[e])
                                               /\ ~Live(Prompt(e)) /\ ~cache[TopicOf[e]].answer.good)]_veniceVars
=============================================================================
