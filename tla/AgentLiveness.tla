--------------------------- MODULE AgentLiveness ---------------------------
(***************************************************************************)
(* Who is in the fleet: the agents table (src/backend/src/db/agents.ts),   *)
(* the routes that write it (api/routes/agents.ts), the watchdog           *)
(* (services/agentWatchdog.ts), the deletion backstop (services/           *)
(* heartbeat.ts), the cleanup that index.ts starts beside it (services/    *)
(* agentCleanup.ts), the cached listing (api/middleware/cache.ts) and the  *)
(* server's own end (index.ts); and how an agent proves that it is itself  *)
(* (api/agentSignature.ts, agents/agentAuthClient.ts, agents/heartbeat.ts, *)
(* services/auth/walletChallenge.ts).  A watchdog pass as api/app.ts wires it    *)
(* waits for nothing outside the process, so it is one step; it may come   *)
(* at any time, since an operator can ask for one and a timer may be late. *)
(***************************************************************************)
EXTENDS Integers, Sequences, FiniteSets

CONSTANTS FleetAgents,                 \* the agents' ids, as numbers
          PassInterval, GracePeriod,   \* the watchdog's
          OfflineLimit,                \* age at which the backstop deletes
          StaleLimit,                  \* age at which the cleanup takes an agent offline
          ListingTtl,
          ListingPage,                 \* agents on a page of the listing
          ProofTtl, MaxPending,        \* of the challenges that wait to be answered
          AlarmAfter,                  \* failed heartbeats in a row that raise an alarm
          MaxProofs,                   \* bound on the challenges issued
          FleetEnd                     \* bound on the time

ASSUME FleetAssumption ==
  /\ FleetAgents \subseteq Nat /\ IsFiniteSet(FleetAgents) /\ ListingPage \in Nat \ {0}
  /\ {PassInterval, GracePeriod, OfflineLimit, StaleLimit, ListingTtl, FleetEnd} \subseteq Nat
  /\ {ProofTtl, MaxPending, AlarmAfter, MaxProofs} \subseteq Nat \ {0}

VARIABLES agentRow,    \* agentRow[a]: its row of the agents table
          serving,     \* whether a server runs
          lastPass,    \* when the watchdog last looked
          listing,     \* the cached answer to GET /api/agents
          alerts,      \* the last alert the watchdog left about each agent
          swept,       \* agents the backstop deleted since they last registered
          walk,        \* a client that reads the listing page by page, past the cache
          fleetTime,
          proofs,        \* the challenges issued to agents, in order
          pendingProofs, \* those that the server still holds
          proofUse,      \* history: how often each was accepted, and the last refusal
          nonces,        \* the challenges issued to the sockets of wallets
          beats          \* beats[a]: the heartbeat client of an agent

proofVars == <<proofs, pendingProofs, proofUse, nonces, beats>>
fleetVars == <<agentRow, serving, lastPass, listing, alerts, swept, walk, fleetTime, proofVars>>

NoClock == -1
NoRow == [status |-> "none", seen |-> 0, stale |-> NoClock]
NotCached == [agents |-> {}, until |-> NoClock]
NoUse == [count |-> <<>>, refused |-> 0, lost |-> 0, spent |-> {}]
NoBeats == [on |-> FALSE, signing |-> 0, sent |-> 0, row |-> 0, after |-> 0, allowed |-> 0]
NoWalk == [state |-> "none", seen |-> FleetEnd, id |-> -1, got |-> {}, began |-> {}, touched |-> {}]

FleetTypeOK ==
  /\ agentRow \in [FleetAgents -> [status : {"none", "online", "offline"},
                                   seen : 0 .. FleetEnd, stale : -1 .. FleetEnd]]
  /\ serving \in BOOLEAN
  /\ lastPass \in -1 .. FleetEnd
  /\ listing \in [agents : SUBSET FleetAgents, until : Int]
  /\ alerts \in [FleetAgents -> {"none", "quarantined", "recovered", "evicted"}]
  /\ swept \subseteq FleetAgents
  /\ walk.state \in {"none", "reading", "done"} /\ walk.got \cup walk.began \cup walk.touched \subseteq FleetAgents
  /\ fleetTime \in 0 .. FleetEnd
  /\ Cardinality(pendingProofs) <= MaxPending /\ Len(proofs) <= MaxProofs /\ Len(nonces) <= MaxProofs

FleetInit ==
  /\ agentRow = [a \in FleetAgents |-> NoRow]
  /\ serving = TRUE /\ lastPass = NoClock
  /\ listing = NotCached /\ alerts = [a \in FleetAgents |-> "none"] /\ swept = {} /\ walk = NoWalk
  /\ fleetTime = 0
  /\ proofs = <<>> /\ pendingProofs = {} /\ proofUse = NoUse /\ nonces = <<>>
  /\ beats = [a \in FleetAgents |-> NoBeats]

-----------------------------------------------------------------------------
Enlisted(rows) == {a \in FleetAgents : rows[a].status # "none"}
Silence(row) == fleetTime - row.seen

\* Who was written while the client reads the listing.
Touching ==
  walk' = IF walk.state = "reading"
          THEN [walk EXCEPT !.touched = @ \cup {a \in FleetAgents : agentRow'[a] # agentRow[a]}] ELSE walk

\* The conflict clause of the insert names neither the grace clock nor the reputation.
Upserted(row, status) == [row EXCEPT !.status = status, !.seen = fleetTime]

RegisterAgent(a) ==
  /\ serving
  /\ agentRow' = [agentRow EXCEPT ![a] = Upserted(@, "online")]
  /\ swept' = swept \ {a}
  /\ listing' = NotCached
  /\ Touching
  /\ UNCHANGED <<serving, lastPass, fleetTime, alerts, proofVars>>

\* An agent that has no row is answered 404, which its client only counts.
Heartbeat(a) ==
  /\ serving /\ a \in Enlisted(agentRow)
  /\ agentRow' = [agentRow EXCEPT ![a] = Upserted(@, "online")]
  /\ listing' = NotCached
  /\ Touching
  /\ UNCHANGED <<serving, lastPass, swept, fleetTime, alerts, proofVars>>

DeregisterAgent(a) ==
  /\ serving /\ a \in Enlisted(agentRow)
  /\ agentRow' = [agentRow EXCEPT ![a] = NoRow]
  /\ listing' = NotCached
  /\ Touching
  /\ UNCHANGED <<serving, lastPass, swept, fleetTime, alerts, proofVars>>

\* The page a cached handler reads and stores in the same turn.
ReadListing ==
  /\ serving /\ listing.until < fleetTime
  /\ listing' = [agents |-> Enlisted(agentRow), until |-> fleetTime + ListingTtl]
  /\ UNCHANGED <<agentRow, serving, lastPass, swept, walk, fleetTime, alerts, proofVars>>

\* An operator's enable or disable writes the same row and leaves the cache alone.
SetAgentEnabled(a) ==
  /\ serving /\ a \in Enlisted(agentRow)
  /\ \E status \in {"online", "offline"} : agentRow' = [agentRow EXCEPT ![a] = Upserted(@, status)]
  /\ Touching
  /\ UNCHANGED <<serving, lastPass, listing, swept, fleetTime, alerts, proofVars>>

StartWalk ==
  /\ serving /\ walk.state = "none"
  /\ walk' = [NoWalk EXCEPT !.state = "reading", !.seen = FleetEnd + 1, !.began = Enlisted(agentRow)]
  /\ UNCHANGED <<agentRow, serving, lastPass, listing, swept, fleetTime, alerts, proofVars>>

\* The listing's order: the last seen first, then by id.
Sooner(a, b) == agentRow[a].seen > agentRow[b].seen \/ (agentRow[a].seen = agentRow[b].seen /\ a > b)
Beyond(a) == agentRow[a].seen < walk.seen \/ (agentRow[a].seen = walk.seen /\ a < walk.id)

\* GET /api/agents with the cursor of the page before.
WalkPage ==
  LET rest == {a \in Enlisted(agentRow) : Beyond(a)}
      page == {a \in rest : Cardinality({b \in rest : Sooner(b, a)}) < ListingPage}
      last == CHOOSE a \in page : \A b \in page : b = a \/ Sooner(b, a) IN
  /\ serving /\ walk.state = "reading"
  /\ walk' = IF page = rest THEN [walk EXCEPT !.state = "done", !.got = @ \cup page]
             ELSE [walk EXCEPT !.got = @ \cup page, !.seen = agentRow[last].seen, !.id = last]
  /\ UNCHANGED <<agentRow, serving, lastPass, listing, swept, fleetTime, alerts, proofVars>>

-----------------------------------------------------------------------------
MarkStale(row)  == [row EXCEPT !.status = "offline", !.stale = IF @ = NoClock THEN fleetTime ELSE @]
ClearStale(row) == [row EXCEPT !.status = "online", !.stale = NoClock]

\* The first phase starts the clock of an online agent that has gone silent.
Quarantined(row) ==
  IF row.status = "online" /\ Silence(row) >= PassInterval /\ row.stale = NoClock
  THEN MarkStale(row) ELSE row

ClockRuns(row) == row.stale # NoClock

\* The second phase ends every clock that runs, in one way or the other.
Judged(row) ==
  IF ~ClockRuns(row) THEN row
  ELSE IF Silence(row) <= PassInterval THEN ClearStale(row)
  ELSE IF fleetTime - row.stale < GracePeriod THEN row
  ELSE NoRow

Relisted(rows) == IF Enlisted(rows) = Enlisted(agentRow) THEN listing ELSE NotCached

\* What the dashboard is told: the last alert of a pass stays.
Alerted(before, after, last) ==
  IF after = NoRow /\ before # NoRow THEN "evicted"
  ELSE IF ClockRuns(before) /\ ~ClockRuns(after) THEN "recovered"
  ELSE IF ~ClockRuns(before) /\ ClockRuns(after) THEN "quarantined" ELSE last

WatchdogPass ==
  LET rows == [a \in FleetAgents |-> Judged(Quarantined(agentRow[a]))] IN
  /\ serving
  /\ agentRow' = rows
  /\ lastPass' = fleetTime
  /\ listing' = Relisted(rows)
  /\ alerts' = [a \in FleetAgents |-> Alerted(agentRow[a], rows[a], alerts[a])]
  /\ Touching
  /\ UNCHANGED <<serving, swept, fleetTime, proofVars>>

Old(rows) == {a \in Enlisted(rows) : rows[a].status = "offline" /\ Silence(rows[a]) > OfflineLimit}

\* The heartbeat service's sweep, which leaves the cached listing alone.
DeleteOffline ==
  LET old == Old(agentRow) IN
  /\ serving /\ old # {}
  /\ agentRow' = [a \in FleetAgents |-> IF a \in old THEN NoRow ELSE agentRow[a]]
  /\ swept' = swept \cup old
  /\ Touching
  /\ UNCHANGED <<serving, lastPass, listing, fleetTime, alerts, proofVars>>

\* AgentCleanupService.tick: a status without a clock and without an alert.
TakenOffline(row) ==
  IF row.status = "online" /\ Silence(row) > StaleLimit THEN [row EXCEPT !.status = "offline"] ELSE row

CleanupTick ==
  LET rows == [a \in FleetAgents |-> TakenOffline(agentRow[a])] IN
  /\ serving /\ rows # agentRow /\ agentRow' = rows
  /\ Touching
  /\ UNCHANGED <<serving, lastPass, listing, swept, fleetTime, alerts, proofVars>>

-----------------------------------------------------------------------------
AllOffline(rows) ==
  [a \in FleetAgents |-> IF rows[a].status = "online" THEN [rows[a] EXCEPT !.status = "offline"] ELSE rows[a]]

\* What a server remembers goes with it; an orderly end also writes the rows.
ServerEnds ==
  /\ serving /\ serving' = FALSE
  /\ agentRow' \in {agentRow, AllOffline(agentRow)}
  /\ lastPass' = NoClock /\ listing' = NotCached
  /\ Touching
  /\ UNCHANGED <<swept, fleetTime, alerts, proofVars>>

\* The cleanup's first tick comes before the server listens.
ServerStarts ==
  /\ ~serving /\ serving' = TRUE
  /\ agentRow' = [a \in FleetAgents |-> TakenOffline(agentRow[a])]
  /\ Touching
  /\ UNCHANGED <<lastPass, listing, swept, fleetTime, alerts, proofVars>>

FleetTick ==
  /\ fleetTime < FleetEnd /\ fleetTime' = fleetTime + 1
  /\ UNCHANGED <<agentRow, serving, lastPass, listing, swept, walk, alerts, proofVars>>

-----------------------------------------------------------------------------
(***************************************************************************)
(* Proofs of ownership.                                                    *)
(***************************************************************************)
Purposes == {"register", "heartbeat", "delete"}
Alive(n) == proofs[n].until > fleetTime

\* What stays when a challenge is added: the oldest of a full map go.
Room(live) == {n \in live : Cardinality({m \in live : m > n}) < MaxPending - 1}

\* issueAgentChallenge
IssueProof(a, purpose) ==
  /\ Len(proofs) < MaxProofs
  /\ proofs' = Append(proofs, [of |-> a, for |-> purpose, until |-> fleetTime + ProofTtl])
  /\ pendingProofs' = Room({n \in pendingProofs : Alive(n)}) \cup {Len(proofs) + 1}
  /\ proofUse' = [proofUse EXCEPT !.count = Append(@, 0), !.refused = 0]
  /\ UNCHANGED <<nonces, beats>>

\* What the signed message names is what was issued; the payload goes by its hash.
Bound(n, a, purpose) == proofs[n].of = a /\ proofs[n].for = purpose
Verified(n, a, purpose) == n \in pendingProofs /\ Alive(n) /\ Bound(n, a, purpose)

\* verifyAgentOwnership: what is presented is gone, whatever comes of it.
PresentProof(n, a, purpose, signed) ==
  LET good == Verified(n, a, purpose) /\ signed
      due == Alive(n) /\ Bound(n, a, purpose) /\ signed IN
  /\ n \in DOMAIN proofs
  /\ pendingProofs' = pendingProofs \ {n}
  /\ proofUse' = [proofUse EXCEPT !.count[n] = @ + (IF good THEN 1 ELSE 0),
                                  !.refused = IF due /\ ~good /\ n \notin proofUse.spent THEN n ELSE 0,
                                  !.spent = @ \cup {n}]
  /\ UNCHANGED <<proofs, nonces, beats>>

\* NonceStore
IssueNonce ==
  /\ Len(nonces) < MaxProofs
  /\ nonces' = Append([n \in DOMAIN nonces |-> IF nonces[n].until <= fleetTime THEN [nonces[n] EXCEPT !.at = "gone"] ELSE nonces[n]],
                      [until |-> fleetTime + ProofTtl, at |-> "pending", valid |-> 0, told |-> "nothing"])
  /\ UNCHANGED <<proofs, pendingProofs, proofUse, beats>>

ConsumeNonce(n) ==
  LET nonce == nonces[n]
      fresh == nonce.until > fleetTime IN
  /\ n \in DOMAIN nonces
  /\ nonces' = [nonces EXCEPT ![n] =
       CASE nonce.at = "used"    -> [nonce EXCEPT !.at = IF fresh THEN "used" ELSE "gone", !.told = IF fresh THEN "replayed" ELSE "expired"]
         [] nonce.at = "gone"    -> [nonce EXCEPT !.told = "unknown"]
         [] nonce.at = "pending" -> IF fresh THEN [nonce EXCEPT !.at = "used", !.valid = @ + 1, !.told = "valid"]
                                    ELSE [nonce EXCEPT !.at = "gone", !.told = "expired"]]
  /\ UNCHANGED <<proofs, pendingProofs, proofUse, beats>>

\* The challenges are in the memory of the server that issued them.
ChallengesLost ==
  /\ pendingProofs' = {} /\ proofUse' = [proofUse EXCEPT !.lost = Len(proofs), !.refused = 0]
  /\ nonces' = [n \in DOMAIN nonces |-> [nonces[n] EXCEPT !.at = "gone"]]
  /\ UNCHANGED <<proofs, beats>>

\* HeartbeatClient.start and each turn of its interval, which waits for nothing.
StartBeat(a) ==
  LET b == beats[a] IN
  /\ b.signing + b.sent < 2
  /\ beats' = [beats EXCEPT ![a] = [b EXCEPT !.on = TRUE, !.signing = @ + 1, !.allowed = 0, !.after = 0]]
  /\ UNCHANGED <<proofs, pendingProofs, proofUse, nonces>>

\* A challenge was asked for and came, or did not: the heartbeat is sent either way.
SendBeat(a) ==
  LET b == beats[a] IN
  /\ b.signing > 0
  /\ beats' = [beats EXCEPT ![a] = [b EXCEPT !.signing = @ - 1, !.sent = @ + 1, !.after = IF b.on THEN 0 ELSE @ + 1]]
  /\ UNCHANGED <<proofs, pendingProofs, proofUse, nonces>>

\* Failures are counted up to the alarm; an answer that came starts the count anew.
AnswerBeat(a, ok) ==
  LET b == beats[a]
      row == IF ok THEN 0 ELSE IF b.row = AlarmAfter THEN b.row ELSE b.row + 1 IN
  /\ b.sent > 0
  /\ beats' = [beats EXCEPT ![a] = [b EXCEPT !.sent = @ - 1, !.row = row]]
  /\ UNCHANGED <<proofs, pendingProofs, proofUse, nonces>>

StopBeats(a) ==
  LET b == beats[a] IN
  /\ b.on
  /\ beats' = [beats EXCEPT ![a] = [b EXCEPT !.on = FALSE, !.allowed = b.signing]]
  /\ UNCHANGED <<proofs, pendingProofs, proofUse, nonces>>

ProofStep ==
  /\ UNCHANGED <<agentRow, serving, lastPass, listing, alerts, swept, walk, fleetTime>>
  /\ \/ \E a \in FleetAgents, purpose \in Purposes :
           \/ IssueProof(a, purpose)
           \/ \E n \in 1 .. MaxProofs, signed \in BOOLEAN : PresentProof(n, a, purpose, signed)
     \/ ChallengesLost
NonceStep ==
  /\ UNCHANGED <<agentRow, serving, lastPass, listing, alerts, swept, walk, fleetTime>>
  /\ IssueNonce \/ ChallengesLost \/ \E n \in 1 .. MaxProofs : ConsumeNonce(n)
BeatStep ==
  /\ UNCHANGED <<agentRow, serving, lastPass, listing, alerts, swept, walk, fleetTime>>
  /\ \E a \in FleetAgents :
       StartBeat(a) \/ SendBeat(a) \/ StopBeats(a) \/ \E ok \in BOOLEAN : AnswerBeat(a, ok)

AgentsRouter ==
  \/ \E a \in FleetAgents : RegisterAgent(a) \/ Heartbeat(a) \/ DeregisterAgent(a)
  \/ ReadListing \/ StartWalk \/ WalkPage

FleetNext ==
  \/ AgentsRouter \/ \E a \in FleetAgents : SetAgentEnabled(a)
  \/ WatchdogPass \/ DeleteOffline \/ CleanupTick
  \/ ServerEnds \/ ServerStarts \/ FleetTick

FleetSpec == FleetInit /\ [][FleetNext]_fleetVars

\* The same with a watchdog that is never late: at every instant its pass comes first.
Punctual == serving /\ (FleetTick \/ CleanupTick) => lastPass = fleetTime
PunctualSpec == FleetInit /\ [][FleetNext /\ Punctual]_fleetVars

-----------------------------------------------------------------------------
\* No agent lingers: whoever the watchdog found silent for longer than its interval has a
\* grace clock that has not run out, or was offline before the watchdog could see it, which
\* a heartbeat between two passes, a restart and a new registration must not get in the
\* way of.
NoneLingers ==
  \A a \in Enlisted(agentRow) :
    LET row == agentRow[a] IN
    lastPass - row.seen > PassInterval =>
      \/ ClockRuns(row) /\ lastPass - row.stale < GracePeriod
      \/ row.stale = NoClock /\ row.status = "offline"

\* A listing served from the cache names no agent that was evicted or that left: only the
\* backstop's deletions are still listed, until the entry runs out.
ListedAreEnlisted == listing.agents \subseteq Enlisted(agentRow) \cup swept

\* A client that reads the listing to its end has met every agent whose row nobody wrote
\* in the meantime, whatever happened to the others' places (listCursor's keyset).
QuietAgentsAreListed == walk.state = "done" => walk.began \ walk.touched \subseteq walk.got

\* A challenge serves one request, and the one it was issued for: a client that answers
\* in time and for the first time is refused only if the server ended meanwhile or so
\* many challenges were issued since that the oldest had to go (agentSignature.ts).
ProofsServeOnce ==
  /\ \A n \in DOMAIN proofs : proofUse.count[n] <= 1
  /\ LET n == proofUse.refused IN n > proofUse.lost => Len(proofs) - n >= MaxPending

\* A socket's challenge is good once; who repeats it within its time is told so.
NoncesServeOnce ==
  \A n \in DOMAIN nonces :
    /\ nonces[n].valid <= 1 /\ (nonces[n].told = "replayed" => nonces[n].valid = 1)
    /\ nonces[n].told = "unknown" => nonces[n].until <= fleetTime \/ nonces[n].at = "gone"

\* The dashboard's last word on an agent whose grace clock runs is that it was withdrawn,
\* whoever else wrote its row and however often the server was started anew.
QuarantineIsTold == \A a \in FleetAgents : ClockRuns(agentRow[a]) => alerts[a] = "quarantined"

\* Once a heartbeat client was stopped, only what was waiting for its challenge then is
\* still sent (HeartbeatClient.send looks at `stopped` before the wait only).
StoppedBeatsEnd == \A a \in FleetAgents : beats[a].after <= beats[a].allowed

\* Table, watchdog, listings and proofs agree on who is there.
FleetInv ==
  /\ FleetTypeOK /\ NoneLingers /\ ListedAreEnlisted /\ QuietAgentsAreListed
  /\ QuarantineIsTold /\ ProofsServeOnce /\ NoncesServeOnce /\ StoppedBeatsEnd

\* Said of the sweeps beside the watchdog (api/app.ts, services/heartbeat.ts): none takes an
\* agent offline without a grace clock, which would hide it from the watchdog until the
\* backstop deletes it.  The operator's own word is the exception.
SilentAgentsAreTimed ==
  [][\A a \in FleetAgents :
       serving' /\ agentRow[a].status = "online" /\ agentRow'[a].status = "offline"
         => ClockRuns(agentRow'[a]) \/ SetAgentEnabled(a)]_fleetVars
=============================================================================
