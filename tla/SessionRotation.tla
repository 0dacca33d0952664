-------------------------- MODULE SessionRotation --------------------------
(***************************************************************************)
(* Sessions and their refresh tokens                                       *)
(* (src/backend/src/services/auth/authService.ts, db/auth.ts,              *)
(* revocationRegistry.ts, tokenService.ts, api/routes/auth.ts,             *)
(* api/middleware/auth.ts).  The rows are in a database that processes      *)
(* share; what a process knows of revocations is in its memory and is lost *)
(* when it ends.  The service runs no transaction: between two statements  *)
(* of one rotation another process may run its own, or this one may end.   *)
(* A session is a family of its own: createSession makes both.             *)
(***************************************************************************)
EXTENDS Integers, Sequences, FiniteSets

CONSTANTS AuthProcesses, Sessions,
          RefreshTtl, SessionTtl, AccessTtl,
          MaxTokens,      \* bound on the tokens of a session
          AuthEnd         \* bound on the time

ASSUME SessionAssumption ==
  /\ IsFiniteSet(AuthProcesses)
  /\ {RefreshTtl, SessionTtl, AccessTtl, MaxTokens, AuthEnd} \subseteq Nat

VARIABLES session,        \* session[s]: a row of auth_sessions
          tokens,         \* tokens[s]: its rows of auth_refresh_tokens, in order
          known,          \* known[p]: the sessions process p holds revoked
          wiped,          \* wiped[p]: when the whole wallet was revoked at p
          issued,         \* issued[s]: when the latest access token of s was made
          rotating,       \* rotating[p]: the rotation process p is in
          late,           \* late[s]: tokens issued after s was revoked
          raced,          \* raced[s]: rotations that consumed a token already consumed
          authTime

sessionVars == <<session, tokens, known, wiped, issued, rotating, late, raced, authTime>>

Never == -1

NoRotation == [step |-> "idle", of |-> "none", token |-> 0, now |-> 0]
NoSession == [status |-> "none", created |-> 0]

SessionTypeOK ==
  /\ session \in [Sessions -> [status : {"none", "live", "revoked"}, created : 0 .. AuthEnd]]
  /\ \A s \in Sessions : \A i \in DOMAIN tokens[s] :
       tokens[s][i] \in [consumed : BOOLEAN, revoked : BOOLEAN, expires : Nat]
  /\ known \in [AuthProcesses -> SUBSET Sessions]
  /\ wiped \in [AuthProcesses -> Never .. AuthEnd] /\ issued \in [Sessions -> Never .. AuthEnd]
  /\ rotating \in [AuthProcesses -> [step : {"idle", "looked", "checked", "consumed"},
                                     of : Sessions \cup {"none"}, token : 0 .. MaxTokens,
                                     now : 0 .. AuthEnd]]
  /\ late \in [Sessions -> Nat] /\ raced \in [Sessions -> Nat]
  /\ authTime \in 0 .. AuthEnd

SessionInit ==
  /\ session = [s \in Sessions |-> NoSession]
  /\ tokens = [s \in Sessions |-> <<>>]
  /\ known = [p \in AuthProcesses |-> {}]
  /\ wiped = [p \in AuthProcesses |-> Never] /\ issued = [s \in Sessions |-> Never]
  /\ rotating = [p \in AuthProcesses |-> NoRotation]
  /\ late = [s \in Sessions |-> 0] /\ raced = [s \in Sessions |-> 0]
  /\ authTime = 0

-----------------------------------------------------------------------------
Idle(p) == rotating[p] = NoRotation
Earlier(a, b) == IF a < b THEN a ELSE b
NewToken(expires) == [consumed |-> FALSE, revoked |-> FALSE, expires |-> expires]

\* generateAccessToken: what the token says of its time.
Minted(s) == issued' = [issued EXCEPT ![s] = authTime]

\* The session's row and its token's are two statements; a process may end between them.
CreateSession(p, s) ==
  /\ Idle(p) /\ session[s] = NoSession
  /\ session' = [session EXCEPT ![s] = [status |-> "live", created |-> authTime]]
  /\ \/ tokens' = [tokens EXCEPT ![s] = <<NewToken(authTime + RefreshTtl)>>] /\ Minted(s)
     \/ UNCHANGED <<tokens, issued>>
  /\ UNCHANGED <<known, wiped, rotating, late, raced, authTime>>

\* The rows a revocation writes, all of one statement each and all before it returns.
RevokeIn(group) ==
  /\ session' = [s \in Sessions |-> IF s \in group THEN [session[s] EXCEPT !.status = "revoked"]
                                    ELSE session[s]]
  /\ tokens' = [s \in Sessions |->
                  IF s \in group THEN [i \in DOMAIN tokens[s] |-> [tokens[s][i] EXCEPT !.revoked = TRUE]]
                  ELSE tokens[s]]
  /\ UNCHANGED <<issued, rotating, late, raced, authTime>>

Learns(p, group) == known' = [known EXCEPT ![p] = @ \cup group]

Existing == {s \in Sessions : session[s] # NoSession}

\* revokeFamily does the same: a family has one session.
RevokeSession(p, s) == Idle(p) /\ s \in Existing /\ RevokeIn({s}) /\ Learns(p, {s}) /\ UNCHANGED wiped

\* The process remembers the wallet, which a rotation does not ask about.
RevokeAllUserSessions(p) ==
  /\ Idle(p) /\ Existing # {} /\ RevokeIn(Existing)
  /\ wiped' = [wiped EXCEPT ![p] = authTime] /\ UNCHANGED known

ReuseDetected(p, s, i) ==
  /\ Idle(p) /\ i \in DOMAIN tokens[s]
  /\ tokens[s][i].consumed
  /\ RevokeIn({s}) /\ Learns(p, {s}) /\ UNCHANGED wiped

\* A refused token changes nothing.
LookUpToken(p, s, i) ==
  /\ Idle(p) /\ i \in DOMAIN tokens[s]
  /\ ~tokens[s][i].consumed /\ ~tokens[s][i].revoked /\ s \notin known[p]
  /\ tokens[s][i].expires >= authTime
  /\ rotating' = [rotating EXCEPT ![p] = [step |-> "looked", of |-> s, token |-> i, now |-> authTime]]
  /\ UNCHANGED <<session, tokens, known, wiped, issued, late, raced, authTime>>

Of(p) == rotating[p].of
TooOld(p) == rotating[p].now > session[Of(p)].created + SessionTtl

Stands(s) == session[s].status # "revoked"

CheckSession(p) ==
  /\ rotating[p].step = "looked"
  /\ IF Stands(Of(p)) /\ ~TooOld(p)
     THEN /\ rotating' = [rotating EXCEPT ![p].step = "checked"]
          /\ UNCHANGED <<session, known>>
     ELSE /\ rotating' = [rotating EXCEPT ![p] = NoRotation]
          /\ IF Stands(Of(p))
             THEN /\ session' = [session EXCEPT ![Of(p)].status = "revoked"]
                  /\ Learns(p, {Of(p)})
             ELSE UNCHANGED <<session, known>>
  /\ UNCHANGED <<tokens, wiped, issued, late, raced, authTime>>

\* Mutant: the old token stays good until the new one is stored.
MutantConsumed(row) == row

Consumed(row) == [row EXCEPT !.consumed = TRUE]

\* The update does not ask whether the token is still unconsumed.
ConsumeToken(p) ==
  LET s == Of(p)
      i == rotating[p].token IN
  /\ rotating[p].step = "checked" /\ Len(tokens[s]) < MaxTokens
  /\ raced' = [raced EXCEPT ![s] = @ + IF tokens[s][i].consumed THEN 1 ELSE 0]
  /\ tokens' = [tokens EXCEPT ![s][i] = Consumed(@)]
  /\ rotating' = [rotating EXCEPT ![p].step = "consumed"]
  /\ UNCHANGED <<session, known, wiped, issued, late, authTime>>

IssueToken(p) ==
  LET s == Of(p) IN
  /\ rotating[p].step = "consumed" /\ Len(tokens[s]) < MaxTokens
  /\ tokens' = [tokens EXCEPT ![s] =
       Append(@, NewToken(Earlier(rotating[p].now + RefreshTtl, session[s].created + SessionTtl)))]
  /\ late' = [late EXCEPT ![s] = @ + IF session[s].status = "revoked" THEN 1 ELSE 0]
  /\ rotating' = [rotating EXCEPT ![p] = NoRotation]
  /\ Minted(s)
  /\ UNCHANGED <<session, known, wiped, raced, authTime>>

\* A token is good through the whole of its last second.
Unexpired(s) == issued[s] # Never /\ issued[s] + AccessTtl >= authTime

\* isWalletRevoked: a token of the very second of the revocation counts as older.
WalletRevoked(p, s) == issued[s] <= wiped[p]

\* verifyAccessToken, as the guards of the routes ask it, with s's latest token.
AccessGranted(p, s) ==
  Unexpired(s) /\ s \notin known[p] /\ ~WalletRevoked(p, s) /\ session[s].status = "live"

\* It learns of a revocation from the session's row.
VerifyAccess(p, s) ==
  /\ Idle(p) /\ Unexpired(s) /\ s \notin known[p] /\ ~WalletRevoked(p, s)
  /\ session[s].status = "revoked"
  /\ Learns(p, {s})
  /\ UNCHANGED <<session, tokens, wiped, issued, rotating, late, raced, authTime>>

AuthRestart(p) ==
  /\ rotating' = [rotating EXCEPT ![p] = NoRotation]
  /\ known' = [known EXCEPT ![p] = {}] /\ wiped' = [wiped EXCEPT ![p] = Never]
  /\ UNCHANGED <<session, tokens, issued, late, raced, authTime>>

AuthTick ==
  /\ authTime < AuthEnd /\ authTime' = authTime + 1
  /\ UNCHANGED <<session, tokens, known, wiped, issued, rotating, late, raced>>

\* POST /token, /refresh and /revoke.
AuthRouter(p) ==
  \E s \in Sessions :
     \/ CreateSession(p, s) \/ RevokeSession(p, s) \/ VerifyAccess(p, s)
     \/ \E i \in 1 .. MaxTokens : ReuseDetected(p, s, i) \/ LookUpToken(p, s, i)

\* POST /revoke-all: whoever holds an access token that is admitted.
RevokeAll(p) == RevokeAllUserSessions(p) /\ \E s \in Sessions : AccessGranted(p, s)

SessionNext ==
  \/ \E p \in AuthProcesses :
       \/ AuthRouter(p) \/ RevokeAll(p)
       \/ CheckSession(p) \/ ConsumeToken(p) \/ IssueToken(p) \/ AuthRestart(p)
  \/ AuthTick

SessionSpec == SessionInit /\ [][SessionNext]_sessionVars

-----------------------------------------------------------------------------
Usable(s) ==
  {i \in DOMAIN tokens[s] : /\ session[s].status = "live"
                            /\ ~tokens[s][i].consumed /\ ~tokens[s][i].revoked}

\* A session has one token that can be rotated, whatever crashes and restarts, and one
\* more for each time two processes were in a rotation of the same token at once.
OneUsableToken == \A s \in Sessions : Cardinality(Usable(s)) <= 1 + raced[s]

\* A revocation is final although nothing joins it with a rotation that is under way: at
\* most the rotations that processes were in may still store a token, and no later one
\* builds on those, also in a process that has forgotten or never heard of the revocation.
RevokedIssuesNoMore == \A s \in Sessions : late[s] <= Cardinality(AuthProcesses)

\* No process refuses a live session: unless its token is older than a revocation of the
\* whole wallet that the process carried out, a token that has not run out is admitted,
\* whatever the process remembers of other revocations.
LiveSessionsAreAdmitted ==
  \A p \in AuthProcesses, s \in Sessions :
    session[s].status = "live" /\ Unexpired(s) /\ issued[s] > wiped[p] => AccessGranted(p, s)

\* Rotation hands a session's token on to one successor, and revocation ends the chain.
SessionInv == SessionTypeOK /\ OneUsableToken /\ RevokedIssuesNoMore /\ LiveSessionsAreAdmitted
=============================================================================
