--------------------------- MODULE RegistryAudit ---------------------------
(***************************************************************************)
(* Records the agent registry keeps beside its agents                      *)
(* (src/smart-contracts/contracts/agent_registry/src/audit.rs, bridge.rs,  *)
(* lib.rs): the audit trail of privileged operations with its anomaly      *)
(* checks and its pages; the proofs that carry an agent's identity to      *)
(* another chain; and reported errors with their resolution and clean-up.  *)
(* Seconds and ledgers are one time.  A signature is taken to be good: the *)
(* host aborts the call otherwise.                                         *)
(***************************************************************************)
EXTENDS Integers, FiniteSets, SequencesExt

CONSTANTS Callers,           \* addresses: the admin and the owners
          Chief,             \* the admin
          Chains,            \* TargetChains
          Lifetimes,         \* ttl_secs asked for, 0 for the default
          DefaultLifetime, MaxLifetime,
          ErrorIds, ErrorLifetimes,
          AuditConfigs,      \* AuditConfigs set; the first is DefaultAudit
          DefaultAudit,
          Amounts,           \* moved by audited operations
          AuditPageSize,
          MaxEntries,        \* bound: audit entries
          TrailEnd           \* bound: ledger time

ASSUME AuditAssumption ==
    /\ Chief \in Callers /\ DefaultAudit \in AuditConfigs
    /\ AuditConfigs \subseteq [limit : Nat, window : Nat, high : Nat, retention : Nat]
    /\ Amounts \subseteq Nat /\ Lifetimes \subseteq Nat
    /\ ErrorLifetimes \subseteq Nat /\ IsFiniteSet(ErrorLifetimes) /\ ErrorLifetimes # {}
    /\ AuditPageSize \in Nat \ {0}
    /\ {DefaultLifetime, MaxLifetime, MaxEntries, TrailEnd} \subseteq Nat

VARIABLES trail,        \* AuditEntry by sequence number, oldest first; Lapsed when its time is over
          activity,     \* CallerActivity, in temporary storage, or Unseen
          auditConf,    \* AuditConfig
          alarms,       \* history: rate and first-seen anomalies reported, as <<seq, kind>>
          barred,       \* the contract is paused, or the one agent with proofs frozen
          owner,        \* that agent's owner, or NoCaller
          sealed,       \* BridgeProof by chain, or NoProof
          errors,       \* ErrorRecord by id, or NoError
          errorLife,    \* ErrorTTL
          auditor,      \* a reader of the trail, page by page
          trailTime

auditVars == <<trail, activity, auditConf, alarms, barred, owner, sealed, errors, errorLife, auditor, trailTime>>

NoCaller == "nobody"
Lapsed == [caller |-> NoCaller, amount |-> 0, at |-> 0, until |-> 0]
Unseen == [count |-> 0, start |-> 0]
NoProof == [owner |-> NoCaller, issued |-> 0, expiry |-> 0]
NoError == [state |-> "none", until |-> 0]
NoAuditor == [state |-> "none", below |-> 0, got |-> <<>>, kept |-> {}]

AuditTypeOK ==
    /\ trail \in Seq([caller : Callers \cup {NoCaller}, amount : Nat, at : Nat, until : Nat])
    /\ activity \in [Callers -> [count : Nat, start : 0 .. TrailEnd]] /\ auditConf \in AuditConfigs
    /\ barred \in BOOLEAN /\ owner \in Callers \cup {NoCaller}
    /\ sealed \in [Chains -> [owner : Callers \cup {NoCaller}, issued : Nat, expiry : Nat]]
    /\ errors \in [ErrorIds -> [state : {"none", "open", "resolved"}, until : Nat]]
    /\ auditor.state \in {"none", "reading", "done"} /\ auditor.below \in 0 .. MaxEntries
    /\ Len(trail) <= MaxEntries /\ trailTime \in 0 .. TrailEnd

-----------------------------------------------------------------------------
(* The audit trail.                                                        *)

\* bump_caller_activity: the window that is open, or a new one.
Open(c, conf) == activity[c] # Unseen /\ trailTime - activity[c].start < conf.window
Bumped(c, conf) == IF Open(c, conf) THEN [activity[c] EXCEPT !.count = @ + 1]
                   ELSE [count |-> 1, start |-> trailTime]

\* record: the entry, the caller's counter and the anomalies of the entry.
Audit(c, amount, conf) ==
    LET seq == Len(trail)
        raised == (IF amount >= conf.high /\ amount > 0 THEN {"high"} ELSE {})
           \cup (IF Bumped(c, conf).count > conf.limit THEN {"rate"} ELSE {})
           \cup (IF activity[c] = Unseen THEN {"first"} ELSE {})
    IN  /\ seq < MaxEntries
        /\ trail' = Append(trail, [caller |-> c, amount |-> amount, at |-> trailTime,
                                   until |-> trailTime + conf.retention])
        /\ activity' = [activity EXCEPT ![c] = Bumped(c, conf)]
        /\ alarms' = alarms \cup {<<seq, k>> : k \in raised}
        /\ UNCHANGED <<auditor, trailTime>>

\* Another audited call of the admin, that moves an amount.
Privileged(amount) ==
    /\ Audit(Chief, amount, auditConf)
    /\ UNCHANGED <<auditConf, barred, owner, sealed, errors, errorLife>>

\* pause or freeze, and their opposites.
Bar ==
    /\ barred' = ~barred
    /\ Audit(Chief, 0, auditConf)
    /\ UNCHANGED <<auditConf, owner, sealed, errors, errorLife>>

\* The entry of the change is written under the new thresholds.
SetAuditConfig(conf) ==
    /\ conf.limit > 0 /\ conf.window > 0 /\ conf.retention > 0
    /\ auditConf' = conf
    /\ Audit(Chief, 0, conf)
    /\ UNCHANGED <<barred, owner, sealed, errors, errorLife>>

\* The ledger drops an entry whose time to live is over.
LapseEntry(s) ==
    /\ trail[s] # Lapsed /\ trailTime > trail[s].until
    /\ trail' = [trail EXCEPT ![s] = Lapsed]
    /\ auditor' = [auditor EXCEPT !.kept = @ \ {s - 1}]
    /\ UNCHANGED <<activity, auditConf, alarms, barred, owner, sealed, errors, errorLife, trailTime>>

\* The ledger drops a counter, once it has outlived its window.
LapseActivity(c) ==
    /\ activity[c] # Unseen /\ ~Open(c, auditConf)
    /\ activity' = [activity EXCEPT ![c] = Unseen]
    /\ UNCHANGED <<trail, auditConf, alarms, barred, owner, sealed, errors, errorLife, auditor, trailTime>>

\* page: downwards from below, skipping what has lapsed, until the page is full
\* or the first entry is reached.
Held(s) == trail[s + 1] # Lapsed
PageFloor(below) ==
    LET full == {s \in 0 .. below - 1 : Cardinality({t \in s .. below - 1 : Held(t)}) = AuditPageSize}
    IN  IF full = {} THEN 0 ELSE Max(full)
PageRows(floor, below) ==
    LET rows[i \in 0 .. below - floor] ==
          IF i = 0 THEN <<>>
          ELSE IF Held(below - i) THEN Append(rows[i - 1], below - i) ELSE rows[i - 1]
    IN  rows[below - floor]
MutantCursor(floor) == IF floor = 0 THEN 0 ELSE floor - 1  \* a bug: one below the last entry read
Cursor(floor) == floor

KeepTrail == UNCHANGED <<trail, activity, auditConf, alarms, barred, owner, sealed, errors, errorLife, trailTime>>

OpenTrail ==
    /\ auditor.state = "none" /\ Len(trail) > 0
    /\ auditor' = [state |-> "reading", below |-> Len(trail), got |-> <<>>,
                   kept |-> {s \in 0 .. Len(trail) - 1 : Held(s)}]
    /\ KeepTrail

GetAuditLog ==
    /\ auditor.state = "reading"
    /\ LET floor == PageFloor(auditor.below)
       IN  auditor' = [auditor EXCEPT !.below = Cursor(floor), !.got = @ \o PageRows(floor, auditor.below),
                         !.state = IF Cursor(floor) = 0 THEN "done" ELSE "reading"]
    /\ KeepTrail

-----------------------------------------------------------------------------
(* Proofs for other chains.                                                *)

\* The agent is registered, or leaves; its proofs are left as they are.
SetOwner(c) ==
    /\ owner = NoCaller => ~barred
    /\ owner' = IF owner = NoCaller THEN c ELSE NoCaller
    /\ UNCHANGED <<trail, activity, auditConf, alarms, barred, sealed, errors, errorLife, auditor, trailTime>>

LifetimeOf(ttl) == IF ttl = 0 THEN DefaultLifetime ELSE ttl

\* bridge_identity: a second proof for the chain takes the place of the first.
BridgeIdentity(chain, ttl) ==
    /\ ~barred /\ owner # NoCaller /\ LifetimeOf(ttl) <= MaxLifetime
    /\ sealed' = [sealed EXCEPT ![chain] =
         [owner |-> owner, issued |-> trailTime, expiry |-> trailTime + LifetimeOf(ttl)]]
    /\ Audit(owner, 0, auditConf)
    /\ UNCHANGED <<auditConf, barred, owner, errors, errorLife>>

\* revoke_bridge_proof, by the owner or the admin; it reads the agent's record first.
Revocable(chain) == owner # NoCaller /\ sealed[chain] # NoProof
RevokeBridgeProof(c, chain) ==
    /\ Revocable(chain) /\ c \in {owner, Chief}
    /\ sealed' = [sealed EXCEPT ![chain] = NoProof]
    /\ Audit(c, 0, auditConf)
    /\ UNCHANGED <<auditConf, barred, owner, errors, errorLife>>

\* verify_bridge_proof accepts the stored proof until its expiry.
Accepted(chain) == sealed[chain] # NoProof /\ trailTime <= sealed[chain].expiry

-----------------------------------------------------------------------------
(* Reported errors.                                                        *)

KeepBut == UNCHANGED <<trail, activity, auditConf, alarms, barred, owner, sealed, auditor, trailTime>>

ReportError(e) ==
    /\ errors[e] = NoError
    /\ errors' = [errors EXCEPT ![e] = [state |-> "open", until |-> trailTime + errorLife]]
    /\ UNCHANGED errorLife /\ KeepBut

\* All of them are open, or none is resolved.
ResolveErrors(E) ==
    /\ E # {} /\ \A e \in E : errors[e].state = "open"
    /\ errors' = [e \in ErrorIds |-> IF e \in E THEN [errors[e] EXCEPT !.state = "resolved"] ELSE errors[e]]
    /\ UNCHANGED errorLife /\ KeepBut

\* Anyone may remove what has expired, resolved or not.
CleanupExpiredErrors(E) ==
    /\ \E e \in E : errors[e] # NoError /\ errors[e].until <= trailTime
    /\ errors' = [e \in ErrorIds |->
         IF e \in E /\ errors[e].until <= trailTime THEN NoError ELSE errors[e]]
    /\ UNCHANGED errorLife /\ KeepBut

\* Only what is reported later lives by the new time.
SetErrorTtl(n) ==
    /\ errorLife' = n
    /\ Audit(Chief, 0, auditConf)
    /\ UNCHANGED <<auditConf, barred, owner, sealed, errors>>

TrailTick ==
    /\ trailTime < TrailEnd /\ trailTime' = trailTime + 1
    /\ UNCHANGED <<trail, activity, auditConf, alarms, barred, owner, sealed, errors, errorLife, auditor>>

-----------------------------------------------------------------------------
AuditInit ==
    /\ trail = <<>> /\ activity = [c \in Callers |-> Unseen] /\ auditConf = DefaultAudit /\ alarms = {}
    /\ barred = FALSE /\ owner = NoCaller /\ sealed = [x \in Chains |-> NoProof]
    /\ errors = [e \in ErrorIds |-> NoError] /\ errorLife = Max(ErrorLifetimes)
    /\ auditor = NoAuditor /\ trailTime = 0

TrailNext ==
    \/ \E n \in Amounts : Privileged(n)
    \/ \E conf \in AuditConfigs : SetAuditConfig(conf)
    \/ \E s \in DOMAIN trail : LapseEntry(s)
    \/ \E c \in Callers : LapseActivity(c)
    \/ OpenTrail \/ GetAuditLog

BridgeNext ==
    \/ Bar
    \/ \E c \in Callers : SetOwner(c) \/ \E x \in Chains : RevokeBridgeProof(c, x)
    \/ \E x \in Chains, ttl \in Lifetimes : BridgeIdentity(x, ttl)

ErrorNext ==
    \/ \E e \in ErrorIds : ReportError(e)
    \/ \E E \in SUBSET ErrorIds : ResolveErrors(E) \/ CleanupExpiredErrors(E)
    \/ \E n \in ErrorLifetimes : SetErrorTtl(n)

AuditNext == TrailNext \/ BridgeNext \/ ErrorNext \/ TrailTick

AuditSpec == AuditInit /\ [][AuditNext]_auditVars

-----------------------------------------------------------------------------
(* Whoever follows the cursors to the end has read every entry that is     *)
(* still held, once, newest first, though entries were written and lapsed  *)
(* between the pages (audit.rs page).                                      *)
TrailIsReadOnce == auditor.state = "done" =>
    /\ auditor.kept \subseteq Range(auditor.got)
    /\ \A i, j \in DOMAIN auditor.got : i < j => auditor.got[i] > auditor.got[j]

(* Typed states, in which finished readings are complete and in order.     *)
AuditInv == AuditTypeOK /\ TrailIsReadOnce
=============================================================================
