-------------------------- MODULE Reconciliation --------------------------
(***************************************************************************)
(* The payment service (src/backend/src/payment/payment.ts) between the    *)
(* payments table and the Stellar network.                                 *)
(*                                                                         *)
(* An escrow is a claimable balance on chain and a row keyed by task and   *)
(* node.  A call checks the row, submits one transaction and waits for it, *)
(* then writes the row.  The transaction may land although its caller has  *)
(* given up or died, and a balance can be claimed once.  Amounts, memos    *)
(* and hashes are left out: the row's amount is the one submitted, and a   *)
(* settled row always has a hash.                                          *)
(*                                                                         *)
(* The reconciler (src/backend/src/services/reconciliation.ts and          *)
(* reconciliation.drift.ts) beside the callers of the payment service.     *)
(*                                                                         *)
(* A pass copies the payments table, lists the balances on chain, compares *)
(* the two copies, and works through the differences, some of them with a  *)
(* call of the payment service.  Each of the scheduler, the reconciliation *)
(* routes and the admin routes has a ReconciliationService of its own, and *)
(* `running` keeps apart only the passes of one of them.                   *)
(***************************************************************************)
EXTENDS Naturals, FiniteSets

CONSTANTS Keys,        \* (task, node) pairs
          Balances,    \* claimable balance ids
          Actors,      \* concurrent callers of the service
          NoKey, NoBalance,
          MaxFaults    \* bound on lost answers, failing listings, crashes and revivals

ASSUME EscrowAssumption ==
  /\ NoKey \notin Keys /\ NoBalance \notin Balances
  /\ MaxFaults \in Nat

VARIABLES chain,      \* chain[b]: has the balance been created, and what has claimed it?
          row,        \* row[k]: the row of the payments table
          call,       \* call[a]: a call in progress
          floating,   \* transactions submitted by callers that no longer wait for them
          faults      \* how much of MaxFaults is spent

escrowVars == <<chain, row, call, floating, faults>>

Claims        == {"release", "refund"}
ChainStates   == {"absent", "held"} \cup Claims
FinalStatuses == {"released", "refunded", "orphaned"}
RowStatuses   == {"none", "locked"} \cup FinalStatuses

\* byHand: the status was written by an operator and not by the service.
NoRow  == [status |-> "none", balance |-> NoBalance, byHand |-> FALSE]
NoCall == [op |-> "none", key |-> NoKey, balance |-> NoBalance, landed |-> FALSE]
Tx     == [op : {"lock"} \cup Claims, balance : Balances]

EscrowTypeOK ==
  /\ chain \in [Balances -> ChainStates]
  /\ row \in [Keys -> [status : RowStatuses, balance : Balances \cup {NoBalance}, byHand : BOOLEAN]]
  /\ call \in [Actors -> [op : {"none", "lock"} \cup Claims, key : Keys \cup {NoKey},
                          balance : Balances \cup {NoBalance}, landed : BOOLEAN]]
  /\ floating \subseteq Tx
  /\ faults \in 0 .. MaxFaults

EscrowInit ==
  /\ chain = [b \in Balances |-> "absent"]
  /\ row = [k \in Keys |-> NoRow]
  /\ call = [a \in Actors |-> NoCall]
  /\ floating = {}
  /\ faults = 0

Fault == faults < MaxFaults /\ faults' = faults + 1

Escrowed == {b \in Balances : chain[b] = "held"}
TxOf(c) == [op |-> c.op, balance |-> c.balance]

\* The status that an operation leaves in the row.
Outcome == [lock |-> "locked", release |-> "released", refund |-> "refunded"]

\* What the network does with a transaction: create the balance, or hand it to its claimant.
Applied(tx) == [chain EXCEPT ![tx.balance] = IF tx.op = "lock" THEN "held" ELSE tx.op]
Applicable(tx) == tx.op = "lock" \/ chain[tx.balance] = "held"

-----------------------------------------------------------------------------
Submit(a, op, k, b) ==
  /\ call[a] = NoCall
  /\ call' = [call EXCEPT ![a] = [op |-> op, key |-> k, balance |-> b, landed |-> FALSE]]

\* Every lock transaction has a balance id of its own.
Lock(a, k, b) ==
  /\ chain[b] = "absent"
  /\ \A c \in Actors : call[c].balance # b
  /\ \A tx \in floating : tx.balance # b
  /\ Submit(a, "lock", k, b)

\* A released row returns its hash without a transaction; no other status is looked at.
ReleasePayment(a, k) ==
  /\ row[k].status \notin {"none", "released"}
  /\ Submit(a, "release", k, row[k].balance)

RefundPayment(a, k) ==
  /\ row[k].status \notin {"none", "released"}
  /\ Submit(a, "refund", k, row[k].balance)

Land(a) ==
  /\ call[a] # NoCall /\ ~call[a].landed
  /\ Applicable(TxOf(call[a]))
  /\ chain' = Applied(TxOf(call[a]))
  /\ call' = [call EXCEPT ![a].landed = TRUE]

\* The answer arrives and the row is written, whatever it says by now; a second
\* insert of a key throws.
UpdatedRow(a) ==
  LET c == call[a] IN
  IF c.op # "lock" THEN [row EXCEPT ![c.key].status = Outcome[c.op], ![c.key].byHand = FALSE]
  ELSE IF row[c.key] = NoRow
       THEN [row EXCEPT ![c.key] = [status |-> "locked", balance |-> c.balance, byHand |-> FALSE]]
       ELSE row

Record(a) ==
  /\ call[a].landed
  /\ row' = UpdatedRow(a)
  /\ call' = [call EXCEPT ![a] = NoCall]

\* Mutant: a claim that comes too late is taken for one that landed.
MutantRefusedRow(a) ==
  [row EXCEPT ![call[a].key].status = Outcome[call[a].op], ![call[a].key].byHand = FALSE]

\* The network refuses the claim of a balance that is gone, and the call throws.
RefusedRow(a) == row

Refused(a) ==
  /\ call[a] # NoCall /\ ~call[a].landed
  /\ ~Applicable(TxOf(call[a]))
  /\ row' = RefusedRow(a)
  /\ call' = [call EXCEPT ![a] = NoCall]

\* What is in flight when its callers go.
Adrift(As) == {TxOf(call[a]) : a \in {b \in As : call[b] # NoCall /\ ~call[b].landed}}

\* The retries are used up, the breaker opens or the answer is lost: the call throws.
GiveUp(a) ==
  /\ call[a] # NoCall
  /\ Fault
  /\ floating' = floating \cup Adrift({a})
  /\ call' = [call EXCEPT ![a] = NoCall]

\* The network is done with an abandoned transaction.
LandLate(tx) ==
  /\ floating' = floating \ {tx}
  /\ chain' = IF Applicable(tx) THEN Applied(tx) ELSE chain

\* The process dies between two steps of its calls.
CallsLost ==
  /\ Fault
  /\ floating' = floating \cup Adrift(Actors)
  /\ call' = [a \in Actors |-> NoCall]

-----------------------------------------------------------------------------
CONSTANTS PaymentCallers,  \* whoever else calls the payment service
          Passes    \* instances of ReconciliationService

ASSUME ReconciliationAssumption ==
  /\ Actors = PaymentCallers \cup Passes
  /\ PaymentCallers \cap Passes = {}
  /\ Keys \cap Balances = {}

VARIABLES pass,     \* pass[p]: the pass that instance p is in
          pending,  \* pending[i]: drifts left to an operator
          doomed,   \* keys whose task has failed or is cancelled
          aged      \* keys whose escrow is past RECONCILIATION_ESCROW_EXPIRY_MS

reconVars == <<escrowVars, pass, pending, doomed, aged>>

DriftTypes == {"orphaned_locked", "missing_release_tx", "release_unconfirmed", "expired_escrow"}
Automatic  == DriftTypes \ {"missing_release_tx"}
Drifts  == [type : DriftTypes, key : Keys]
NoDrift == [type |-> "none", key |-> NoKey]
Ids     == Keys \cup Balances

\* todo holds the drifts of rows, foreign the balances that are missing locally.
Idle == [at |-> "idle", seen |-> [k \in Keys |-> NoRow], todo |-> {}, foreign |-> {},
         doing |-> NoDrift, parked |-> {}]

ReconTypeOK ==
  /\ EscrowTypeOK
  /\ \A p \in Passes :
       /\ pass[p].at \in {"idle", "listing", "working", "alerting"}
       /\ pass[p].todo \subseteq Drifts
       /\ pass[p].doing \in Drifts \cup {NoDrift}
       /\ (pass[p].doing = NoDrift) = (call[p] = NoCall)
       /\ pass[p].parked \subseteq Keys /\ pass[p].foreign \subseteq Balances
  /\ pending \in [Ids -> {"none", "open", "acknowledged"}]
  /\ doomed \subseteq Keys /\ aged \subseteq Keys

ReconInit ==
  /\ EscrowInit
  /\ pass = [p \in Passes |-> Idle]
  /\ pending = [i \in Ids |-> "none"]
  /\ doomed = {} /\ aged = {}

-----------------------------------------------------------------------------
(***************************************************************************)
(* detectPaymentDrift: the copy of the table against the list of balances. *)
(* An amount mismatch cannot come from the calls of this model.            *)
(***************************************************************************)
With(seen, S) == {k \in Keys : seen[k].status \in S}
Gone(seen, listed) == {k \in Keys : seen[k].balance \notin listed}

OrphanedLock(seen, listed) == With(seen, {"locked"}) \cap Gone(seen, listed)

UnconfirmedRelease(seen, listed) == With(seen, FinalStatuses) \ Gone(seen, listed)

\* Released rows are looked up in Horizon; unverified ones are not found there.
Verifiable(seen) == With(seen, {"released"})
MissingReleaseTx(seen, listed, unverified) == unverified \cap Gone(seen, listed)

\* Mutant: only the escrows of tasks that have not failed expire.
MutantExpired(seen, listed) == (With(seen, {"locked"}) \ Gone(seen, listed)) \cap (aged \ doomed)

\* The age of an escrow is looked at when its task has ended without success.
Expired == aged \cap doomed
PastDeadline(seen, listed) == (With(seen, {"locked"}) \ Gone(seen, listed)) \cap Expired

MissingLocal(seen, listed) == {b \in listed : \A k \in Keys : seen[k].balance # b}

Detected(seen, listed, unverified) ==
  LET Drift(type, ks) == [type : {type}, key : ks] IN
  Drift("orphaned_locked", OrphanedLock(seen, listed))
    \cup Drift("missing_release_tx", MissingReleaseTx(seen, listed, unverified))
    \cup Drift("release_unconfirmed", UnconfirmedRelease(seen, listed))
    \cup Drift("expired_escrow", PastDeadline(seen, listed))

\* Errors of Horizon are swallowed: listBalances returns the pages it has read.
CutShort(listed) == listed # Escrowed

\* A release whose claim Horizon does not find, for an error of the lookup or for good.
NotFound(seen, unverified) == unverified \subseteq Verifiable(seen)

-----------------------------------------------------------------------------
Outside == UNCHANGED <<pending, doomed, aged>>
Table   == UNCHANGED <<chain, row, call, floating>>

PassStart(p) ==
  /\ pass[p].at = "idle"
  /\ pass' = [pass EXCEPT ![p].at = "listing", ![p].seen = row]
  /\ Table /\ Outside /\ UNCHANGED faults

PassList(p, listed, unverified) ==
  /\ pass[p].at = "listing"
  /\ listed \subseteq Escrowed
  /\ NotFound(pass[p].seen, unverified)
  /\ IF CutShort(listed) \/ unverified # {} THEN Fault ELSE UNCHANGED faults
  /\ pass' = [pass EXCEPT ![p].at = "working", ![p].seen = Idle.seen,
                          ![p].todo = Detected(pass[p].seen, listed, unverified),
                          ![p].foreign = MissingLocal(pass[p].seen, listed)]
  /\ Table /\ Outside

\* The table of pending drift: upsert inserts a row or leaves it as acknowledged as it was,
\* retain deletes what a pass has not parked, resolve acknowledges.
Upserted(i)     == IF pending[i] = "none" THEN "open" ELSE pending[i]
Retained(i, ids) == IF i \in ids THEN pending[i] ELSE "none"
Acknowledged(i) == [pending EXCEPT ![i] = "acknowledged"]

Remediated(p, d) ==
  /\ pass' = [pass EXCEPT ![p].todo = @ \ {d}]
  /\ Outside

Park(p, d) ==
  /\ pass' = [pass EXCEPT ![p].todo = @ \ {d}, ![p].doing = NoDrift, ![p].parked = @ \cup {d.key}]
  /\ pending' = [pending EXCEPT ![d.key] = Upserted(d.key)]
  /\ UNCHANGED <<doomed, aged>>

StartSubmission(p, d) ==
  /\ pass' = [pass EXCEPT ![p].todo = @ \ {d}, ![p].doing = d]
  /\ Outside

MarkOrphaned(p, d) ==
  /\ d.type = "orphaned_locked"
  /\ IF row[d.key].status = "locked"
     THEN /\ row' = [row EXCEPT ![d.key].status = "orphaned", ![d.key].byHand = FALSE]
          /\ Remediated(p, d)
     ELSE UNCHANGED row /\ Park(p, d)
  /\ UNCHANGED <<chain, call, floating, faults>>

\* The release of a released row returns at once and counts as remediated.
RequeueRelease(p, d) ==
  /\ d.type = "release_unconfirmed"
  /\ IF row[d.key].status = "released"
     THEN UNCHANGED call /\ Remediated(p, d)
     ELSE ReleasePayment(p, d.key) /\ StartSubmission(p, d)
  /\ UNCHANGED <<chain, row, floating, faults>>

RefundEscrow(p, d) ==
  /\ d.type = "expired_escrow"
  /\ IF row[d.key].status = "locked"
     THEN RefundPayment(p, d.key) /\ StartSubmission(p, d)
     ELSE UNCHANGED call /\ Park(p, d)
  /\ UNCHANGED <<chain, row, floating, faults>>

\* There is no transaction to back-fill the hash from.
ManualReview(p, d) ==
  /\ d.type \notin Automatic
  /\ Park(p, d)
  /\ Table /\ UNCHANGED faults

Work(p) ==
  /\ pass[p].at = "working" /\ pass[p].doing = NoDrift
  /\ \E d \in pass[p].todo :
       MarkOrphaned(p, d) \/ RequeueRelease(p, d) \/ RefundEscrow(p, d) \/ ManualReview(p, d)

PassRecord(p) ==
  /\ pass[p].doing # NoDrift
  /\ Record(p)
  /\ pass' = [pass EXCEPT ![p].doing = NoDrift]
  /\ UNCHANGED <<chain, floating, faults>> /\ Outside

PassRefused(p) ==
  /\ pass[p].doing # NoDrift
  /\ Refused(p)
  /\ Park(p, pass[p].doing)
  /\ UNCHANGED <<chain, floating, faults>>

PassGivesUp(p) ==
  /\ pass[p].doing # NoDrift
  /\ GiveUp(p)
  /\ Park(p, pass[p].doing)
  /\ UNCHANGED <<chain, row>>

\* The balances without a row come last and are parked; retain then forgets what this
\* pass has not parked, the report is saved, and the alerts are sent.
PassEnd(p) ==
  /\ pass[p].at = "working" /\ pass[p].doing = NoDrift /\ pass[p].todo = {}
  /\ pending' = [i \in Ids |-> IF i \in pass[p].foreign THEN Upserted(i)
                             ELSE Retained(i, pass[p].parked)]
  /\ pass' = [pass EXCEPT ![p] = [Idle EXCEPT !.at = "alerting"]]
  /\ Table /\ UNCHANGED <<doomed, aged, faults>>

\* The instance refuses another pass until the webhooks have answered or timed out.
PassAlerted(p) ==
  /\ pass[p].at = "alerting"
  /\ pass' = [pass EXCEPT ![p] = Idle]
  /\ Table /\ Outside /\ UNCHANGED faults

-----------------------------------------------------------------------------
Others == UNCHANGED <<pass, pending, doomed, aged>>

CallerStarts(a) ==
  /\ \E k \in Keys : (\E b \in Balances : Lock(a, k, b)) \/ ReleasePayment(a, k) \/ RefundPayment(a, k)
  /\ UNCHANGED <<chain, row, floating, faults>> /\ Others

CallerEnds(a)   == (Record(a) \/ Refused(a)) /\ UNCHANGED <<chain, floating, faults>> /\ Others
CallerGivesUp(a) == GiveUp(a) /\ UNCHANGED <<chain, row>> /\ Others

Landing(a)   == Land(a) /\ UNCHANGED <<row, floating, faults>> /\ Others
LateLanding  == (\E tx \in floating : LandLate(tx)) /\ UNCHANGED <<row, call, faults>> /\ Others

Crash ==
  /\ CallsLost
  /\ pass' = [p \in Passes |-> Idle]
  /\ UNCHANGED <<chain, row>> /\ Outside

\* resolvePendingDrift: the row says what the operator says.
Resolve(i, status) ==
  /\ pending[i] # "none"
  /\ pending' = Acknowledged(i)
  /\ row' = IF i \in Keys THEN [row EXCEPT ![i].status = status, ![i].byHand = TRUE] ELSE row
  /\ UNCHANGED <<chain, call, floating, faults, pass, doomed, aged>>

Operator == \E i \in Ids, s \in FinalStatuses : Resolve(i, s)

\* A task fails or is cancelled; a replay of its job takes that back.  Age is looked
\* at for failed tasks only, so that it may as well come after the failure.
TaskFails(k)   == k \notin doomed /\ doomed' = doomed \cup {k} /\ UNCHANGED faults
TaskRevives(k) == k \in doomed /\ doomed' = doomed \ {k} /\ Fault
Ages(k)        == k \in doomed /\ k \notin aged /\ aged' = aged \cup {k}

World ==
  /\ \E k \in Keys : \/ (TaskFails(k) \/ TaskRevives(k)) /\ UNCHANGED aged
                     \/ Ages(k) /\ UNCHANGED <<doomed, faults>>
  /\ Table /\ UNCHANGED <<pass, pending>>

\* What a caller or a pass does as long as nothing goes wrong.
CallerGoesOn(a) == Landing(a) \/ CallerEnds(a)
PassGoesOn(p) ==
  \/ PassStart(p) \/ Work(p) \/ Landing(p) \/ PassRecord(p) \/ PassRefused(p) \/ PassEnd(p)
  \/ PassAlerted(p)
  \/ \E listed \in SUBSET Balances, unverified \in SUBSET Keys : PassList(p, listed, unverified)

ReconNext ==
  \/ \E a \in PaymentCallers : CallerStarts(a) \/ CallerGoesOn(a) \/ CallerGivesUp(a)
  \/ \E p \in Passes : PassGoesOn(p) \/ PassGivesUp(p)
  \/ LateLanding
  \/ Crash
  \/ Operator
  \/ World

\* The network answers, the scheduler starts passes and a pass goes on.
ReconFairness ==
  /\ \A a \in PaymentCallers : WF_reconVars(CallerGoesOn(a))
  /\ \A p \in Passes : WF_reconVars(PassGoesOn(p))

ReconSpec == ReconInit /\ [][ReconNext]_reconVars /\ ReconFairness

-----------------------------------------------------------------------------
\* A row that the service or the reconciler has settled says what happened to its
\* balance: released if a release has claimed it, refunded if a refund has, however
\* calls, passes, late transactions and crashes interleave.
RowTellsClaim ==
  \A k \in Keys :
    row[k].status \in {"released", "refunded"} /\ ~row[k].byHand =>
      \E op \in Claims : chain[row[k].balance] = op /\ row[k].status = Outcome[op]

LockedUp(k) == row[k] # NoRow /\ chain[row[k].balance] = "held"

\* The escrow of a task that has failed does not stay locked for ever: once it has
\* expired it is claimed, unless the task is revived or an operator says it is settled.
ExpiredEscrowsLeave ==
  \A k \in Keys :
    (LockedUp(k) /\ k \in Expired) ~> (~LockedUp(k) \/ k \notin doomed \/ row[k].byHand)

\* A balance on chain without a row, left by a crash between the submission and the
\* insert or by a second lock of a key, comes before an operator.
UntrackedIsReported ==
  \A b \in Balances :
    chain[b] = "held" ~>
      (chain[b] # "held" \/ pending[b] # "none" \/ \E k \in Keys : row[k].balance = b)

\* Typed states, in which settled rows tell what happened on chain.
ReconInv == ReconTypeOK /\ RowTellsClaim

\* No escrow is stranded: expired ones are claimed, untracked ones are reported.
EscrowsResolve == ExpiredEscrowsLeave /\ UntrackedIsReported
=============================================================================
