---------------------------- MODULE ClientLibrary ----------------------------
(***************************************************************************)
(* The TypeScript library of smart-contracts/src: the in-memory registry    *)
(* with its expiry and its sorted index (registry/registry.ts), the         *)
(* coordinator that walks a DAG with the agents it finds there              *)
(* (coordinator/coordinator.ts), and the escrows on Stellar claimable       *)
(* balances with their milestones (payment/payment.ts), whose calls overlap *)
(* at every await.                                                          *)
(***************************************************************************)
EXTENDS Integers, Sequences, FiniteSets, SequencesExt

CONSTANTS LibAgents, Capability,   \* agent -> the capabilities it declares
          LibPrices, RegistryTtl,
          DagNodes, DependsOn, TaskType, \* the DAG in its topological order
          MaxTries,                \* MAX_RETRIES
          EscrowCalls,             \* concurrent callers of the escrow functions
          Milestones, AmountOf,    \* the milestones of the task
          NoPlan, Unlisted,
          LibEnd, MaxLocks         \* bounds on the clock and on locks

Buckets == UNION {Capability[a] : a \in LibAgents}

ASSUME LibraryAssumption ==
    /\ LibPrices \subseteq Nat \ {0} /\ RegistryTtl \in Nat /\ MaxTries \in Nat \ {0}
    /\ \A i \in DOMAIN DagNodes : DependsOn[DagNodes[i]] \subseteq {DagNodes[j] : j \in 1..(i - 1)}

VARIABLES store,   \* agent -> its record and when it was stored
          index,   \* capability -> the bucket of the composite index
          libTime,
          walkAt,  \* the coordinator's place in the DAG
          nodes,   \* node -> status
          results, \* node -> the agent whose result the walk has kept
          balances, \* claimable balances in the order they were made
          plan,    \* milestoneStore of the task: whose lock wrote it, what is released
          escrow,  \* caller -> where its call is
          paid     \* history: what each milestone's agent was paid

registryVars == <<store, index>>
walkVars     == <<walkAt, nodes, results>>
escrowVars   == <<balances, plan, escrow, paid>>
libraryVars  == <<registryVars, walkVars, escrowVars, libTime>>

-----------------------------------------------------------------------------
(* The registry.                                                           *)

Listed   == {a \in LibAgents : store[a] # Unlisted}
Expired(a) == libTime - store[a].at > RegistryTtl
Pruned   == {a \in Listed : ~Expired(a)}

\* An entry of a bucket; its score is its reputation over its price and a
\* little more, so of two equal ratios the larger reputation is ahead.
Entry(a, price, rep) == [agent |-> a, price |-> price, rep |-> rep]
Beats(x, y) == \/ x.rep * y.price > y.rep * x.price
               \/ x.rep * y.price = y.rep * x.price /\ x.rep > y.rep

Inserted(bucket, e) ==
    InsertAt(bucket, Cardinality({i \in DOMAIN bucket : Beats(bucket[i], e)}) + 1, e)

Unindexed(bucket, gone) == SelectSeq(bucket, LAMBDA e : e.agent \notin gone)

Reindexed(gone, e) ==
    [c \in Buckets |->
       IF c \in Capability[e.agent] THEN Inserted(Unindexed(index[c], gone), e)
                                    ELSE Unindexed(index[c], gone)]

\* registerAgent prunes nothing.
RegisterAgent(a, price, rep) ==
    /\ store' = [store EXCEPT ![a] = [price |-> price, rep |-> rep, at |-> libTime]]
    /\ index' = Reindexed({a}, Entry(a, price, rep))
    /\ UNCHANGED <<walkVars, escrowVars, libTime>>

DeregisterAgent(a) ==
    /\ a \in Listed
    /\ store' = [store EXCEPT ![a] = Unlisted]
    /\ index' = [c \in Buckets |-> Unindexed(index[c], {a})]
    /\ UNCHANGED <<walkVars, escrowVars, libTime>>

\* Every read: discoverAgents, getAgent, listAgents, lookupAgentsComposite.
Prune ==
    /\ store' = [a \in LibAgents |-> IF a \in Pruned THEN store[a] ELSE Unlisted]
    /\ index' = [c \in Buckets |-> Unindexed(index[c], Listed \ Pruned)]

ReadRegistry ==
    /\ Listed # Pruned
    /\ Prune
    /\ UNCHANGED <<walkVars, escrowVars, libTime>>

\* updatePricing and updateAgentReputation: the age of the record stays.
Revise(a, price, rep) ==
    /\ a \in Pruned
    /\ store' = [b \in LibAgents |->
                   CASE b = a -> [store[a] EXCEPT !.price = price, !.rep = rep]
                     [] b \in Pruned -> store[b]
                     [] OTHER -> Unlisted]
    /\ index' = Reindexed((Listed \ Pruned) \cup {a}, Entry(a, price, rep))
    /\ UNCHANGED <<walkVars, escrowVars, libTime>>

-----------------------------------------------------------------------------
(* The coordinator.                                                        *)

Node == DagNodes[walkAt]
Offering(c) == {a \in Pruned : c \in Capability[a]}

Dependents(n) == {m \in Range(DagNodes) : n \in DependsOn[m]}

\* The cheapest of them, as many as handleAgentFailure tries.
Tried(c) ==
    {a \in Offering(c) :
       Cardinality({b \in Offering(c) : store[b].price < store[a].price}) < MaxTries}

\* The node runs at one of those, or fails (a is Unlisted) when all of them
\* do or there is none; failing fails what depends on it, which the walk
\* runs all the same when it comes to it.
RunNode(a) ==
    /\ walkAt <= Len(DagNodes)
    /\ a # Unlisted => a \in Tried(TaskType[Node])
    /\ Prune
    /\ nodes' = [n \in Range(DagNodes) |->
                   CASE n = Node -> (IF a # Unlisted THEN "done" ELSE "failed")
                     [] a = Unlisted /\ n \in Dependents(Node) -> "failed"
                     [] OTHER -> nodes[n]]
    /\ results' = [results EXCEPT ![Node] = a]
    /\ walkAt' = walkAt + 1
    /\ UNCHANGED <<escrowVars, libTime>>

-----------------------------------------------------------------------------
(* The escrow.                                                             *)

\* The memo of the newest transaction that made a balance.
LatestLock == Len(balances)
Total(S) == LET f[T \in SUBSET S] ==
                  IF T = {} THEN 0 ELSE LET m == CHOOSE m \in T : TRUE IN AmountOf[m] + f[T \ {m}]
            IN  f[S]

Resting == [stage |-> "idle", of |-> NoPlan, balance |-> 0, plan |-> 0]
Step(k, s) == escrow' = [escrow EXCEPT ![k].stage = s]

\* lockMilestoneEscrow: the balance, then the plan, over any older one.
Lock(k) ==
    /\ escrow[k].stage = "idle" /\ Len(balances) < MaxLocks
    /\ balances' = Append(balances, [amount |-> Total(Milestones), open |-> TRUE])
    /\ \/ escrow' = [escrow EXCEPT ![k] = [Resting EXCEPT !.stage = "locked", !.plan = Len(balances) + 1]]
       \/ UNCHANGED escrow \* the answer is lost: no plan is written
    /\ UNCHANGED <<registryVars, walkVars, libTime, plan, paid>>

WritePlan(k) ==
    /\ escrow[k].stage = "locked"
    /\ plan' = [lock |-> escrow[k].plan, released |-> {}]
    /\ escrow' = [escrow EXCEPT ![k] = Resting]
    /\ UNCHANGED <<registryVars, walkVars, libTime, balances, paid>>

\* releaseMilestone and cancelMilestoneEscrow check the plan they find.
StartRelease(k, m) ==
    /\ escrow[k].stage = "idle" /\ plan # NoPlan /\ m \notin plan.released
    /\ escrow' = [escrow EXCEPT ![k] =
                     [stage |-> "release", of |-> m, balance |-> 0, plan |-> plan.lock]]
    /\ UNCHANGED <<registryVars, walkVars, libTime, balances, plan, paid>>

StartCancel(k) ==
    /\ escrow[k].stage = "idle" /\ plan # NoPlan /\ plan.released # Milestones
    /\ escrow' = [escrow EXCEPT ![k] = [Resting EXCEPT !.stage = "cancel"]]
    /\ UNCHANGED <<registryVars, walkVars, libTime, balances, plan, paid>>

\* resolveBalanceId, some awaits later: the newest balance with the memo.
ResolveEscrow(k) ==
    /\ escrow[k].stage \in {"release", "cancel"}
    /\ escrow' = [escrow EXCEPT
         ![k].stage = IF escrow[k].stage = "release" THEN "releasing" ELSE "cancelling",
         ![k].balance = LatestLock]
    /\ UNCHANGED <<registryVars, walkVars, libTime, balances, plan, paid>>

\* The balance is gone (EscrowAlreadySettledError), or Horizon does not
\* answer; the plan stays as it is.
AnswerLost(k) ==
    /\ escrow[k].stage \in {"releasing", "cancelling"}
    /\ escrow' = [escrow EXCEPT ![k] = Resting]
    /\ UNCHANGED <<registryVars, walkVars, libTime, balances, plan, paid>>

Claimed(b) == [balances EXCEPT ![b].open = FALSE]

\* releasePayment: one transaction claims the balance and pays all of it to
\* the milestone's agent; its answer may be lost.
SubmitRelease(k) ==
    LET b == escrow[k].balance IN
    /\ escrow[k].stage = "releasing" /\ balances[b].open
    /\ balances' = Claimed(b)
    /\ paid' = [paid EXCEPT ![escrow[k].of] = @ + balances[b].amount]
    /\ Step(k, "released") \/ escrow' = [escrow EXCEPT ![k] = Resting]
    /\ UNCHANGED <<registryVars, walkVars, libTime, plan>>

\* refundEscrow: back to the coordinator.
SubmitRefund(k) ==
    LET b == escrow[k].balance IN
    /\ escrow[k].stage = "cancelling" /\ balances[b].open
    /\ balances' = Claimed(b)
    /\ Step(k, "cancelled") \/ escrow' = [escrow EXCEPT ![k] = Resting]
    /\ UNCHANGED <<registryVars, walkVars, libTime, plan, paid>>

\* getEscrowBalance.
EscrowBalance == IF LatestLock > 0 /\ balances[LatestLock].open THEN balances[LatestLock].amount ELSE 0

\* A release marks the milestone in the plan it had found, which a later
\* lock may have replaced; a cancellation drops whatever plan there is.
Mark(k) ==
    /\ escrow[k].stage \in {"released", "cancelled"}
    /\ plan' = CASE escrow[k].stage = "cancelled" -> NoPlan
                 [] plan # NoPlan /\ plan.lock = escrow[k].plan ->
                      [plan EXCEPT !.released = @ \cup {escrow[k].of}]
                 [] OTHER -> plan
    /\ escrow' = [escrow EXCEPT ![k] = Resting]
    /\ UNCHANGED <<registryVars, walkVars, libTime, balances, paid>>

LibTick ==
    /\ libTime < LibEnd /\ libTime' = libTime + 1
    /\ UNCHANGED <<registryVars, walkVars, escrowVars>>

-----------------------------------------------------------------------------
LibraryInit ==
    /\ store = [a \in LibAgents |-> Unlisted]
    /\ index = [c \in Buckets |-> <<>>]
    /\ libTime = 0
    /\ walkAt = 1
    /\ nodes = [n \in Range(DagNodes) |-> "pending"]
    /\ results = [n \in Range(DagNodes) |-> Unlisted]
    /\ balances = <<>> /\ plan = NoPlan /\ paid = [m \in Milestones |-> 0]
    /\ escrow = [k \in EscrowCalls |-> Resting]

RegistryStep ==
    \/ \E a \in LibAgents, p \in LibPrices, r \in {1, 2} : RegisterAgent(a, p, r) \/ Revise(a, p, r)
    \/ \E a \in LibAgents : DeregisterAgent(a)
    \/ ReadRegistry
    \/ \E a \in LibAgents \cup {Unlisted} : RunNode(a)
    \/ LibTick

EscrowStep ==
    \E k \in EscrowCalls :
        \/ Lock(k) \/ WritePlan(k) \/ StartCancel(k) \/ ResolveEscrow(k) \/ AnswerLost(k) \/ SubmitRelease(k) \/ SubmitRefund(k) \/ Mark(k)
        \/ \E m \in Milestones : StartRelease(k, m)

LibraryNext == RegistryStep \/ EscrowStep
LibrarySpec == LibraryInit /\ [][LibraryNext]_libraryVars

-----------------------------------------------------------------------------
(* Properties.                                                             *)

\* Every variable keeps to its type.
LibraryTypeOK ==
    /\ \A n \in Range(DagNodes) : nodes[n] \in {"pending", "done", "failed"}
    /\ walkAt \in 1..(Len(DagNodes) + 1)
    /\ plan # NoPlan => plan.lock \in 1..Len(balances) /\ plan.released \subseteq Milestones
    /\ \A k \in EscrowCalls : escrow[k].balance \in 0..Len(balances)

\* The index says of every agent what the store says, once per capability,
\* and the best is first: after re-registrations, revisions and expiry.
IndexIsStore ==
    \A c \in Buckets :
        /\ {index[c][i] : i \in DOMAIN index[c]} =
           {Entry(a, store[a].price, store[a].rep) : a \in {b \in Listed : c \in Capability[b]}}
        /\ \A i, j \in DOMAIN index[c] : i < j => ~Beats(index[c][j], index[c][i])
        /\ IsInjective(index[c])

\* What the walk has kept is what succeeded, and a node is settled only
\* after everything it depends on.
WalkInOrder ==
    /\ \A n \in Range(DagNodes) : results[n] # Unlisted => nodes[n] = "done"
    /\ \A n \in Range(DagNodes) : nodes[n] = "done" =>
         \A d \in DependsOn[n] : nodes[d] # "pending"

\* No more milestones are marked released in a plan than balances were
\* claimed, and whoever was paid was paid the whole of every balance claimed
\* for him: the first release takes the other milestones' money with it.
ClaimsCoverReleases ==
    LET claimed == {i \in DOMAIN balances : ~balances[i].open}
        payees  == {m \in Milestones : paid[m] > 0}
    IN  /\ plan # NoPlan => Cardinality(plan.released) <= Cardinality(claimed)
        /\ \A m \in payees : paid[m] % Total(Milestones) = 0
        /\ Cardinality(payees) <= Cardinality(claimed)
        /\ EscrowBalance > 0 => DOMAIN balances # claimed

LibraryInv == LibraryTypeOK /\ IndexIsStore /\ WalkInOrder /\ ClaimsCoverReleases
=============================================================================
