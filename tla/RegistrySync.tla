---------------------------- MODULE RegistrySync ----------------------------
(***************************************************************************)
(* The poller that follows the registry contract's events and writes the   *)
(* agents table (src/backend/src/registry/sync.ts).  A poll asks the RPC   *)
(* server two things and awaits each answer, with no time limit, while a   *)
(* timer starts further polls; all of them share one cursor, which is in   *)
(* memory only.  The chain is a sequence of events, and of the ledgers that  *)
(* closed over them.                                                       *)
(***************************************************************************)
EXTENDS AgentLiveness, SequencesExt

CONSTANTS ChainAgents,
          Polls,         \* bound on the polls that may be under way at once
          Lookback,      \* how far behind the tip a first poll begins
          EventLimit,    \* events in one answer
          MaxLedgers     \* bound on the chain

ASSUME SyncAssumption ==
  /\ ChainAgents \subseteq FleetAgents
  /\ {Lookback, EventLimit, MaxLedgers} \subseteq Nat

VARIABLES chain,        \* the contract's events in their order
          ledgerEnds,   \* ledgerEnds[l]: how many of them ledger l closed over
          onChain,      \* what the contract holds of each agent
          cursor,       \* lastLedger
          polls,        \* polls[w]: where a poll is
          joined,       \* agents that registered with the server itself since
          skipped       \* whether the cursor has passed an event no poll brought

chainVars == <<chain, ledgerEnds, onChain, cursor, polls, joined, skipped>>

NoPoll == [step |-> "idle", from |-> 0, tip |-> 0, batch |-> <<>>]
Tip == Len(ledgerEnds)
Kinds == {"agent_reg", "agent_drg", "freeze", "unfreeze"}

SyncTypeOK ==
  /\ FleetTypeOK
  /\ Tip <= MaxLedgers
  /\ onChain \in [ChainAgents -> {"absent", "active", "frozen"}]
  /\ cursor \in 0 .. MaxLedgers
  /\ \A w \in Polls : polls[w].step \in {"idle", "begun", "asked", "fetched"}
  /\ joined \subseteq FleetAgents /\ skipped \in BOOLEAN

SyncInit ==
  /\ FleetInit
  /\ chain = <<>> /\ ledgerEnds = <<>> /\ onChain = [a \in ChainAgents |-> "absent"]
  /\ cursor = 0 /\ polls = [w \in Polls |-> NoPoll]
  /\ joined = {} /\ skipped = FALSE

-----------------------------------------------------------------------------
ChainEvents == [kind : Kinds, agent : ChainAgents]

\* What the contract lets happen next, and what it leads to.
Allowed(states, e) ==
  CASE e.kind = "agent_reg" -> states[e.agent] = "absent"
    [] e.kind = "agent_drg" -> states[e.agent] # "absent"
    [] e.kind = "freeze"    -> states[e.agent] = "active"
    [] e.kind = "unfreeze"  -> states[e.agent] = "frozen"

Became(states, e) ==
  [states EXCEPT ![e.agent] = CASE e.kind = "agent_drg" -> "absent"
                                [] e.kind = "freeze" -> "frozen"
                                [] OTHER -> "active"]

Happens(e) ==
  /\ Allowed(onChain, e)
  /\ chain' = Append(chain, e) /\ onChain' = Became(onChain, e)

HappenBoth(e, f) ==
  /\ Allowed(onChain, e) /\ Allowed(Became(onChain, e), f)
  /\ chain' = Append(Append(chain, e), f) /\ onChain' = Became(Became(onChain, e), f)

CloseLedger ==
  /\ Tip < MaxLedgers
  /\ \/ \E e \in ChainEvents : Happens(e) \/ \E f \in ChainEvents : HappenBoth(e, f)
     \/ UNCHANGED <<chain, onChain>>
  /\ ledgerEnds' = Append(ledgerEnds, Len(chain'))
  /\ UNCHANGED <<cursor, polls, joined, skipped>> /\ UNCHANGED fleetVars

-----------------------------------------------------------------------------
BeginPoll(w) ==
  /\ serving /\ polls[w].step = "idle"
  /\ polls' = [polls EXCEPT ![w].step = "begun"]
  /\ UNCHANGED <<chain, ledgerEnds, onChain, cursor, joined, skipped>> /\ UNCHANGED fleetVars

\* A process's first poll begins at a fixed distance from the tip.
Bootstrap(w) ==
  LET start == IF Tip > Lookback THEN Tip - Lookback ELSE 0 IN
  /\ polls[w].step = "begun" /\ cursor = 0
  /\ cursor' = start
  /\ skipped' = (skipped \/ start > 1)
  /\ polls' = IF start = 0 THEN [polls EXCEPT ![w] = NoPoll] ELSE polls
  /\ UNCHANGED <<chain, ledgerEnds, onChain, joined>> /\ UNCHANGED fleetVars

LearnTip(w) ==
  /\ polls[w].step = "begun" /\ cursor # 0
  /\ polls' = [polls EXCEPT ![w] = IF Tip <= cursor THEN NoPoll
                                   ELSE [NoPoll EXCEPT !.step = "asked", !.from = cursor, !.tip = Tip]]
  /\ UNCHANGED <<chain, ledgerEnds, onChain, cursor, joined, skipped>> /\ UNCHANGED fleetVars

\* How many events came before a ledger.
EventsBefore(ledger) == IF ledger <= 1 THEN 0 ELSE ledgerEnds[ledger - 1]

FirstFrom(ledger) ==
  SubSeq(chain, EventsBefore(ledger) + 1,
         IF Len(chain) - EventsBefore(ledger) < EventLimit THEN Len(chain) ELSE EventsBefore(ledger) + EventLimit)

\* The RPC server answers with the first events of the range and whatever came since.
AnswerEvents(w) ==
  /\ polls[w].step = "asked"
  /\ polls' = [polls EXCEPT ![w].step = "fetched", ![w].batch = FirstFrom(polls[w].from)]
  /\ UNCHANGED <<chain, ledgerEnds, onChain, cursor, joined, skipped>> /\ UNCHANGED fleetVars

Handled(rows, e) ==
  [rows EXCEPT ![e.agent] =
     CASE e.kind = "agent_reg" -> Upserted(@, "online")
       [] e.kind = "agent_drg" -> NoRow
       [] e.kind = "freeze"   /\ @ # NoRow -> [@ EXCEPT !.status = "offline"]
       [] e.kind = "unfreeze" /\ @ # NoRow -> Upserted(@, "online")
       [] OTHER -> @]

\* What a batch leaves of the table, one event after the other.
Written(batch) ==
  LET after[i \in 0 .. Len(batch)] == IF i = 0 THEN agentRow ELSE Handled(after[i - 1], batch[i])
  IN  after[Len(batch)]

\* Mutant: the cursor goes to the tip there is when the answer comes.
MutantReached(w) == Tip

Reached(w) == polls[w].tip

\* The cursor takes the poll's own tip, whatever the answer left out and whoever moved the
\* cursor since.
ApplyEvents(w) ==
  LET p == polls[w]
      left == {e.agent : e \in {f \in ToSet(p.batch) : f.kind = "agent_drg"}} IN
  /\ serving /\ p.step = "fetched"
  /\ agentRow' = Written(p.batch)
  /\ listing' = IF p.batch = <<>> THEN listing ELSE NotCached
  /\ joined' = joined \ left
  /\ cursor' = Reached(w)
  /\ skipped' = (\/ skipped
                 \/ cursor < p.from
                 \/ ledgerEnds[p.tip] - EventsBefore(p.from) > EventLimit)
  /\ polls' = [polls EXCEPT ![w] = NoPoll]
  /\ Touching
  /\ UNCHANGED <<chain, ledgerEnds, onChain, serving, lastPass, swept, alerts, fleetTime, proofVars>>

PollFails(w) ==
  /\ polls[w].step # "idle"
  /\ polls' = [polls EXCEPT ![w] = NoPoll]
  /\ UNCHANGED <<chain, ledgerEnds, onChain, cursor, joined, skipped>> /\ UNCHANGED fleetVars

-----------------------------------------------------------------------------
\* The server's other work; its end takes the cursor and the polls with it.
FleetStep ==
  /\ FleetNext
  /\ joined' = joined \cup {a \in FleetAgents : RegisterAgent(a)}
  /\ IF serving' THEN UNCHANGED <<cursor, polls>>
     ELSE cursor' = 0 /\ polls' = [w \in Polls |-> NoPoll]
  /\ UNCHANGED <<chain, ledgerEnds, onChain, skipped>>

SyncNext ==
  \/ CloseLedger
  \/ \E w \in Polls :
       \/ BeginPoll(w) \/ Bootstrap(w) \/ LearnTip(w) \/ AnswerEvents(w)
       \/ ApplyEvents(w) \/ PollFails(w)
  \/ FleetStep

SyncSpec == SyncInit /\ [][SyncNext]_<<fleetVars, chainVars>>

-----------------------------------------------------------------------------
CaughtUp == cursor = Tip /\ Tip > 0 /\ \A w \in Polls : polls[w].step = "idle"

\* Once the poller has caught up, no agent that left the contract is in the table unless it
\* came back by the server's own door, although answers come late, out of order and twice;
\* what the cursor has skipped is the exception.
DeregisteredLeave ==
  CaughtUp /\ ~skipped =>
    \A a \in ChainAgents : onChain[a] = "absent" /\ a \notin joined => a \notin Enlisted(agentRow)

\* The fleet's invariant holds with the poller writing the same table, and what left the
\* contract leaves the table.
SyncInv == SyncTypeOK /\ FleetInv /\ DeregisteredLeave
=============================================================================
