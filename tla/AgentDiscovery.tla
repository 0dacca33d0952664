--------------------------- MODULE AgentDiscovery ---------------------------
(***************************************************************************)
(* Finding agents in the registry                                          *)
(* (src/smart-contracts/contracts/agent_registry/src/lib.rs):              *)
(* discover_agents, which filters, scores and ranks the agents of a        *)
(* capability and keeps its answer in temporary storage, and get_agents,   *)
(* which reads the registrations page by page.  One capability; bonds and  *)
(* the rest of registration are in AgentRegistry.  A temporary entry stays *)
(* across calls until the ledger drops it, at a time the code does not     *)
(* choose.                                                                 *)
(***************************************************************************)
EXTENDS Integers, FiniteSets, SequencesExt

CONSTANTS FoundAgents,
          Terms,             \* records offered: price, reputation, latency, availability
          Queries,           \* DiscoveryQueries; 0 is no limit
          PageLimit,         \* agents on a page of get_agents
          MaxArrivals,       \* bound: registrations
          MaxServed          \* bound: discovery calls

ASSUME DiscoveryAssumption ==
    /\ Terms \subseteq [price : Nat, rep : Nat, latency : Nat, avail : Nat]
    /\ Queries \subseteq [maxPrice : Nat, minRep : Nat, maxLatency : Nat]
    /\ PageLimit \in Nat \ {0} /\ {MaxArrivals, MaxServed} \subseteq Nat

VARIABLES offered,      \* offered[a]: the AgentRecord's terms, or Absent
          shelf,        \* CapabilityIndex
          arrivals,     \* AgentByIndex: one entry for each registration
          icy,          \* frozen agents
          answers,      \* DiscoveryCache: the rows kept for a query, or NotKept
          queriesSeen, hits,   \* DiscoveryStats
          answered,     \* history: the last answer
          walk          \* a caller reading get_agents page by page

discoveryVars == <<offered, shelf, arrivals, icy, answers, queriesSeen, hits, answered, walk>>

Absent == [price |-> -1, rep |-> 0, latency |-> 0, avail |-> 0]
NotKept == [kept |-> FALSE, rows |-> <<>>]
NoAnswer == [fresh |-> FALSE, rows |-> <<>>]
NoWalk == [next |-> 0, got |-> {}, stayed |-> {}, state |-> "none"]

Present(a) == offered[a] # Absent

DiscoveryTypeOK ==
    /\ \A a \in FoundAgents : Present(a) => \E t, u \in Terms : offered[a] = [t EXCEPT !.price = u.price]
    /\ shelf \in Seq(FoundAgents) /\ arrivals \in Seq(FoundAgents) /\ icy \subseteq FoundAgents
    /\ answers \in [Queries -> [kept : BOOLEAN, rows : Seq(FoundAgents)]]
    /\ queriesSeen \in 0 .. MaxServed /\ hits \in 0 .. queriesSeen
    /\ walk.next \in 0 .. MaxArrivals /\ walk.stayed \subseteq FoundAgents /\ walk.got \subseteq FoundAgents
    /\ walk.state \in {"none", "reading", "done"}

-----------------------------------------------------------------------------
(* The agents.                                                             *)

\* The loop that pushes the rows of c that are in S.
Among(c, S) ==
    LET rows[i \in 0 .. Len(c)] ==
          IF i = 0 THEN <<>> ELSE IF c[i] \in S THEN Append(rows[i - 1], c[i]) ELSE rows[i - 1]
    IN  rows[Len(c)]

KeepServed == UNCHANGED <<answers, queriesSeen, hits, answered>>

Arrive(a, t) ==
    /\ ~Present(a) /\ a \notin icy /\ Len(arrivals) < MaxArrivals
    /\ offered' = [offered EXCEPT ![a] = t]
    /\ shelf' = Append(shelf, a) /\ arrivals' = Append(arrivals, a)
    /\ UNCHANGED <<icy, walk>> /\ KeepServed

Depart(a) ==
    /\ Present(a)
    /\ offered' = [offered EXCEPT ![a] = Absent]
    /\ shelf' = Among(shelf, FoundAgents \ {a})
    /\ walk' = [walk EXCEPT !.stayed = @ \ {a}]
    /\ UNCHANGED <<arrivals, icy>> /\ KeepServed

\* freeze_agent, and update_pricing: neither looks at the answers kept.
Freeze(a) ==
    /\ Present(a)
    /\ icy' = IF a \in icy THEN icy \ {a} ELSE icy \cup {a}
    /\ UNCHANGED <<offered, shelf, arrivals, walk>> /\ KeepServed

UpdatePricing(a, t) ==
    /\ Present(a)
    /\ offered' = [offered EXCEPT ![a].price = t.price]
    /\ UNCHANGED <<shelf, arrivals, icy, walk>> /\ KeepServed

-----------------------------------------------------------------------------
(* discover_agents.                                                        *)

Within(n, limit) == limit = 0 \/ n <= limit
Suits(a, q) == /\ a \notin icy /\ Present(a)
               /\ Within(offered[a].price, q.maxPrice) /\ Within(offered[a].latency, q.maxLatency)
               /\ offered[a].rep >= q.minRep
Candidates(q) == Among(shelf, {a \in FoundAgents : Suits(a, q)})

\* The share a value leaves of its limit, or of the greatest candidate's value.
Spare(n, limit, greatest) ==
    LET whole == IF limit > 0 THEN limit ELSE greatest
    IN  IF whole = 0 THEN 100 ELSE 100 - (n * 100) \div whole
Percent(n) == IF n > 100 THEN 100 ELSE n

Composite(a, q) ==
    LET rows == Range(Candidates(q))
        price == Spare(offered[a].price, q.maxPrice, Max({offered[b].price : b \in rows}))
        speed == Spare(offered[a].latency, q.maxLatency, Max({offered[b].latency : b \in rows}))
    IN  30 * Percent(offered[a].rep) + 25 * price + 25 * Percent(offered[a].avail) + 20 * speed

\* The selection sort: each place is taken by the best of the rows left, which
\* changes places with the row that stood there.
BestFrom(rows, i, q) ==
    CHOOSE m \in i .. Len(rows) :
        /\ \A j \in i .. Len(rows) : Composite(rows[j], q) <= Composite(rows[m], q)
        /\ \A j \in i .. m - 1 : Composite(rows[j], q) < Composite(rows[m], q)
\* a bug: the rows change places once only
MutantSwapped(rows, i, j) == [rows EXCEPT ![i] = rows[j]]
Swapped(rows, i, j) == [rows EXCEPT ![i] = rows[j], ![j] = rows[i]]
Ranked(q) ==
    LET rows == Candidates(q)
        sorted[i \in 0 .. Len(rows)] ==
            IF i = 0 THEN rows ELSE Swapped(sorted[i - 1], i, BestFrom(sorted[i - 1], i, q))
    IN  sorted[Len(rows)]

Discover(q) ==
    /\ queriesSeen < MaxServed /\ queriesSeen' = queriesSeen + 1
    /\ \/ /\ answers[q].kept
          /\ answered' = [fresh |-> FALSE, rows |-> answers[q].rows]
          /\ hits' = hits + 1 /\ UNCHANGED answers
       \/ /\ ~answers[q].kept
          /\ answered' = [fresh |-> TRUE, rows |-> Ranked(q)]
          /\ answers' = [answers EXCEPT ![q] = [kept |-> TRUE, rows |-> Ranked(q)]]
          /\ UNCHANGED hits
    /\ UNCHANGED <<offered, shelf, arrivals, icy, walk>>

\* The ledger drops a temporary entry.
DropAnswer(q) ==
    /\ answers[q].kept
    /\ answers' = [answers EXCEPT ![q] = NotKept]
    /\ UNCHANGED <<offered, shelf, arrivals, icy, queriesSeen, hits, answered, walk>>

-----------------------------------------------------------------------------
(* get_agents.                                                             *)

\* The first index after a page that starts at from: past PageLimit agents, or past the end.
Filled(from, upto) == Cardinality({i \in from + 1 .. upto : Present(arrivals[i])})
PageEnd(from) ==
    LET full == {n \in from .. Len(arrivals) : Filled(from, n) = PageLimit}
    IN  IF full = {} THEN Len(arrivals) ELSE Min(full)

MutantNextCursor(end) == end + 1  \* a bug: the cursor skips the first index not read
NextCursor(end) == end

StartWalk ==
    /\ walk' = [next |-> 0, got |-> {}, stayed |-> {a \in FoundAgents : Present(a)}, state |-> "reading"]
    /\ walk.state = "none"
    /\ UNCHANGED <<offered, shelf, arrivals, icy>> /\ KeepServed

GetAgents ==
    /\ walk.state = "reading"
    /\ LET end == PageEnd(walk.next)
           rows == {arrivals[i] : i \in {j \in walk.next + 1 .. end : Present(arrivals[j])}}
       IN  walk' = [walk EXCEPT !.next = NextCursor(end), !.got = @ \cup rows,
                      !.state = IF end < Len(arrivals) THEN "reading" ELSE "done"]
    /\ UNCHANGED <<offered, shelf, arrivals, icy>> /\ KeepServed

-----------------------------------------------------------------------------
DiscoveryInit ==
    /\ offered = [a \in FoundAgents |-> Absent] /\ shelf = <<>> /\ arrivals = <<>> /\ icy = {}
    /\ answers = [q \in Queries |-> NotKept] /\ queriesSeen = 0 /\ hits = 0
    /\ answered = NoAnswer /\ walk = NoWalk

DiscoveryNext ==
    \/ \E a \in FoundAgents : \/ Depart(a) \/ Freeze(a)
                              \/ \E t \in Terms : Arrive(a, t) \/ UpdatePricing(a, t)
    \/ \E q \in Queries : Discover(q) \/ DropAnswer(q)
    \/ StartWalk \/ GetAgents

DiscoverySpec == DiscoveryInit /\ [][DiscoveryNext]_discoveryVars

-----------------------------------------------------------------------------
(* An answer computed anew is the candidates, each once, best score first  *)
(* (discover_agents' filters and its sort in place).                       *)
FreshAnswersAreRanked == [][\A q \in Queries : Discover(q) /\ answered'.fresh =>
    LET rows == answered'.rows IN
    /\ Range(rows) = {a \in FoundAgents : Suits(a, q)} /\ Len(rows) = Cardinality(Range(rows))
    /\ \A i, j \in DOMAIN rows : i < j => Composite(rows[i], q) >= Composite(rows[j], q)]_discoveryVars

(* A caller that follows the cursors to the end has seen every agent that  *)
(* was registered all the while, whoever came, left or came back between   *)
(* the pages (get_agents).                                                 *)
WalkMissesNobody == walk.state = "done" => walk.stayed \subseteq walk.got

(* Typed states, in which finished walks are complete.                     *)
DiscoveryInv == DiscoveryTypeOK /\ WalkMissesNobody
=============================================================================
