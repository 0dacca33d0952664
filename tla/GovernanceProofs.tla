-------------------------- MODULE GovernanceProofs --------------------------
(***************************************************************************)
(* Proofs about the contracts by which agents are held to their bonds and the*)
(* code to its owners: the registry with the disputes over its bonds, its  *)
(* multisig, versions, reputation records, searches and audit trail, the   *)
(* governance contract and the upgrade manager.                            *)
(***************************************************************************)
EXTENDS AgentGovernance, UpgradeManager, DisputeResolution,
        RegistryMultisig, RegistryVersions, AgentReputation, AgentDiscovery,
        RegistryAudit, DataTheorems

\* A sum of smaller summands is smaller, and sums add up.
LEMMA SumLeq ==
  ASSUME NEW f, NEW g, NEW S, IsFiniteSet(S),
         \A x \in S : f[x] \in Int /\ g[x] \in Int /\ f[x] <= g[x]
  PROVE  SumFunctionOnSet(f, S) <= SumFunctionOnSet(g, S)
<1> DEFINE G == {T \in SUBSET S : SumFunctionOnSet(f, T) <= SumFunctionOnSet(g, T)}
<1>1. ASSUME NEW T \in SUBSET S, \A V \in SUBSET T : V # T => V \in G
      PROVE  T \in G
  <2> DEFINE x == CHOOSE x \in T : TRUE
  <2>1. IsFiniteSet(T)
    BY FS_Subset
  <2>2. CASE T = {}
    <3>1. SumFunctionOnSet(f, T) = 0 /\ SumFunctionOnSet(g, T) = 0
      BY <2>2, SumEmpty
    <3> QED
      BY <3>1
  <2>3. CASE T # {}
    <3>1. x \in T /\ T \ {x} \in SUBSET T /\ T \ {x} # T /\ x \in S
      BY <2>3
    <3> HIDE DEF x
    <3>2. \A y \in T : f[y] \in Int /\ g[y] \in Int
      OBVIOUS
    <3>3. /\ SumFunctionOnSet(f, T) = f[x] + SumFunctionOnSet(f, T \ {x})
          /\ SumFunctionOnSet(g, T) = g[x] + SumFunctionOnSet(g, T \ {x})
      BY <2>1, <3>1, <3>2, SumTake
    <3>4. SumFunctionOnSet(f, T \ {x}) <= SumFunctionOnSet(g, T \ {x})
      BY <1>1, <3>1
    <3>5. IsFiniteSet(T \ {x})
      BY <2>1, FS_Subset
    <3>6. SumFunctionOnSet(f, T \ {x}) \in Int /\ SumFunctionOnSet(g, T \ {x}) \in Int
      BY <3>2, <3>5, SumType
    <3>7. f[x] \in Int /\ g[x] \in Int /\ f[x] <= g[x]
      BY <3>1
    <3>8. SumFunctionOnSet(f, T) <= SumFunctionOnSet(g, T)
      BY <3>3, <3>4, <3>6, <3>7
    <3> QED
      BY <3>8
  <2> QED
    BY <2>2, <2>3
<1> HIDE DEF G
<1>2. S \in G
  BY <1>1, SubsetInduction
<1> QED
  BY <1>2 DEF G

LEMMA SumPlus ==
  ASSUME NEW f, NEW g, NEW h, NEW S, IsFiniteSet(S),
         \A x \in S : f[x] \in Int /\ g[x] \in Int /\ h[x] = f[x] + g[x]
  PROVE  SumFunctionOnSet(h, S) = SumFunctionOnSet(f, S) + SumFunctionOnSet(g, S)
<1> DEFINE G == {T \in SUBSET S :
                   SumFunctionOnSet(h, T) = SumFunctionOnSet(f, T) + SumFunctionOnSet(g, T)}
<1>1. ASSUME NEW T \in SUBSET S, \A V \in SUBSET T : V # T => V \in G
      PROVE  T \in G
  <2> DEFINE x == CHOOSE x \in T : TRUE
  <2>1. IsFiniteSet(T)
    BY FS_Subset
  <2>2. CASE T = {}
    <3>1. /\ SumFunctionOnSet(f, T) = 0 /\ SumFunctionOnSet(g, T) = 0
          /\ SumFunctionOnSet(h, T) = 0
      BY <2>2, SumEmpty
    <3> QED
      BY <3>1
  <2>3. CASE T # {}
    <3>1. x \in T /\ T \ {x} \in SUBSET T /\ T \ {x} # T /\ x \in S
      BY <2>3
    <3> HIDE DEF x
    <3>2. \A y \in T : f[y] \in Int /\ g[y] \in Int /\ h[y] \in Int
      OBVIOUS
    <3>3. /\ SumFunctionOnSet(f, T) = f[x] + SumFunctionOnSet(f, T \ {x})
          /\ SumFunctionOnSet(g, T) = g[x] + SumFunctionOnSet(g, T \ {x})
          /\ SumFunctionOnSet(h, T) = h[x] + SumFunctionOnSet(h, T \ {x})
      BY <2>1, <3>1, <3>2, SumTake
    <3>4. SumFunctionOnSet(h, T \ {x})
            = SumFunctionOnSet(f, T \ {x}) + SumFunctionOnSet(g, T \ {x})
      BY <1>1, <3>1
    <3>5. IsFiniteSet(T \ {x})
      BY <2>1, FS_Subset
    <3>6. SumFunctionOnSet(f, T \ {x}) \in Int /\ SumFunctionOnSet(g, T \ {x}) \in Int
      BY <3>2, <3>5, SumType
    <3>7. f[x] \in Int /\ g[x] \in Int /\ h[x] = f[x] + g[x]
      BY <3>1
    <3>8. SumFunctionOnSet(h, T) = SumFunctionOnSet(f, T) + SumFunctionOnSet(g, T)
      BY <3>3, <3>4, <3>6, <3>7
    <3> QED
      BY <3>8
  <2> QED
    BY <2>2, <2>3
<1> HIDE DEF G
<1>2. S \in G
  BY <1>1, SubsetInduction
<1> QED
  BY <1>2 DEF G

-----------------------------------------------------------------------------
\* The elements of a finite set, each once.
LEMMA SetToSeqFacts ==
  ASSUME NEW T, IsFiniteSet(T), NEW S, T \subseteq S
  PROVE  /\ SetToSeq(T) \in Seq(S) /\ ToSet(SetToSeq(T)) = T /\ IsInjective(SetToSeq(T))
         /\ Len(SetToSeq(T)) = Cardinality(T)
<1> DEFINE n == Cardinality(T)
<1>1. n \in Nat /\ ExistsBijection(1 .. n, T)
  BY FS_CardinalityType
<1>2. \E f \in [1 .. n -> T] : IsInjective(f)
  <2>1. PICK f \in Bijection(1 .. n, T) : TRUE
    BY <1>1 DEF ExistsBijection
  <2>2. f \in [1 .. n -> T] /\ \A a, b \in 1 .. n : f[a] = f[b] => a = b
    BY <2>1 DEF Bijection, Injection, IsInjective
  <2> QED
    BY <2>2 DEF IsInjective
<1>3. PICK s : s = SetToSeq(T)
  OBVIOUS
<1>4. s \in [1 .. n -> T] /\ IsInjective(s)
  BY <1>2, <1>3 DEF SetToSeq
<1>5. DOMAIN s = 1 .. n /\ \A i \in 1 .. n : s[i] \in T
  BY <1>4
<1>6. s \in Seq(S) /\ Len(s) = n
  <2>1. s \in [1 .. n -> S]
    BY <1>4
  <2>2. s \in Seq(S)
    BY <1>1, <2>1, SeqDef
  <2> QED
    BY <1>1, <1>5, <2>2, LenProperties
<1>7. ToSet(s) = T
  <2>1. s \in Injection(1 .. n, T)
    BY <1>4, <1>5 DEF Injection, IsInjective
  <2>2. Cardinality(1 .. n) = n
    BY <1>1, FS_Interval
  <2>3. s \in Surjection(1 .. n, T)
    BY <2>1, <2>2, FS_Injection
  <2> QED
    BY <1>5, <2>3 DEF Surjection, ToSet
<1> QED
  BY <1>3, <1>4, <1>6, <1>7

\* What two sequences joined list.
LEMMA JoinedFacts ==
  ASSUME NEW S, NEW s \in Seq(S), NEW t \in Seq(S)
  PROVE  /\ s \o t \in Seq(S) /\ ToSet(s \o t) = ToSet(s) \cup ToSet(t)
         /\ Len(s \o t) = Len(s) + Len(t)
         /\ IsInjective(s) /\ IsInjective(t) /\ ToSet(s) \cap ToSet(t) = {} => IsInjective(s \o t)
<1> DEFINE m == Len(s)
           n == Len(t)
<1>1. /\ m \in Nat /\ n \in Nat /\ DOMAIN s = 1 .. m /\ DOMAIN t = 1 .. n
  BY SeqFacts
<1>2. PICK u : u = s \o t
  OBVIOUS
<1>3. u \in Seq(S) /\ Len(u) = m + n /\ DOMAIN u = 1 .. m + n
  <2>1. u \in Seq(S) /\ Len(u) = m + n
    BY <1>2, ConcatProperties
  <2> QED
    BY <2>1, SeqFacts
<1>4. \A i \in 1 .. m + n : u[i] = IF i <= m THEN s[i] ELSE t[i - m]
  BY <1>2, ConcatProperties
<1> HIDE DEF m, n
<1>5. ASSUME NEW i \in 1 .. m + n
      PROVE  \/ i \in 1 .. m /\ u[i] = s[i]
             \/ i - m \in 1 .. n /\ i > m /\ u[i] = t[i - m]
  BY <1>1, <1>4
<1>6. \A i \in 1 .. m : i \in 1 .. m + n /\ u[i] = s[i]
  BY <1>1, <1>4
<1>7. \A j \in 1 .. n : j + m \in 1 .. m + n /\ u[j + m] = t[j]
  BY <1>1, <1>4
<1>8. ToSet(u) = ToSet(s) \cup ToSet(t)
  <2>1. ToSet(u) \subseteq ToSet(s) \cup ToSet(t)
    BY <1>1, <1>3, <1>5 DEF ToSet
  <2>2. ToSet(s) \subseteq ToSet(u)
    BY <1>1, <1>3, <1>6 DEF ToSet
  <2>3. ToSet(t) \subseteq ToSet(u)
    BY <1>1, <1>3, <1>7 DEF ToSet
  <2> QED
    BY <2>1, <2>2, <2>3
<1>9. ASSUME IsInjective(s), IsInjective(t), ToSet(s) \cap ToSet(t) = {} PROVE IsInjective(u)
  <2> SUFFICES ASSUME NEW i \in 1 .. m + n, NEW j \in 1 .. m + n, u[i] = u[j] PROVE i = j
    BY <1>3 DEF IsInjective
  <2>1. CASE i \in 1 .. m /\ j \in 1 .. m
    BY <1>1, <1>6, <1>9, <2>1 DEF IsInjective
  <2>2. CASE i > m /\ j > m
    <3>1. i - m \in 1 .. n /\ j - m \in 1 .. n /\ t[i - m] = t[j - m]
      BY <1>1, <1>5, <2>2
    <3>2. i - m = j - m
      BY <1>1, <1>9, <3>1 DEF IsInjective
    <3> QED
      BY <1>1, <3>2
  <2>3. CASE i \in 1 .. m /\ j > m
    <3>1. u[i] \in ToSet(s)
      BY <1>1, <1>6, <2>3 DEF ToSet
    <3>2. u[j] \in ToSet(t)
      BY <1>1, <1>5, <2>3 DEF ToSet
    <3> QED
      BY <1>9, <3>1, <3>2
  <2>4. CASE j \in 1 .. m /\ i > m
    <3>1. u[j] \in ToSet(s)
      BY <1>1, <1>6, <2>4 DEF ToSet
    <3>2. u[i] \in ToSet(t)
      BY <1>1, <1>5, <2>4 DEF ToSet
    <3> QED
      BY <1>9, <3>1, <3>2
  <2>5. (i \in 1 .. m \/ i > m) /\ (j \in 1 .. m \/ j > m)
    BY <1>1
  <2> QED
    BY <2>1, <2>2, <2>3, <2>4, <2>5
<1> QED
  BY <1>2, <1>3, <1>8, <1>9 DEF m, n

\* The loop that leaves a out, up to its last round.
Updated(c, a, last, it) ==
  it = [i \in 0 .. last |->
          IF i = 0 THEN <<>> ELSE IF c[i] # a THEN Append(it[i - 1], c[i]) ELSE it[i - 1]]

LEMMA UpdatedExists ==
  ASSUME NEW c, NEW a
  PROVE  \A n \in Nat : \E it : Updated(c, a, n, it)
<1> DEFINE G == {n \in Nat : \E it : Updated(c, a, n, it)}
           next(i, x) == IF c[i] # a THEN Append(x, c[i]) ELSE x
<1>1. 0 \in G
  <2> DEFINE it == [i \in 0 .. 0 |-> <<>>]
  <2>1. Updated(c, a, 0, it)
    BY DEF Updated
  <2> QED
    BY <2>1
<1>2. ASSUME NEW n \in Nat, n \in G PROVE n + 1 \in G
  <2>1. PICK it : Updated(c, a, n, it)
    BY <1>2
  <2> DEFINE more == [i \in 0 .. n + 1 |-> IF i = n + 1 THEN next(i, it[n]) ELSE it[i]]
             again == [i \in 0 .. n + 1 |-> IF i = 0 THEN <<>> ELSE next(i, more[i - 1])]
  <2>2. \A i \in 0 .. n : it[i] = IF i = 0 THEN <<>> ELSE next(i, it[i - 1])
    BY <2>1 DEF Updated
  <2> HIDE DEF next
  <2>3. \A i \in 0 .. n + 1 : more[i] = again[i]
    <3> SUFFICES ASSUME NEW i \in 0 .. n + 1 PROVE more[i] = again[i]
      OBVIOUS
    <3>1. CASE i = 0
      BY <2>2, <3>1
    <3>2. CASE i = n + 1
      <4>1. i # 0 /\ i - 1 = n /\ more[n] = it[n]
        BY <3>2
      <4> QED
        BY <3>2, <4>1
    <3>3. CASE i \in 1 .. n
      <4>1. i # 0 /\ i # n + 1 /\ i - 1 \in 0 .. n /\ i \in 0 .. n
        BY <3>3
      <4>2. more[i - 1] = it[i - 1] /\ more[i] = it[i]
        BY <4>1
      <4> QED
        BY <2>2, <4>1, <4>2
    <3> QED
      BY <3>1, <3>2, <3>3
  <2>4. more = again
    BY <2>3
  <2> HIDE DEF more
  <2>5. Updated(c, a, n + 1, more)
    BY <2>4 DEF Updated, next
  <2> QED
    BY <2>5
<1> HIDE DEF G
<1>3. \A n \in Nat : n \in G
  BY <1>1, <1>2, NatSetInduction
<1> QED
  BY <1>3 DEF G

\* It lists every other element, and none twice if none was listed twice before.
LEMMA UnlistFacts ==
  ASSUME NEW S, NEW c \in Seq(S), NEW a
  PROVE  /\ Unlist(c, a) \in Seq(S) /\ ToSet(Unlist(c, a)) = ToSet(c) \ {a}
         /\ IsInjective(c) => IsInjective(Unlist(c, a))
<1> DEFINE n == Len(c)
<1>1. n \in Nat /\ DOMAIN c = 1 .. n /\ \A i \in 1 .. n : c[i] \in S
  BY SeqFacts
<1>2. PICK it : Updated(c, a, n, it) /\ Unlist(c, a) = it[n]
  <2> DEFINE best == CHOOSE it : it = [i \in 0 .. Len(c) |->
                       IF i = 0 THEN <<>>
                       ELSE IF c[i] # a THEN Append(it[i - 1], c[i]) ELSE it[i - 1]]
  <2>1. \E it : Updated(c, a, n, it)
    BY <1>1, UpdatedExists
  <2>2. Updated(c, a, n, best)
    BY <2>1 DEF Updated
  <2>3. Unlist(c, a) = best[n]
    BY DEF Unlist
  <2> HIDE DEF best
  <2> QED
    BY <2>2, <2>3
<1> HIDE DEF n
<1> DEFINE listed(i) == {c[j] : j \in 1 .. i} \ {a}
           G == {i \in Nat : i <= n =>
                   /\ it[i] \in Seq(S) /\ ToSet(it[i]) = listed(i)
                   /\ IsInjective(c) => IsInjective(it[i])}
<1>3. 0 \in G
  <2>1. it[0] = <<>>
    BY <1>1, <1>2 DEF Updated
  <2>2. <<>> \in Seq(S) /\ DOMAIN <<>> = {}
    BY EmptySeq
  <2>3. ToSet(<<>>) = listed(0) /\ IsInjective(<<>>)
    BY <2>2 DEF ToSet, IsInjective
  <2> QED
    BY <2>1, <2>2, <2>3
<1>4. ASSUME NEW i \in Nat, i \in G PROVE i + 1 \in G
  <2> SUFFICES ASSUME i + 1 <= n
               PROVE  /\ it[i + 1] \in Seq(S) /\ ToSet(it[i + 1]) = listed(i + 1)
                      /\ IsInjective(c) => IsInjective(it[i + 1])
    OBVIOUS
  <2>1. PICK s, x : s = it[i] /\ x = c[i + 1]
    OBVIOUS
  <2>2. i + 1 \in 1 .. n /\ i + 1 \in 0 .. n /\ i <= n /\ (i + 1) - 1 = i /\ i + 1 # 0
    BY <1>1
  <2>3. it[i + 1] = IF x # a THEN Append(s, x) ELSE s
    BY <1>2, <2>1, <2>2 DEF Updated
  <2>4. s \in Seq(S) /\ ToSet(s) = listed(i) /\ (IsInjective(c) => IsInjective(s))
    BY <1>4, <2>1, <2>2
  <2>5. x \in S /\ (IsInjective(c) => x \notin listed(i))
    <3>1. x \in S
      BY <1>1, <2>1, <2>2
    <3>2. ASSUME IsInjective(c), x \in listed(i) PROVE FALSE
      <4>1. PICK j \in 1 .. i : c[j] = x
        BY <3>2
      <4>2. j \in 1 .. n /\ j # i + 1
        BY <2>2, <1>1
      <4> QED
        BY <1>1, <2>1, <2>2, <3>2, <4>1, <4>2 DEF IsInjective
    <3> QED
      BY <3>1, <3>2
  <2>6. {c[j] : j \in 1 .. i + 1} = {c[j] : j \in 1 .. i} \cup {x}
    <3>1. \A j \in 1 .. i + 1 : j \in 1 .. i \/ j = i + 1
      OBVIOUS
    <3>2. \A j \in 1 .. i : j \in 1 .. i + 1
      OBVIOUS
    <3>3. i + 1 \in 1 .. i + 1
      OBVIOUS
    <3> QED
      BY <2>1, <3>1, <3>2, <3>3
  <2>7. CASE x = a
    BY <2>3, <2>4, <2>6, <2>7
  <2>8. CASE x # a
    <3>1. listed(i + 1) = listed(i) \cup {x}
      BY <2>6, <2>8
    <3>2. PICK t : t = Append(s, x)
      OBVIOUS
    <3>3. /\ t \in Seq(S) /\ Len(t) = Len(s) + 1 /\ t[Len(s) + 1] = x
          /\ \A j \in 1 .. Len(s) : t[j] = s[j]
      BY <2>4, <2>5, <3>2, AppendProperties
    <3>4. /\ Len(s) \in Nat /\ DOMAIN s = 1 .. Len(s) /\ DOMAIN t = 1 .. Len(s) + 1
      BY <2>4, <3>3, SeqFacts
    <3>5. \A j \in 1 .. Len(s) + 1 : j \in 1 .. Len(s) \/ j = Len(s) + 1
      BY <3>4
    <3>6. Len(s) + 1 \in 1 .. Len(s) + 1 /\ \A j \in 1 .. Len(s) : j \in 1 .. Len(s) + 1
      BY <3>4
    <3>7. ToSet(t) = ToSet(s) \cup {x}
      BY <3>3, <3>4, <3>5, <3>6 DEF ToSet
    <3>8. ASSUME IsInjective(c) PROVE IsInjective(t)
      <4>1. \A j \in 1 .. Len(s) : s[j] # x
        BY <2>4, <2>5, <3>4, <3>8 DEF ToSet
      <4>2. \A j, k \in 1 .. Len(s) : s[j] = s[k] => j = k
        BY <2>4, <3>4, <3>8 DEF IsInjective
      <4> QED
        BY <3>3, <3>4, <3>5, <4>1, <4>2 DEF IsInjective
    <3> HIDE DEF listed
    <3> QED
      BY <2>3, <2>4, <2>8, <3>1, <3>2, <3>3, <3>7, <3>8
  <2> QED
    BY <2>7, <2>8
<1> HIDE DEF G
<1>5. n \in G
  BY <1>1, <1>3, <1>4, NatSetInduction
<1>6. listed(n) = ToSet(c) \ {a}
  BY <1>1 DEF ToSet
<1> HIDE DEF listed
<1> QED
  BY <1>1, <1>2, <1>5, <1>6 DEF G

-----------------------------------------------------------------------------
AgentRecs == [owner : Owners \cup {NoOwner}, cap : Capabilities \cup {NoOwner}, bond : Nat]
BondRecs  == [owner : Owners \cup {NoOwner}, amount : Nat, until : Nat,
              status : {"none", "active", "cooldown", "slashed", "returned"}]
CoolRecs  == [owner : Owners \cup {NoOwner}, amount : Nat, until : Nat]

Greater(m, n) == IF m >= n THEN m ELSE n

\* The most that can still be announced for an agent.  Without a registration the bond and
\* the cooldown record stand for the same money; an agent that registers again while it
\* cools has brought a second bond.  The record of the agent and that of its bond part when
\* the cooldown of the first is returned.
DueOf(g, b, c) ==
  IF g.owner # NoOwner THEN Greater(g.bond, b.amount) + c.amount
                       ELSE Greater(b.amount, c.amount)
Dues == [a \in AgentIds |-> DueOf(agentRec[a], bondRec[a], cooling[a])]
Covered == paidOut + rewardPool + SumFunctionOnSet(Dues, AgentIds) <= paidIn

RegistryStands ==
  \A a \in AgentIds :
    /\ Registered(a) => agentRec[a].cap \in Capabilities /\ HasBond(a)
    /\ ~IsCooling(a) => cooling[a].amount = 0
    /\ IsCooling(a) /\ ~Registered(a) => BondIs(a, "cooldown")

RegistryIInv == RegistryTypeOK /\ IndexesAgree /\ Covered /\ RegistryStands

LEMMA RegistryNumbers ==
  /\ IsFiniteSet(AgentIds) /\ NoOwner \notin Owners /\ BondAmounts \subseteq Nat
  /\ MinBonds \subseteq Nat /\ MinBonds # {} /\ SlaPenalty \in 0 .. 100
  /\ BondCooldown \in Nat /\ MaxBrought \in Nat /\ MaxAdminActs \in Nat /\ LedgerEnd \in Nat
  /\ MaxRegistrations \in Nat
BY RegistryAssumption

LEMMA RegistryTypes ==
  ASSUME RegistryTypeOK
  PROVE  /\ agentRec \in [AgentIds -> AgentRecs] /\ bondRec \in [AgentIds -> BondRecs]
         /\ cooling \in [AgentIds -> CoolRecs]
         /\ total \in Nat /\ rewardPool \in Nat /\ paidIn \in Nat /\ paidOut \in Nat
         /\ minBond \in Nat /\ ledger \in Nat
         /\ held \subseteq AgentIds /\ flagged \subseteq AgentIds
         /\ frozen \subseteq AgentIds /\ slaSet \subseteq AgentIds
         /\ capIndex \in [Capabilities -> Seq(AgentIds)] /\ sequenceOf \in Seq(AgentIds)
<1>1. minBond \in Nat
  BY RegistryNumbers DEF RegistryTypeOK
<1>2. ledger \in Nat
  <2>1. ledger \in 0 .. LedgerEnd
    BY DEF RegistryTypeOK
  <2> QED
    BY <2>1, RegistryNumbers
<1> QED
  BY <1>1, <1>2 DEF RegistryTypeOK, AgentRecs, BondRecs, CoolRecs

LEMMA RecordTypes ==
  ASSUME RegistryTypeOK, NEW a \in AgentIds
  PROVE  /\ agentRec[a] \in AgentRecs /\ agentRec[a].bond \in Nat
         /\ bondRec[a] \in BondRecs /\ bondRec[a].amount \in Nat
         /\ cooling[a] \in CoolRecs /\ cooling[a].amount \in Nat
<1>1. agentRec[a] \in AgentRecs /\ bondRec[a] \in BondRecs /\ cooling[a] \in CoolRecs
  BY RegistryTypes
<1> QED
  BY <1>1 DEF AgentRecs, BondRecs, CoolRecs

LEMMA DueType ==
  ASSUME NEW g \in AgentRecs, NEW b \in BondRecs, NEW c \in CoolRecs
  PROVE  DueOf(g, b, c) \in Nat /\ b.amount <= DueOf(g, b, c)
<1>1. g.bond \in Nat /\ b.amount \in Nat /\ c.amount \in Nat
  BY DEF AgentRecs, BondRecs, CoolRecs
<1> QED
  BY <1>1 DEF DueOf, Greater

LEMMA DuesType ==
  ASSUME RegistryTypeOK
  PROVE  /\ \A a \in AgentIds : Dues[a] \in Nat /\ bondRec[a].amount <= Dues[a]
         /\ SumFunctionOnSet(Dues, AgentIds) \in Nat
<1>1. ASSUME NEW a \in AgentIds PROVE Dues[a] \in Nat /\ bondRec[a].amount <= Dues[a]
  BY RecordTypes, DueType DEF Dues
<1> QED
  BY <1>1, RegistryNumbers, SumNat

\* What is due covers what is held.
LEMMA CoveredPays ==
  ASSUME RegistryTypeOK, Covered
  PROVE  PaysBackWhatCameIn
<1> DEFINE amounts == [a \in AgentIds |-> bondRec[a].amount]
<1>1. \A a \in AgentIds : amounts[a] \in Int /\ Dues[a] \in Int /\ amounts[a] <= Dues[a]
  BY RecordTypes, DuesType
<1> HIDE DEF amounts
<1>2. SumFunctionOnSet(amounts, AgentIds) <= SumFunctionOnSet(Dues, AgentIds)
  BY <1>1, RegistryNumbers, SumLeq
<1>3. SumFunctionOnSet(amounts, AgentIds) \in Int /\ SumFunctionOnSet(Dues, AgentIds) \in Int
  BY <1>1, RegistryNumbers, SumType
<1>4. paidOut + rewardPool + SumFunctionOnSet(amounts, AgentIds) <= paidIn
  BY <1>2, <1>3, RegistryTypes DEF Covered
<1> QED
  BY <1>4 DEF PaysBackWhatCameIn, amounts

\* The types of what administrators set.
LEMMA KeptAdmin ==
  ASSUME RegistryTypeOK, KeepAdmin
  PROVE  /\ frozen' \subseteq AgentIds /\ slaSet' \subseteq AgentIds
         /\ minBond' \in MinBonds /\ registryPaused' \in BOOLEAN
         /\ adminActs' \in 0 .. MaxAdminActs /\ ledger' \in 0 .. LedgerEnd
BY DEF RegistryTypeOK, KeepAdmin

LEMMA RegistryTyped ==
  ASSUME agentRec' \in [AgentIds -> AgentRecs], bondRec' \in [AgentIds -> BondRecs],
         cooling' \in [AgentIds -> CoolRecs], held' \subseteq AgentIds, flagged' \subseteq AgentIds,
         capIndex' \in [Capabilities -> Seq(AgentIds)], sequenceOf' \in Seq(AgentIds),
         total' \in Nat, rewardPool' \in Nat, paidIn' \in Nat, paidOut' \in Nat,
         frozen' \subseteq AgentIds, slaSet' \subseteq AgentIds,
         minBond' \in MinBonds, registryPaused' \in BOOLEAN,
         adminActs' \in 0 .. MaxAdminActs, ledger' \in 0 .. LedgerEnd
  PROVE  RegistryTypeOK'
BY DEF RegistryTypeOK, AgentRecs, BondRecs, CoolRecs

\* The indexes depend on who is registered and under what.
LEMMA SameIndexes ==
  ASSUME IndexesAgree, UNCHANGED indexVars,
         \A a \in AgentIds : /\ agentRec'[a].owner = agentRec[a].owner
                             /\ agentRec'[a].cap = agentRec[a].cap
  PROVE  IndexesAgree'
<1>1. \A a \in AgentIds : Registered(a)' <=> Registered(a)
  BY DEF Registered
<1>2. {a \in AgentIds : Registered(a)'} = {a \in AgentIds : Registered(a)}
  BY <1>1
<1>3. \A c \in Capabilities :
        {a \in AgentIds : Registered(a)' /\ agentRec'[a].cap = c}
          = {a \in AgentIds : Registered(a) /\ agentRec[a].cap = c}
  BY <1>1
<1> QED
  BY <1>2, <1>3 DEF IndexesAgree, indexVars

\* A call that works on one agent's bond, and pays no more than it lessens what is due.
LEMMA OneBond ==
  ASSUME RegistryIInv, NEW a \in AgentIds,
         agentRec' \in [AgentIds -> AgentRecs], bondRec' \in [AgentIds -> BondRecs],
         cooling' \in [AgentIds -> CoolRecs],
         \A x \in AgentIds \ {a} : /\ agentRec'[x] = agentRec[x] /\ bondRec'[x] = bondRec[x]
                                   /\ cooling'[x] = cooling[x],
         agentRec'[a].owner = agentRec[a].owner, agentRec'[a].cap = agentRec[a].cap,
         Registered(a) => bondRec'[a].status # "none",
         cooling'[a].owner = NoOwner => cooling'[a].amount = 0,
         cooling'[a].owner # NoOwner /\ ~Registered(a) => bondRec'[a].status = "cooldown",
         paidIn' \in Nat, paidOut' \in Nat, rewardPool' \in Nat,
         paidOut' + rewardPool' + DueOf(agentRec'[a], bondRec'[a], cooling'[a]) + paidIn
           <= paidOut + rewardPool + DueOf(agentRec[a], bondRec[a], cooling[a]) + paidIn',
         held' \subseteq AgentIds, flagged' \subseteq AgentIds,
         UNCHANGED indexVars, KeepAdmin
  PROVE  RegistryIInv'
<1>1. RegistryTypeOK /\ IndexesAgree /\ Covered /\ RegistryStands
  BY DEF RegistryIInv
<1>2. RegistryTypeOK'
  <2>1. /\ capIndex' \in [Capabilities -> Seq(AgentIds)] /\ sequenceOf' \in Seq(AgentIds)
        /\ total' \in Nat
    BY <1>1, RegistryTypes DEF indexVars
  <2> QED
    BY <1>1, <2>1, KeptAdmin, RegistryTyped
<1>3. IndexesAgree'
  BY <1>1, SameIndexes
<1>4. Covered'
  <2>1. PICK f, g : f = Dues /\ g = Dues'
    OBVIOUS
  <2>2. \A x \in AgentIds : f[x] \in Int
    BY <1>1, <2>1, DuesType
  <2>3. /\ g[a] = DueOf(agentRec'[a], bondRec'[a], cooling'[a]) /\ g[a] \in Int
        /\ f[a] = DueOf(agentRec[a], bondRec[a], cooling[a])
    <3>1. agentRec'[a] \in AgentRecs /\ bondRec'[a] \in BondRecs /\ cooling'[a] \in CoolRecs
      OBVIOUS
    <3>2. PICK x, y, z : x = agentRec'[a] /\ y = bondRec'[a] /\ z = cooling'[a]
      OBVIOUS
    <3>3. DueOf(x, y, z) \in Int
      BY <3>1, <3>2, DueType
    <3>4. g[a] = DueOf(x, y, z)
      BY <2>1, <3>2 DEF Dues
    <3> QED
      BY <2>1, <3>2, <3>3, <3>4 DEF Dues
  <2>4. \A x \in AgentIds : x # a => g[x] = f[x]
    BY <2>1 DEF Dues
  <2>5. \A x \in AgentIds : f[x] \in Int /\ g[x] \in Int
    BY <2>2, <2>3, <2>4
  <2>6. SumFunctionOnSet(g, AgentIds) = SumFunctionOnSet(f, AgentIds) + g[a] - f[a]
    BY <2>4, <2>5, RegistryNumbers, SumChange
  <2>7. SumFunctionOnSet(f, AgentIds) \in Int
    BY <2>2, RegistryNumbers, SumType
  <2>8. paidOut + rewardPool + SumFunctionOnSet(f, AgentIds) <= paidIn
    BY <1>1, <2>1 DEF Covered
  <2>9. paidOut' + rewardPool' + g[a] + paidIn <= paidOut + rewardPool + f[a] + paidIn'
    BY <2>3
  <2>10. f[a] \in Int /\ g[a] \in Int
    BY <2>5
  <2>11. paidOut \in Nat /\ rewardPool \in Nat /\ paidIn \in Nat
    BY <1>1, RegistryTypes
  <2>12. paidOut' + rewardPool' + SumFunctionOnSet(g, AgentIds) <= paidIn'
    BY <2>6, <2>7, <2>8, <2>9, <2>10, <2>11
  <2> QED
    BY <2>1, <2>12 DEF Covered
<1>5. RegistryStands'
  <2> SUFFICES ASSUME NEW x \in AgentIds
               PROVE  /\ Registered(x)' => agentRec'[x].cap \in Capabilities /\ HasBond(x)'
                      /\ ~IsCooling(x)' => cooling'[x].amount = 0
                      /\ IsCooling(x)' /\ ~Registered(x)' => BondIs(x, "cooldown")'
    BY DEF RegistryStands
  <2>1. CASE x = a
    BY <1>1, <2>1 DEF RegistryStands, Registered, HasBond, IsCooling, BondIs
  <2>2. CASE x # a
    BY <1>1, <2>2 DEF RegistryStands, Registered, HasBond, IsCooling, BondIs
  <2> QED
    BY <2>1, <2>2
<1> QED
  BY <1>2, <1>3, <1>4, <1>5 DEF RegistryIInv

-----------------------------------------------------------------------------
\* The records of one agent, named.
LEMMA OneAgent ==
  ASSUME RegistryIInv, NEW a \in AgentIds
  PROVE  \E g \in AgentRecs, b \in BondRecs, c \in CoolRecs :
           /\ g = agentRec[a] /\ b = bondRec[a] /\ c = cooling[a]
           /\ g.bond \in Nat /\ b.amount \in Nat /\ c.amount \in Nat
           /\ paidIn \in Nat /\ paidOut \in Nat /\ rewardPool \in Nat
           /\ ledger \in Nat /\ minBond \in Nat
           /\ held \subseteq AgentIds /\ flagged \subseteq AgentIds
           /\ agentRec \in [AgentIds -> AgentRecs] /\ bondRec \in [AgentIds -> BondRecs]
           /\ cooling \in [AgentIds -> CoolRecs]
           /\ Registered(a) <=> g.owner # NoOwner
           /\ IsCooling(a) <=> c.owner # NoOwner
           /\ g.owner # NoOwner => b.status # "none"
           /\ c.owner = NoOwner => c.amount = 0
           /\ c.owner # NoOwner /\ g.owner = NoOwner => b.status = "cooldown"
<1>1. RegistryTypeOK /\ RegistryStands
  BY DEF RegistryIInv
<1>2. /\ agentRec[a] \in AgentRecs /\ agentRec[a].bond \in Nat
      /\ bondRec[a] \in BondRecs /\ bondRec[a].amount \in Nat
      /\ cooling[a] \in CoolRecs /\ cooling[a].amount \in Nat
  BY <1>1, RecordTypes
<1>3. /\ agentRec[a].owner # NoOwner => bondRec[a].status # "none"
      /\ cooling[a].owner = NoOwner => cooling[a].amount = 0
      /\ cooling[a].owner # NoOwner /\ agentRec[a].owner = NoOwner => bondRec[a].status = "cooldown"
  BY <1>1 DEF RegistryStands, Registered, HasBond, IsCooling, BondIs
<1>4. /\ paidIn \in Nat /\ paidOut \in Nat /\ rewardPool \in Nat
      /\ ledger \in Nat /\ minBond \in Nat
      /\ held \subseteq AgentIds /\ flagged \subseteq AgentIds
      /\ agentRec \in [AgentIds -> AgentRecs] /\ bondRec \in [AgentIds -> BondRecs]
      /\ cooling \in [AgentIds -> CoolRecs]
  BY <1>1, RegistryTypes
<1> QED
  BY <1>2, <1>3, <1>4 DEF Registered, IsCooling

\* What SetBond writes.
LEMMA SetBondWrites ==
  ASSUME bondRec \in [AgentIds -> BondRecs], NEW a \in AgentIds, NEW n \in Nat,
         NEW status \in {"active", "slashed", "returned"}, SetBond(a, n, status)
  PROVE  /\ bondRec' \in [AgentIds -> BondRecs]
         /\ bondRec'[a].amount = n /\ bondRec'[a].status = status
         /\ \A x \in AgentIds \ {a} : bondRec'[x] = bondRec[x]
<1> DEFINE rec == [bondRec[a] EXCEPT !.amount = n, !.status = status, !.until = 0]
<1>1. status # "cooldown"
  OBVIOUS
<1>2. bondRec' = [bondRec EXCEPT ![a] = rec]
  BY <1>1 DEF SetBond
<1>3. rec \in BondRecs /\ rec.amount = n /\ rec.status = status
  BY DEF BondRecs
<1> QED
  BY <1>2, <1>3

\* An agent's record with another bond.
LEMMA BondWrites ==
  ASSUME agentRec \in [AgentIds -> AgentRecs], NEW a \in AgentIds, NEW n \in Nat,
         agentRec' = [agentRec EXCEPT ![a].bond = n]
  PROVE  /\ agentRec' \in [AgentIds -> AgentRecs] /\ agentRec'[a].bond = n
         /\ agentRec'[a].owner = agentRec[a].owner /\ agentRec'[a].cap = agentRec[a].cap
         /\ \A x \in AgentIds \ {a} : agentRec'[x] = agentRec[x]
BY DEF AgentRecs

LEMMA ReturnStep ==
  ASSUME RegistryIInv, NEW a \in AgentIds, ReturnCooled(a)
  PROVE  RegistryIInv'
<1>1. PICK g \in AgentRecs, b \in BondRecs, c \in CoolRecs :
           /\ g = agentRec[a] /\ b = bondRec[a] /\ c = cooling[a]
           /\ g.bond \in Nat /\ b.amount \in Nat /\ c.amount \in Nat
           /\ paidIn \in Nat /\ paidOut \in Nat /\ rewardPool \in Nat
           /\ held \subseteq AgentIds /\ flagged \subseteq AgentIds
           /\ agentRec \in [AgentIds -> AgentRecs] /\ bondRec \in [AgentIds -> BondRecs]
           /\ cooling \in [AgentIds -> CoolRecs]
  BY OneAgent
<1>2. /\ paidOut' = paidOut + c.amount /\ cooling' = [cooling EXCEPT ![a] = NoCooldown]
      /\ bondRec' = [bondRec EXCEPT ![a].amount = 0, ![a].status = "returned", ![a].until = 0]
      /\ UNCHANGED <<agentRec, held, flagged, rewardPool, paidIn>>
      /\ UNCHANGED indexVars /\ KeepAdmin
  BY <1>1 DEF ReturnCooled, Uncooled
<1>3. /\ cooling' \in [AgentIds -> CoolRecs] /\ cooling'[a] = NoCooldown
      /\ \A x \in AgentIds \ {a} : cooling'[x] = cooling[x]
  BY <1>1, <1>2 DEF CoolRecs, NoCooldown
<1>4. /\ bondRec' \in [AgentIds -> BondRecs] /\ bondRec'[a].amount = 0
      /\ bondRec'[a].status = "returned" /\ \A x \in AgentIds \ {a} : bondRec'[x] = bondRec[x]
  BY <1>1, <1>2 DEF BondRecs
<1>5. cooling'[a].owner = NoOwner /\ cooling'[a].amount = 0
  BY <1>3 DEF NoCooldown
<1>6. PICK d : d = DueOf(agentRec'[a], bondRec'[a], cooling'[a])
  OBVIOUS
<1>7. d = IF g.owner # NoOwner THEN Greater(g.bond, 0) + 0 ELSE Greater(0, 0)
  BY <1>1, <1>2, <1>4, <1>5, <1>6 DEF DueOf
<1>8. d + c.amount <= DueOf(g, b, c) /\ d \in Nat /\ DueOf(g, b, c) \in Nat
  BY <1>1, <1>7 DEF DueOf, Greater
<1>9. paidOut' + rewardPool' + d + paidIn <= paidOut + rewardPool + DueOf(g, b, c) + paidIn'
  BY <1>1, <1>2, <1>8
<1> QED
  BY <1>1, <1>2, <1>3, <1>4, <1>5, <1>6, <1>9, OneBond

LEMMA DepositStep ==
  ASSUME RegistryIInv, NEW a \in AgentIds, NEW n \in BondAmounts,
         DepositBond(a, n) \/ RewardBond(a, n)
  PROVE  RegistryIInv'
<1>1. PICK g \in AgentRecs, b \in BondRecs, c \in CoolRecs :
           /\ g = agentRec[a] /\ b = bondRec[a] /\ c = cooling[a]
           /\ g.bond \in Nat /\ b.amount \in Nat /\ c.amount \in Nat
           /\ paidIn \in Nat /\ paidOut \in Nat /\ rewardPool \in Nat
           /\ held \subseteq AgentIds /\ flagged \subseteq AgentIds
           /\ agentRec \in [AgentIds -> AgentRecs] /\ bondRec \in [AgentIds -> BondRecs]
           /\ cooling \in [AgentIds -> CoolRecs]
           /\ Registered(a) <=> g.owner # NoOwner
           /\ c.owner = NoOwner => c.amount = 0
  BY OneAgent
<1>2. n \in Nat
  BY RegistryNumbers
<1>3. PICK sum : sum = b.amount + n
  OBVIOUS
<1>4. /\ Registered(a) /\ SetBond(a, sum, "active")
      /\ agentRec' = [agentRec EXCEPT ![a].bond = sum]
      /\ \/ paidIn' = paidIn + n /\ rewardPool' = rewardPool
         \/ paidIn' = paidIn /\ rewardPool >= n /\ rewardPool' = rewardPool - n
      /\ UNCHANGED <<cooling, held, flagged, paidOut>> /\ UNCHANGED indexVars /\ KeepAdmin
  BY <1>1, <1>3 DEF DepositBond, RewardBond, Bring
<1>5. sum \in Nat
  BY <1>1, <1>2, <1>3
<1>6. /\ bondRec' \in [AgentIds -> BondRecs]
      /\ bondRec'[a].amount = sum /\ bondRec'[a].status = "active"
      /\ \A x \in AgentIds \ {a} : bondRec'[x] = bondRec[x]
  BY <1>1, <1>4, <1>5, SetBondWrites
<1>7. /\ agentRec' \in [AgentIds -> AgentRecs] /\ agentRec'[a].bond = sum
      /\ agentRec'[a].owner = agentRec[a].owner /\ agentRec'[a].cap = agentRec[a].cap
      /\ \A x \in AgentIds \ {a} : agentRec'[x] = agentRec[x]
  BY <1>1, <1>4, <1>5, BondWrites
<1>8. PICK d : d = DueOf(agentRec'[a], bondRec'[a], cooling'[a])
  OBVIOUS
<1>9. d = sum + c.amount
  BY <1>1, <1>4, <1>5, <1>6, <1>7, <1>8 DEF DueOf, Greater
<1>10. d <= DueOf(g, b, c) + n /\ d \in Nat /\ DueOf(g, b, c) \in Nat
  BY <1>1, <1>2, <1>3, <1>4, <1>9 DEF DueOf, Greater
<1>11. paidOut' + rewardPool' + d + paidIn <= paidOut + rewardPool + DueOf(g, b, c) + paidIn'
  BY <1>1, <1>2, <1>4, <1>10
<1>12. paidIn' \in Nat /\ rewardPool' \in Nat /\ paidOut' \in Nat
  BY <1>1, <1>2, <1>4
<1> QED
  BY <1>1, <1>4, <1>6, <1>7, <1>8, <1>11, <1>12, OneBond

LEMMA RestoreStep ==
  ASSUME RegistryIInv, NEW a \in AgentIds, NEW n \in BondAmounts, RestoreSlashedBond(a, n)
  PROVE  RegistryIInv'
<1>1. PICK g \in AgentRecs, b \in BondRecs, c \in CoolRecs :
           /\ g = agentRec[a] /\ b = bondRec[a] /\ c = cooling[a]
           /\ g.bond \in Nat /\ b.amount \in Nat /\ c.amount \in Nat
           /\ paidIn \in Nat /\ paidOut \in Nat /\ rewardPool \in Nat
           /\ held \subseteq AgentIds /\ flagged \subseteq AgentIds
           /\ agentRec \in [AgentIds -> AgentRecs] /\ bondRec \in [AgentIds -> BondRecs]
           /\ cooling \in [AgentIds -> CoolRecs]
           /\ Registered(a) <=> g.owner # NoOwner
           /\ c.owner = NoOwner => c.amount = 0
           /\ c.owner # NoOwner /\ g.owner = NoOwner => b.status = "cooldown"
  BY OneAgent
<1>2. n \in Nat
  BY RegistryNumbers
<1>3. PICK sum, status : sum = b.amount + n /\ status = IF sum >= minBond THEN "active" ELSE "slashed"
  OBVIOUS
<1>4. /\ SetBond(a, sum, status) /\ b.status # "cooldown"
      /\ agentRec' = IF Registered(a) THEN [agentRec EXCEPT ![a].bond = sum] ELSE agentRec
      /\ paidIn' = paidIn + n
      /\ UNCHANGED <<cooling, held, flagged, rewardPool, paidOut>>
      /\ UNCHANGED indexVars /\ KeepAdmin
  BY <1>1, <1>3 DEF RestoreSlashedBond, Bring, BondIs
<1>5. sum \in Nat /\ status \in {"active", "slashed"}
  BY <1>1, <1>2, <1>3
<1>6. /\ bondRec' \in [AgentIds -> BondRecs]
      /\ bondRec'[a].amount = sum /\ bondRec'[a].status = status
      /\ \A x \in AgentIds \ {a} : bondRec'[x] = bondRec[x]
  BY <1>1, <1>4, <1>5, SetBondWrites
<1>7. /\ agentRec' \in [AgentIds -> AgentRecs]
      /\ Registered(a) => agentRec'[a].bond = sum
      /\ agentRec'[a].owner = agentRec[a].owner /\ agentRec'[a].cap = agentRec[a].cap
      /\ \A x \in AgentIds \ {a} : agentRec'[x] = agentRec[x]
  <2>1. CASE Registered(a)
    BY <1>1, <1>4, <1>5, <2>1, BondWrites
  <2>2. CASE ~Registered(a)
    BY <1>1, <1>4, <2>2
  <2> QED
    BY <2>1, <2>2
<1>8. PICK d : d = DueOf(agentRec'[a], bondRec'[a], cooling'[a])
  OBVIOUS
<1>9. d = sum + c.amount
  <2>1. CASE Registered(a)
    BY <1>1, <1>4, <1>5, <1>6, <1>7, <1>8, <2>1 DEF DueOf, Greater
  <2>2. CASE ~Registered(a)
    BY <1>1, <1>4, <1>5, <1>6, <1>7, <1>8, <2>2 DEF DueOf, Greater
  <2> QED
    BY <2>1, <2>2
<1>10. d <= DueOf(g, b, c) + n /\ d \in Nat /\ DueOf(g, b, c) \in Nat
  BY <1>1, <1>2, <1>3, <1>4, <1>9 DEF DueOf, Greater
<1>11. paidOut' + rewardPool' + d + paidIn <= paidOut + rewardPool + DueOf(g, b, c) + paidIn'
  BY <1>1, <1>2, <1>4, <1>10
<1>12. paidIn' \in Nat /\ rewardPool' \in Nat /\ paidOut' \in Nat
  BY <1>1, <1>2, <1>4
<1>13. /\ Registered(a) => bondRec'[a].status # "none"
       /\ cooling'[a].owner = NoOwner => cooling'[a].amount = 0
       /\ cooling'[a].owner # NoOwner /\ ~Registered(a) => bondRec'[a].status = "cooldown"
  BY <1>1, <1>4, <1>5, <1>6
<1> QED
  BY <1>1, <1>4, <1>6, <1>7, <1>8, <1>11, <1>12, <1>13, OneBond

LEMMA CoolStep ==
  ASSUME RegistryIInv, NEW a \in AgentIds, InitiateBondReturn(a)
  PROVE  RegistryIInv'
<1>1. PICK g \in AgentRecs, b \in BondRecs, c \in CoolRecs :
           /\ g = agentRec[a] /\ b = bondRec[a] /\ c = cooling[a]
           /\ g.bond \in Nat /\ b.amount \in Nat /\ c.amount \in Nat
           /\ paidIn \in Nat /\ paidOut \in Nat /\ rewardPool \in Nat /\ ledger \in Nat
           /\ held \subseteq AgentIds /\ flagged \subseteq AgentIds
           /\ agentRec \in [AgentIds -> AgentRecs] /\ bondRec \in [AgentIds -> BondRecs]
           /\ cooling \in [AgentIds -> CoolRecs]
           /\ c.owner = NoOwner => c.amount = 0
  BY OneAgent
<1>2. PICK until : until = ledger + BondCooldown
  OBVIOUS
<1>3. /\ bondRec' = [bondRec EXCEPT ![a].status = "cooldown", ![a].until = until]
      /\ UNCHANGED <<agentRec, cooling, held, flagged, rewardPool, paidIn, paidOut>>
      /\ UNCHANGED indexVars /\ KeepAdmin
  BY <1>2 DEF InitiateBondReturn
<1>4. until \in Nat
  BY <1>1, <1>2, RegistryNumbers
<1>5. /\ bondRec' \in [AgentIds -> BondRecs] /\ bondRec'[a].amount = b.amount
      /\ bondRec'[a].status = "cooldown" /\ \A x \in AgentIds \ {a} : bondRec'[x] = bondRec[x]
  BY <1>1, <1>3, <1>4 DEF BondRecs
<1>6. PICK d : d = DueOf(agentRec'[a], bondRec'[a], cooling'[a])
  OBVIOUS
<1>7. d = DueOf(g, b, c)
  BY <1>1, <1>3, <1>5, <1>6 DEF DueOf
<1>8. DueOf(g, b, c) \in Nat
  BY DueType
<1>9. paidOut' + rewardPool' + d + paidIn <= paidOut + rewardPool + DueOf(g, b, c) + paidIn'
  BY <1>1, <1>3, <1>7, <1>8
<1> QED
  BY <1>1, <1>3, <1>5, <1>6, <1>9, OneBond

LEMMA ClaimStep ==
  ASSUME RegistryIInv, NEW a \in AgentIds, ClaimBond(a)
  PROVE  RegistryIInv'
<1>1. PICK g \in AgentRecs, b \in BondRecs, c \in CoolRecs :
           /\ g = agentRec[a] /\ b = bondRec[a] /\ c = cooling[a]
           /\ g.bond \in Nat /\ b.amount \in Nat /\ c.amount \in Nat
           /\ paidIn \in Nat /\ paidOut \in Nat /\ rewardPool \in Nat
           /\ held \subseteq AgentIds /\ flagged \subseteq AgentIds
           /\ agentRec \in [AgentIds -> AgentRecs] /\ bondRec \in [AgentIds -> BondRecs]
           /\ cooling \in [AgentIds -> CoolRecs]
           /\ Registered(a) <=> g.owner # NoOwner
  BY OneAgent
<1>2. /\ paidOut' = paidOut + b.amount /\ cooling' = [cooling EXCEPT ![a] = NoCooldown]
      /\ SetBond(a, 0, "returned")
      /\ agentRec' = IF Registered(a) THEN [agentRec EXCEPT ![a].bond = 0] ELSE agentRec
      /\ UNCHANGED <<held, flagged, rewardPool, paidIn>>
      /\ UNCHANGED indexVars /\ KeepAdmin
  BY <1>1 DEF ClaimBond, Uncooled
<1>3. /\ cooling' \in [AgentIds -> CoolRecs] /\ cooling'[a] = NoCooldown
      /\ \A x \in AgentIds \ {a} : cooling'[x] = cooling[x]
  BY <1>1, <1>2 DEF CoolRecs, NoCooldown
<1>4. /\ bondRec' \in [AgentIds -> BondRecs]
      /\ bondRec'[a].amount = 0 /\ bondRec'[a].status = "returned"
      /\ \A x \in AgentIds \ {a} : bondRec'[x] = bondRec[x]
  BY <1>1, <1>2, 0 \in Nat, SetBondWrites
<1>5. cooling'[a].owner = NoOwner /\ cooling'[a].amount = 0
  BY <1>3 DEF NoCooldown
<1>6. /\ agentRec' \in [AgentIds -> AgentRecs]
      /\ Registered(a) => agentRec'[a].bond = 0
      /\ agentRec'[a].owner = agentRec[a].owner /\ agentRec'[a].cap = agentRec[a].cap
      /\ \A x \in AgentIds \ {a} : agentRec'[x] = agentRec[x]
  <2>1. CASE Registered(a)
    BY <1>1, <1>2, <2>1, 0 \in Nat, BondWrites
  <2>2. CASE ~Registered(a)
    BY <1>1, <1>2, <2>2
  <2> QED
    BY <2>1, <2>2
<1>7. PICK d : d = DueOf(agentRec'[a], bondRec'[a], cooling'[a])
  OBVIOUS
<1>8. d = 0
  BY <1>1, <1>4, <1>5, <1>6, <1>7 DEF DueOf, Greater
<1>9. b.amount <= DueOf(g, b, c) /\ DueOf(g, b, c) \in Nat
  BY DueType
<1>10. paidOut' + rewardPool' + d + paidIn <= paidOut + rewardPool + DueOf(g, b, c) + paidIn'
  BY <1>1, <1>2, <1>8, <1>9
<1> QED
  BY <1>1, <1>2, <1>3, <1>4, <1>5, <1>6, <1>7, <1>10, OneBond

\* A slash, whoever calls it and whether or not the lock goes with it.
LEMMA SlashStep ==
  ASSUME RegistryIInv, NEW a \in AgentIds, NEW n \in Nat, SlashInternal(a, n),
         held' \subseteq AgentIds
  PROVE  RegistryIInv'
<1>1. PICK g \in AgentRecs, b \in BondRecs, c \in CoolRecs :
           /\ g = agentRec[a] /\ b = bondRec[a] /\ c = cooling[a]
           /\ g.bond \in Nat /\ b.amount \in Nat /\ c.amount \in Nat
           /\ paidIn \in Nat /\ paidOut \in Nat /\ rewardPool \in Nat
           /\ held \subseteq AgentIds /\ flagged \subseteq AgentIds
           /\ agentRec \in [AgentIds -> AgentRecs] /\ bondRec \in [AgentIds -> BondRecs]
           /\ cooling \in [AgentIds -> CoolRecs]
           /\ Registered(a) <=> g.owner # NoOwner
           /\ g.owner # NoOwner => b.status # "none"
           /\ c.owner = NoOwner => c.amount = 0
           /\ c.owner # NoOwner /\ g.owner = NoOwner => b.status = "cooldown"
  BY OneAgent
<1>2. PICK p, left : p = Penalty(a, n) /\ left = g.bond - p
  OBVIOUS
<1>3. p \in Nat /\ left \in Nat /\ left + p = g.bond
  BY <1>1, <1>2 DEF Penalty
<1>4. /\ Registered(a) /\ agentRec' = [agentRec EXCEPT ![a].bond = left]
      /\ bondRec' = [bondRec EXCEPT ![a].amount = left,
                                    ![a].status = IF left = 0 THEN "slashed" ELSE "active"]
      /\ flagged' \subseteq flagged \cup {a} /\ rewardPool' = rewardPool + p
      /\ UNCHANGED <<cooling, paidIn, paidOut>> /\ UNCHANGED indexVars /\ KeepAdmin
  BY <1>1, <1>2 DEF SlashInternal, HasBond
<1>5. /\ bondRec' \in [AgentIds -> BondRecs] /\ bondRec'[a].amount = left
      /\ bondRec'[a].status \in {"slashed", "active"}
      /\ \A x \in AgentIds \ {a} : bondRec'[x] = bondRec[x]
  BY <1>1, <1>3, <1>4 DEF BondRecs
<1>6. /\ agentRec' \in [AgentIds -> AgentRecs] /\ agentRec'[a].bond = left
      /\ agentRec'[a].owner = agentRec[a].owner /\ agentRec'[a].cap = agentRec[a].cap
      /\ \A x \in AgentIds \ {a} : agentRec'[x] = agentRec[x]
  BY <1>1, <1>3, <1>4, BondWrites
<1>7. PICK d : d = DueOf(agentRec'[a], bondRec'[a], cooling'[a])
  OBVIOUS
<1>8. d = left + c.amount
  BY <1>1, <1>3, <1>4, <1>5, <1>6, <1>7 DEF DueOf, Greater
<1>9. d + p <= DueOf(g, b, c) /\ d \in Nat /\ DueOf(g, b, c) \in Nat
  BY <1>1, <1>3, <1>4, <1>8 DEF DueOf, Greater
<1>10. paidOut' + rewardPool' + d + paidIn <= paidOut + rewardPool + DueOf(g, b, c) + paidIn'
  BY <1>1, <1>3, <1>4, <1>9
<1>11. rewardPool' \in Nat /\ flagged' \subseteq AgentIds
  BY <1>1, <1>3, <1>4
<1>12. bondRec'[a].status # "none"
  BY <1>5
<1> QED
  BY <1>1, <1>4, <1>5, <1>6, <1>7, <1>10, <1>11, <1>12, OneBond

\* A percentage of a bond is no more than the bond.
LEMMA PartOf ==
  ASSUME NEW n \in Nat, NEW percent \in 0 .. 100
  PROVE  (n * percent) \div 100 \in Nat /\ (n * percent) \div 100 <= n
<1>1. PICK x : x = n * percent
  OBVIOUS
<1>2. PICK y : y = n * (100 - percent)
  OBVIOUS
<1>3. x \in Nat /\ y \in Nat
  BY <1>1, <1>2
<1>4. x + y = 100 * n
  BY <1>1, <1>2
<1>5. x \div 100 \in Nat /\ 100 * (x \div 100) <= x
  BY <1>3
<1>6. x \div 100 <= n
  BY <1>3, <1>4, <1>5
<1> QED
  BY <1>1, <1>5, <1>6

LEMMA SlaStep ==
  ASSUME RegistryIInv, NEW a \in AgentIds, CheckSlaCompliance(a)
  PROVE  RegistryIInv'
<1>1. PICK g \in AgentRecs, b \in BondRecs, c \in CoolRecs :
           /\ g = agentRec[a] /\ b = bondRec[a] /\ c = cooling[a]
           /\ g.bond \in Nat /\ b.amount \in Nat /\ c.amount \in Nat
           /\ paidIn \in Nat /\ paidOut \in Nat /\ rewardPool \in Nat
           /\ held \subseteq AgentIds /\ flagged \subseteq AgentIds
           /\ agentRec \in [AgentIds -> AgentRecs] /\ bondRec \in [AgentIds -> BondRecs]
           /\ cooling \in [AgentIds -> CoolRecs]
           /\ Registered(a) <=> g.owner # NoOwner
           /\ g.owner # NoOwner => b.status # "none"
           /\ c.owner = NoOwner => c.amount = 0
           /\ c.owner # NoOwner /\ g.owner = NoOwner => b.status = "cooldown"
  BY OneAgent
<1>2. PICK left : left = g.bond - (g.bond * SlaPenalty) \div 100
  OBVIOUS
<1>3. left \in Nat /\ left <= g.bond
  BY <1>1, <1>2, RegistryNumbers, PartOf
<1>4. /\ Registered(a) /\ agentRec' = [agentRec EXCEPT ![a].bond = left]
      /\ UNCHANGED <<bondRec, cooling, held, flagged, rewardPool, paidIn, paidOut>>
      /\ UNCHANGED indexVars /\ KeepAdmin
  <2>1. agentRec' = [agentRec EXCEPT ![a].bond =
                       agentRec[a].bond - (agentRec[a].bond * SlaPenalty) \div 100]
    BY <1>1 DEF CheckSlaCompliance, AgentRecs
  <2> QED
    BY <1>1, <1>2, <2>1 DEF CheckSlaCompliance
<1>6. /\ agentRec' \in [AgentIds -> AgentRecs] /\ agentRec'[a].bond = left
      /\ agentRec'[a].owner = agentRec[a].owner /\ agentRec'[a].cap = agentRec[a].cap
      /\ \A x \in AgentIds \ {a} : agentRec'[x] = agentRec[x]
  BY <1>1, <1>3, <1>4, BondWrites
<1>7. PICK d : d = DueOf(agentRec'[a], bondRec'[a], cooling'[a])
  OBVIOUS
<1>8. d = Greater(left, b.amount) + c.amount
  BY <1>1, <1>4, <1>6, <1>7 DEF DueOf
<1>9. d <= DueOf(g, b, c) /\ d \in Nat /\ DueOf(g, b, c) \in Nat
  BY <1>1, <1>3, <1>4, <1>8 DEF DueOf, Greater
<1>10. paidOut' + rewardPool' + d + paidIn <= paidOut + rewardPool + DueOf(g, b, c) + paidIn'
  BY <1>1, <1>4, <1>9
<1> QED
  BY <1>1, <1>4, <1>6, <1>7, <1>10, OneBond

-----------------------------------------------------------------------------
\* The first call of deregister_agent.
LEMMA LeaveStep ==
  ASSUME RegistryIInv, NEW a \in AgentIds, LeaveRegistry(a)
  PROVE  RegistryIInv'
<1>1. PICK g \in AgentRecs, b \in BondRecs, c \in CoolRecs :
           /\ g = agentRec[a] /\ b = bondRec[a] /\ c = cooling[a]
           /\ g.bond \in Nat /\ b.amount \in Nat /\ c.amount \in Nat
           /\ paidIn \in Nat /\ paidOut \in Nat /\ rewardPool \in Nat /\ ledger \in Nat
           /\ held \subseteq AgentIds /\ flagged \subseteq AgentIds
           /\ agentRec \in [AgentIds -> AgentRecs] /\ bondRec \in [AgentIds -> BondRecs]
           /\ cooling \in [AgentIds -> CoolRecs]
           /\ Registered(a) <=> g.owner # NoOwner
           /\ IsCooling(a) <=> c.owner # NoOwner
           /\ c.owner = NoOwner => c.amount = 0
  BY OneAgent
<1>2. PICK until, cap : until = ledger + BondCooldown /\ cap = g.cap
  OBVIOUS
<1>3. /\ Registered(a) /\ ~IsCooling(a)
      /\ capIndex' = [capIndex EXCEPT ![cap] = Unlist(capIndex[cap], a)]
      /\ total' = IF total > 0 THEN total - 1 ELSE 0
      /\ agentRec' = [agentRec EXCEPT ![a] = NoAgent]
      /\ cooling' = [cooling EXCEPT ![a] = [owner |-> g.owner, amount |-> g.bond, until |-> until]]
      /\ bondRec' = [bondRec EXCEPT ![a].status = "cooldown", ![a].until = until]
      /\ UNCHANGED <<held, flagged, sequenceOf, rewardPool, paidIn, paidOut>> /\ KeepAdmin
  <2>1. capIndex' = [capIndex EXCEPT ![cap] = Unlist(capIndex[cap], a)]
    BY <1>1, <1>2 DEF LeaveRegistry
  <2> QED
    BY <1>1, <1>2, <2>1 DEF LeaveRegistry
<1>4. RegistryTypeOK /\ IndexesAgree /\ Covered /\ RegistryStands
  BY DEF RegistryIInv
<1>5. /\ cap \in Capabilities /\ until \in Nat
  <2>1. cap \in Capabilities
    BY <1>1, <1>2, <1>3, <1>4 DEF RegistryStands
  <2> QED
    BY <1>1, <1>2, <2>1, RegistryNumbers
<1>6. /\ capIndex \in [Capabilities -> Seq(AgentIds)] /\ sequenceOf \in Seq(AgentIds) /\ total \in Nat
  BY <1>4, RegistryTypes
<1>7. /\ Unlist(capIndex[cap], a) \in Seq(AgentIds)
      /\ ToSet(Unlist(capIndex[cap], a)) = ToSet(capIndex[cap]) \ {a}
      /\ IsInjective(capIndex[cap]) => IsInjective(Unlist(capIndex[cap], a))
  BY <1>5, <1>6, UnlistFacts
<1>8. /\ capIndex' \in [Capabilities -> Seq(AgentIds)] /\ capIndex'[cap] = Unlist(capIndex[cap], a)
      /\ \A k \in Capabilities : k # cap => capIndex'[k] = capIndex[k]
  BY <1>3, <1>5, <1>6, <1>7
<1>9. /\ agentRec' \in [AgentIds -> AgentRecs] /\ agentRec'[a] = NoAgent
      /\ \A x \in AgentIds : x # a => agentRec'[x] = agentRec[x]
  <2>1. NoAgent \in AgentRecs
    BY DEF NoAgent, AgentRecs
  <2> QED
    BY <1>1, <1>3, <2>1
<1>10. /\ bondRec' \in [AgentIds -> BondRecs] /\ bondRec'[a].amount = b.amount
       /\ bondRec'[a].status = "cooldown"
       /\ \A x \in AgentIds : x # a => bondRec'[x] = bondRec[x]
  BY <1>1, <1>3, <1>5 DEF BondRecs
<1>11. /\ cooling' \in [AgentIds -> CoolRecs] /\ cooling'[a].amount = g.bond
       /\ cooling'[a].owner = g.owner
       /\ \A x \in AgentIds : x # a => cooling'[x] = cooling[x]
  <2>1. [owner |-> g.owner, amount |-> g.bond, until |-> until] \in CoolRecs
    BY <1>1, <1>5 DEF CoolRecs, AgentRecs
  <2> QED
    BY <1>1, <1>3, <2>1
<1>12. /\ ~Registered(a)' /\ \A x \in AgentIds : x # a => (Registered(x)' <=> Registered(x))
  BY <1>9 DEF Registered, NoAgent
<1>13. RegistryTypeOK'
  <2>1. total' \in Nat
    BY <1>3, <1>6
  <2>2. /\ rewardPool' \in Nat /\ paidIn' \in Nat /\ paidOut' \in Nat
        /\ held' \subseteq AgentIds /\ flagged' \subseteq AgentIds /\ sequenceOf' \in Seq(AgentIds)
    BY <1>1, <1>3, <1>6
  <2>3. KeepAdmin
    BY <1>3
  <2> QED
    BY <1>4, <1>8, <1>9, <1>10, <1>11, <2>1, <2>2, <2>3, KeptAdmin, RegistryTyped
<1>14. IndexesAgree'
  <2> DEFINE R == {x \in AgentIds : Registered(x)}
  <2>1. IsFiniteSet(R) /\ a \in R
    BY <1>3, RegistryNumbers, FS_Subset
  <2>2. {x \in AgentIds : Registered(x)'} = R \ {a}
    BY <1>12
  <2>3. Cardinality(R \ {a}) = Cardinality(R) - 1 /\ Cardinality(R) \in Nat
    BY <2>1, FS_RemoveElement, FS_CardinalityType
  <2>4. total = Cardinality(R)
    BY <1>4 DEF IndexesAgree
  <2>5. Cardinality(R) > 0
    BY <2>1, <2>3, FS_EmptySet
  <2>6. total' = Cardinality({x \in AgentIds : Registered(x)'})
    BY <1>3, <2>2, <2>3, <2>4, <2>5
  <2>7. ASSUME NEW k \in Capabilities
        PROVE  /\ ToSet(capIndex'[k]) = {x \in AgentIds : Registered(x)' /\ agentRec'[x].cap = k}
               /\ IsInjective(capIndex'[k])
    <3>1. /\ ToSet(capIndex[k]) = {x \in AgentIds : Registered(x) /\ agentRec[x].cap = k}
          /\ IsInjective(capIndex[k])
      BY <1>4 DEF IndexesAgree
    <3>2. {x \in AgentIds : Registered(x)' /\ agentRec'[x].cap = k}
            = {x \in AgentIds : Registered(x) /\ agentRec[x].cap = k} \ {a}
      BY <1>9, <1>12
    <3>3. CASE k = cap
      BY <1>7, <1>8, <3>1, <3>2, <3>3
    <3>4. CASE k # cap
      <4>1. a \notin {x \in AgentIds : Registered(x) /\ agentRec[x].cap = k}
        BY <1>1, <1>2, <3>4
      <4> QED
        BY <1>8, <3>1, <3>2, <3>4, <4>1
    <3> QED
      BY <3>3, <3>4
  <2> QED
    BY <2>6, <2>7 DEF IndexesAgree
<1>15. Covered'
  <2>1. Dues'[a] = Dues[a]
    <3>1. Dues[a] = Greater(g.bond, b.amount) + 0
      BY <1>1, <1>3 DEF Dues, DueOf
    <3>2. Dues'[a] = Greater(b.amount, g.bond)
      BY <1>9, <1>10, <1>11, RegistryNumbers DEF Dues, DueOf, NoAgent
    <3> QED
      BY <1>1, <3>1, <3>2 DEF Greater
  <2>2. \A x \in AgentIds : x # a => Dues'[x] = Dues[x]
    BY <1>9, <1>10, <1>11 DEF Dues
  <2>3. Dues' = Dues
    BY <2>1, <2>2 DEF Dues
  <2> QED
    BY <1>3, <1>4, <2>3 DEF Covered
<1>16. RegistryStands'
  <2> SUFFICES ASSUME NEW x \in AgentIds
               PROVE  /\ Registered(x)' => agentRec'[x].cap \in Capabilities /\ HasBond(x)'
                      /\ ~IsCooling(x)' => cooling'[x].amount = 0
                      /\ IsCooling(x)' /\ ~Registered(x)' => BondIs(x, "cooldown")'
    BY DEF RegistryStands
  <2>1. CASE x = a
    <3>1. IsCooling(a)'
      BY <1>1, <1>3, <1>11 DEF IsCooling
    <3> QED
      BY <1>10, <1>12, <2>1, <3>1 DEF BondIs
  <2>2. CASE x # a
    BY <1>4, <1>9, <1>10, <1>11, <2>2 DEF RegistryStands, Registered, HasBond, IsCooling, BondIs
  <2> QED
    BY <2>1, <2>2
<1> QED
  BY <1>13, <1>14, <1>15, <1>16 DEF RegistryIInv

\* register_agent and register_agents.
LEMMA RegisterStep ==
  ASSUME RegistryIInv, NEW rows \in SUBSET Rows, IsFiniteSet(rows), RegisterAgents(rows)
  PROVE  RegistryIInv'
<1> DEFINE ids == {r.id : r \in rows}
           row(a) == CHOOSE r \in rows : r.id = a
           brought == [a \in AgentIds |-> IF a \in ids THEN Brought(row(a)) ELSE 0]
           rowOf == [a \in ids |-> row(a)]
<1>1. PICK B, rec : B = brought /\ rec = rowOf
  OBVIOUS
<1>2. /\ ids \subseteq AgentIds
      /\ \A a \in ids : rec[a] \in rows /\ rec[a].id = a /\ rec[a] \in Rows
  <2>1. \A a \in ids : row(a) \in rows /\ row(a).id = a
    OBVIOUS
  <2>2. \A r \in rows : r.id \in AgentIds
    BY DEF Rows
  <2> QED
    BY <1>1, <2>1, <2>2
<1>3. /\ Cardinality(ids) = Cardinality(rows)
      /\ \A r \in rows : ~Registered(r.id) /\ BondSuffices(r)
      /\ agentRec' = [a \in AgentIds |-> IF a \in ids
            THEN [owner |-> rec[a].owner, cap |-> rec[a].cap, bond |-> rec[a].bond] ELSE agentRec[a]]
      /\ bondRec' = [a \in AgentIds |-> IF a \in ids
            THEN [owner |-> rec[a].owner, amount |-> rec[a].bond, status |-> "active", until |-> 0]
            ELSE bondRec[a]]
      /\ flagged' = flagged \ ids
      /\ capIndex' = [c \in Capabilities |-> capIndex[c] \o SetToSeq({a \in ids : rec[a].cap = c})]
      /\ sequenceOf' = sequenceOf \o SetToSeq(ids) /\ total' = total + Cardinality(rows)
      /\ paidIn' = paidIn + SumFunctionOnSet(B, AgentIds)
      /\ UNCHANGED <<cooling, held, rewardPool, paidOut>> /\ KeepAdmin
  <2>1. \A a \in ids : rec[a] = row(a)
    BY <1>1
  <2>2. \A c \in Capabilities : {a \in ids : rec[a].cap = c} = {a \in ids : row(a).cap = c}
    BY <2>1
  <2>3. capIndex' = [c \in Capabilities |-> capIndex[c] \o SetToSeq({a \in ids : row(a).cap = c})]
    BY DEF RegisterAgents
  <2>4. capIndex' = [c \in Capabilities |-> capIndex[c] \o SetToSeq({a \in ids : rec[a].cap = c})]
    <3> HIDE DEF ids, row
    <3> QED
      BY <2>2, <2>3
  <2>5. /\ agentRec' = [a \in AgentIds |-> IF a \in ids
            THEN [owner |-> row(a).owner, cap |-> row(a).cap, bond |-> row(a).bond] ELSE agentRec[a]]
        /\ bondRec' = [a \in AgentIds |-> IF a \in ids
            THEN [owner |-> row(a).owner, amount |-> row(a).bond, status |-> "active", until |-> 0]
            ELSE bondRec[a]]
    BY DEF RegisterAgents
  <2>6. /\ agentRec' = [a \in AgentIds |-> IF a \in ids
            THEN [owner |-> rec[a].owner, cap |-> rec[a].cap, bond |-> rec[a].bond] ELSE agentRec[a]]
        /\ bondRec' = [a \in AgentIds |-> IF a \in ids
            THEN [owner |-> rec[a].owner, amount |-> rec[a].bond, status |-> "active", until |-> 0]
            ELSE bondRec[a]]
    <3> HIDE DEF ids, row
    <3> QED
      BY <2>1, <2>5
  <2>7. paidIn' = paidIn + SumFunctionOnSet(B, AgentIds)
    BY <1>1 DEF RegisterAgents, Bring
  <2>8. /\ Cardinality(ids) = Cardinality(rows)
        /\ \A r \in rows : ~Registered(r.id) /\ BondSuffices(r)
        /\ flagged' = flagged \ ids
        /\ sequenceOf' = sequenceOf \o SetToSeq(ids) /\ total' = total + Cardinality(rows)
        /\ UNCHANGED <<cooling, held, rewardPool, paidOut>> /\ KeepAdmin
    BY DEF RegisterAgents
  <2> QED
    BY <2>4, <2>6, <2>7, <2>8
<1>4. RegistryTypeOK /\ IndexesAgree /\ Covered /\ RegistryStands
  BY DEF RegistryIInv
<1>5. \A a \in AgentIds : B[a] = IF a \in ids THEN Brought(rec[a]) ELSE 0
  <2>1. \A a \in ids : rec[a] = row(a)
    BY <1>1
  <2>2. \A a \in AgentIds : B[a] = IF a \in ids THEN Brought(row(a)) ELSE 0
    BY <1>1
  <2> HIDE DEF ids, row
  <2> QED
    BY <2>1, <2>2
<1> HIDE DEF row, brought, rowOf
<1>6. ASSUME NEW a \in ids
      PROVE  /\ rec[a].owner \in Owners /\ rec[a].owner # NoOwner /\ rec[a].cap \in Capabilities
             /\ rec[a].bond \in Nat
             /\ ~Registered(a) /\ BondSuffices(rec[a]) /\ rec[a].id = a
  <2>1. rec[a] \in rows /\ rec[a].id = a /\ rec[a] \in Rows
    BY <1>2
  <2>2. rec[a].owner \in Owners /\ rec[a].cap \in Capabilities /\ rec[a].bond \in BondAmounts
    BY <2>1 DEF Rows
  <2> QED
    BY <1>3, <2>1, <2>2, RegistryNumbers
<1> HIDE DEF ids
<1>7. IsFiniteSet(ids)
  BY <1>2, RegistryNumbers, FS_Subset
<1>8. /\ agentRec' \in [AgentIds -> AgentRecs] /\ bondRec' \in [AgentIds -> BondRecs]
      /\ \A a \in ids : /\ agentRec'[a].owner = rec[a].owner /\ agentRec'[a].cap = rec[a].cap
                        /\ agentRec'[a].bond = rec[a].bond /\ bondRec'[a].amount = rec[a].bond
                        /\ bondRec'[a].status = "active"
      /\ \A a \in AgentIds \ ids : agentRec'[a] = agentRec[a] /\ bondRec'[a] = bondRec[a]
  <2>1. agentRec \in [AgentIds -> AgentRecs] /\ bondRec \in [AgentIds -> BondRecs]
    BY <1>4, RegistryTypes
  <2>2. \A a \in ids :
          /\ [owner |-> rec[a].owner, cap |-> rec[a].cap, bond |-> rec[a].bond] \in AgentRecs
          /\ [owner |-> rec[a].owner, amount |-> rec[a].bond, status |-> "active", until |-> 0] \in BondRecs
    BY <1>6 DEF AgentRecs, BondRecs
  <2>3. agentRec' \in [AgentIds -> AgentRecs]
    BY <1>3, <2>1, <2>2
  <2>4. bondRec' \in [AgentIds -> BondRecs]
    BY <1>3, <2>1, <2>2
  <2> QED
    BY <1>2, <1>3, <2>3, <2>4
<1>9. \A a \in AgentIds : Registered(a)' <=> (Registered(a) \/ a \in ids)
  BY <1>6, <1>8 DEF Registered
<1>10. \A a \in AgentIds : B[a] \in Nat
  <2> SUFFICES ASSUME NEW a \in ids PROVE Brought(rec[a]) \in Nat
    BY <1>5
  <2>1. CASE a \in flagged
    <3>1. rec[a].bond >= bondRec[a].amount /\ bondRec[a].amount \in Nat
      BY <1>2, <1>4, <1>6, <2>1, RecordTypes DEF BondSuffices
    <3> QED
      BY <1>6, <2>1, <3>1 DEF Brought
  <2>2. CASE a \notin flagged
    BY <1>6, <2>2 DEF Brought
  <2> QED
    BY <2>1, <2>2
<1>11. SumFunctionOnSet(B, AgentIds) \in Nat
  BY <1>10, RegistryNumbers, SumNat
<1>12. /\ \A c \in Capabilities :
            /\ SetToSeq({a \in ids : rec[a].cap = c}) \in Seq(AgentIds)
            /\ ToSet(SetToSeq({a \in ids : rec[a].cap = c})) = {a \in ids : rec[a].cap = c}
            /\ IsInjective(SetToSeq({a \in ids : rec[a].cap = c}))
       /\ SetToSeq(ids) \in Seq(AgentIds)
  <2>1. ASSUME NEW c \in Capabilities
        PROVE  /\ SetToSeq({a \in ids : rec[a].cap = c}) \in Seq(AgentIds)
               /\ ToSet(SetToSeq({a \in ids : rec[a].cap = c})) = {a \in ids : rec[a].cap = c}
               /\ IsInjective(SetToSeq({a \in ids : rec[a].cap = c}))
    <3>1. PICK T : T = {a \in ids : rec[a].cap = c}
      OBVIOUS
    <3>2. T \subseteq ids /\ IsFiniteSet(T) /\ T \subseteq AgentIds
      BY <1>2, <1>7, <3>1, FS_Subset
    <3> QED
      BY <3>1, <3>2, SetToSeqFacts
  <2> QED
    BY <1>2, <1>7, <2>1, SetToSeqFacts
<1>13. capIndex \in [Capabilities -> Seq(AgentIds)] /\ sequenceOf \in Seq(AgentIds) /\ total \in Nat
  BY <1>4, RegistryTypes
<1>14. ASSUME NEW c \in Capabilities
       PROVE  /\ capIndex'[c] \in Seq(AgentIds)
              /\ ToSet(capIndex'[c]) = {a \in AgentIds : Registered(a)' /\ agentRec'[a].cap = c}
              /\ IsInjective(capIndex'[c])
  <2>1. PICK s, t, T : s = capIndex[c] /\ T = {a \in ids : rec[a].cap = c} /\ t = SetToSeq(T)
    OBVIOUS
  <2>2. s \in Seq(AgentIds) /\ t \in Seq(AgentIds) /\ capIndex'[c] = s \o t
    BY <1>3, <1>12, <1>13, <2>1
  <2>3. /\ ToSet(s) = {a \in AgentIds : Registered(a) /\ agentRec[a].cap = c}
        /\ IsInjective(s)
    BY <1>4, <2>1 DEF IndexesAgree
  <2>4. ToSet(t) = T /\ IsInjective(t)
    BY <1>12, <2>1
  <2>5. ToSet(s) \cap ToSet(t) = {}
    BY <1>6, <2>1, <2>3, <2>4
  <2>6. /\ s \o t \in Seq(AgentIds) /\ ToSet(s \o t) = ToSet(s) \cup ToSet(t)
        /\ IsInjective(s \o t)
    BY <2>2, <2>3, <2>4, <2>5, JoinedFacts
  <2>7. {a \in AgentIds : Registered(a)' /\ agentRec'[a].cap = c} = ToSet(s) \cup ToSet(t)
    <3>1. ASSUME NEW a \in AgentIds
          PROVE  Registered(a)' /\ agentRec'[a].cap = c <=> a \in ToSet(s) \cup ToSet(t)
      <4>1. CASE a \in ids
        <5>1. ~Registered(a) /\ Registered(a)' /\ agentRec'[a].cap = rec[a].cap
          BY <1>6, <1>8, <1>9, <4>1
        <5> QED
          BY <2>1, <2>3, <2>4, <4>1, <5>1
      <4>2. CASE a \notin ids
        <5>1. (Registered(a)' <=> Registered(a)) /\ agentRec'[a] = agentRec[a]
          BY <1>8, <1>9, <4>2
        <5> QED
          BY <2>1, <2>3, <2>4, <4>2, <5>1
      <4> QED
        BY <4>1, <4>2
    <3>2. ToSet(s) \cup ToSet(t) \subseteq AgentIds
      BY <1>2, <2>1, <2>3, <2>4
    <3> QED
      BY <3>1, <3>2
  <2> QED
    BY <2>2, <2>6, <2>7
<1>15. RegistryTypeOK'
  <2>1. capIndex' \in [Capabilities -> Seq(AgentIds)]
    <3>1. DOMAIN capIndex' = Capabilities /\ capIndex' = [c \in Capabilities |-> capIndex'[c]]
      BY <1>3
    <3> QED
      BY <1>14, <3>1
  <2>2. sequenceOf' \in Seq(AgentIds)
    BY <1>3, <1>12, <1>13, JoinedFacts
  <2>3. total' \in Nat
    BY <1>3, <1>7, <1>13, FS_CardinalityType
  <2>4. /\ rewardPool \in Nat /\ paidIn \in Nat /\ paidOut \in Nat
        /\ held \subseteq AgentIds /\ flagged \subseteq AgentIds /\ cooling \in [AgentIds -> CoolRecs]
    BY <1>4, RegistryTypes
  <2>5. paidIn' \in Nat
    BY <1>3, <1>11, <2>4
  <2>6. /\ rewardPool' \in Nat /\ paidOut' \in Nat
        /\ held' \subseteq AgentIds /\ flagged' \subseteq AgentIds /\ cooling' \in [AgentIds -> CoolRecs]
    BY <1>3, <2>4
  <2>7. KeepAdmin
    BY <1>3
  <2> QED
    BY <1>4, <1>8, <2>1, <2>2, <2>3, <2>5, <2>6, <2>7, KeptAdmin, RegistryTyped
<1>16. IndexesAgree'
  <2> DEFINE R == {a \in AgentIds : Registered(a)}
  <2>1. IsFiniteSet(R) /\ R \cap ids = {}
    BY <1>6, RegistryNumbers, FS_Subset
  <2>2. {a \in AgentIds : Registered(a)'} = R \cup ids
    BY <1>2, <1>9
  <2>3. Cardinality(R \cup ids) = Cardinality(R) + Cardinality(ids)
    <3> HIDE DEF R
    <3>1. Cardinality(R \cup ids) = Cardinality(R) + Cardinality(ids) - Cardinality(R \cap ids)
      BY <1>7, <2>1, FS_Union
    <3>2. Cardinality(R \cap ids) = 0
      BY <2>1, FS_EmptySet
    <3>3. Cardinality(R) \in Nat /\ Cardinality(ids) \in Nat
      BY <1>7, <2>1, FS_CardinalityType
    <3> QED
      BY <3>1, <3>2, <3>3
  <2>4. total = Cardinality(R)
    BY <1>4 DEF IndexesAgree
  <2>5. total' = Cardinality({a \in AgentIds : Registered(a)'})
    BY <1>3, <2>2, <2>3, <2>4
  <2> QED
    BY <1>14, <2>5 DEF IndexesAgree
<1>17. Covered'
  <2>1. PICK f, g, h : f = Dues /\ g = Dues' /\ h = [a \in AgentIds |-> f[a] + B[a]]
    OBVIOUS
  <2>2. \A a \in AgentIds : f[a] \in Nat
    BY <1>4, <2>1, DuesType
  <2>3. ASSUME NEW a \in AgentIds
        PROVE  g[a] \in Int /\ g[a] <= f[a] + B[a]
    <3>1. PICK b, c : b = bondRec[a].amount /\ c = cooling[a].amount
      OBVIOUS
    <3>2. b \in Nat /\ c \in Nat
      BY <1>4, <3>1, RecordTypes
    <3>3. CASE a \in ids
      <4>1. PICK n : n = rec[a].bond
        OBVIOUS
      <4>2. n \in Nat /\ ~Registered(a) /\ Registered(a)'
        BY <1>6, <1>9, <3>3, <4>1
      <4>3. f[a] = Greater(b, c)
        BY <2>1, <3>1, <4>2 DEF Dues, DueOf, Registered
      <4>4. g[a] = n + c
        <5>1. g[a] = Greater(n, n) + c
          BY <1>3, <1>8, <2>1, <3>1, <3>3, <4>1, <4>2 DEF Dues, DueOf, Registered
        <5> QED
          BY <3>2, <4>2, <5>1 DEF Greater
      <4>5. CASE a \in flagged
        <5>1. B[a] = n - b /\ n >= b
          BY <1>5, <1>6, <3>1, <3>3, <4>1, <4>5 DEF Brought, BondSuffices
        <5>2. c = 0
          <6>1. bondRec[a].status = "active"
            BY <1>6, <3>3, <4>5 DEF BondSuffices, BondIs
          <6> QED
            BY <1>4, <3>1, <4>2, <6>1 DEF RegistryStands, BondIs
        <5> QED
          BY <3>2, <4>2, <4>3, <4>4, <5>1, <5>2 DEF Greater
      <4>6. CASE a \notin flagged
        <5>1. B[a] = n
          BY <1>5, <1>6, <3>3, <4>1, <4>2, <4>6 DEF Brought
        <5> QED
          BY <3>2, <4>2, <4>3, <4>4, <5>1 DEF Greater
      <4> QED
        BY <4>5, <4>6
    <3>4. CASE a \notin ids
      <4>1. g[a] = f[a] /\ B[a] = 0
        BY <1>3, <1>5, <1>8, <2>1, <3>4 DEF Dues
      <4> QED
        BY <2>2, <4>1
    <3> QED
      BY <3>3, <3>4
  <2>4. \A a \in AgentIds : f[a] \in Int /\ B[a] \in Int /\ h[a] = f[a] + B[a] /\ h[a] \in Int
    BY <1>10, <2>1, <2>2
  <2>5. SumFunctionOnSet(h, AgentIds) = SumFunctionOnSet(f, AgentIds) + SumFunctionOnSet(B, AgentIds)
    BY <2>4, RegistryNumbers, SumPlus
  <2>6. \A a \in AgentIds : g[a] \in Int /\ h[a] \in Int /\ g[a] <= h[a]
    BY <2>3, <2>4
  <2>7. SumFunctionOnSet(g, AgentIds) <= SumFunctionOnSet(h, AgentIds)
    BY <2>6, RegistryNumbers, SumLeq
  <2>8. SumFunctionOnSet(f, AgentIds) \in Int /\ SumFunctionOnSet(g, AgentIds) \in Int
    BY <2>4, <2>6, RegistryNumbers, SumType
  <2>9. paidOut + rewardPool + SumFunctionOnSet(f, AgentIds) <= paidIn
    BY <1>4, <2>1 DEF Covered
  <2>10. paidOut \in Nat /\ rewardPool \in Nat /\ paidIn \in Nat
    BY <1>4, RegistryTypes
  <2>11. paidOut' + rewardPool' + SumFunctionOnSet(g, AgentIds) <= paidIn'
    BY <1>3, <1>11, <2>5, <2>7, <2>8, <2>9, <2>10
  <2> QED
    BY <2>1, <2>11 DEF Covered
<1>18. RegistryStands'
  <2> SUFFICES ASSUME NEW x \in AgentIds
               PROVE  /\ Registered(x)' => agentRec'[x].cap \in Capabilities /\ HasBond(x)'
                      /\ ~IsCooling(x)' => cooling'[x].amount = 0
                      /\ IsCooling(x)' /\ ~Registered(x)' => BondIs(x, "cooldown")'
    BY DEF RegistryStands
  <2>1. cooling' = cooling
    BY <1>3
  <2>2. CASE x \in ids
    BY <1>4, <1>6, <1>8, <1>9, <2>1, <2>2 DEF RegistryStands, HasBond, IsCooling
  <2>3. CASE x \notin ids
    BY <1>4, <1>8, <2>1, <2>3 DEF RegistryStands, Registered, HasBond, IsCooling, BondIs
  <2> QED
    BY <2>2, <2>3
<1> QED
  BY <1>15, <1>16, <1>17, <1>18 DEF RegistryIInv

-----------------------------------------------------------------------------
\* Steps that leave the bonds alone.
LEMMA SameBonds ==
  ASSUME RegistryIInv, held' \subseteq AgentIds,
         UNCHANGED <<agentRec, bondRec, cooling, flagged, rewardPool, paidIn, paidOut>>,
         UNCHANGED indexVars,
         frozen' \subseteq AgentIds, slaSet' \subseteq AgentIds,
         minBond' \in MinBonds, registryPaused' \in BOOLEAN,
         adminActs' \in 0 .. MaxAdminActs, ledger' \in 0 .. LedgerEnd
  PROVE  RegistryIInv'
<1>1. RegistryTypeOK /\ IndexesAgree /\ Covered /\ RegistryStands
  BY DEF RegistryIInv
<1>2. RegistryTypeOK'
  <2>1. /\ agentRec' \in [AgentIds -> AgentRecs] /\ bondRec' \in [AgentIds -> BondRecs]
        /\ cooling' \in [AgentIds -> CoolRecs] /\ flagged' \subseteq AgentIds
        /\ capIndex' \in [Capabilities -> Seq(AgentIds)] /\ sequenceOf' \in Seq(AgentIds)
        /\ total' \in Nat /\ rewardPool' \in Nat /\ paidIn' \in Nat /\ paidOut' \in Nat
    BY <1>1, RegistryTypes DEF indexVars
  <2> QED
    BY <2>1, RegistryTyped
<1>3. IndexesAgree'
  BY <1>1, SameIndexes
<1>4. Covered'
  <2>1. Dues' = Dues
    BY DEF Dues
  <2> QED
    BY <1>1, <2>1 DEF Covered
<1>5. RegistryStands'
  BY <1>1 DEF RegistryStands, Registered, HasBond, IsCooling, BondIs
<1> QED
  BY <1>2, <1>3, <1>4, <1>5 DEF RegistryIInv

\* lock_bond_for_dispute and release_bond_after_dispute.
LEMMA LockStep ==
  ASSUME RegistryIInv, NEW a \in AgentIds, LockBondForDispute(a) \/ ReleaseBondAfterDispute(a)
  PROVE  RegistryIInv'
<1>1. RegistryTypeOK
  BY DEF RegistryIInv
<1>2. /\ held' \in {held \cup {a}, held \ {a}}
      /\ UNCHANGED <<agentRec, bondRec, cooling, flagged, rewardPool, paidIn, paidOut>>
      /\ UNCHANGED indexVars /\ KeepAdmin
  BY DEF LockBondForDispute, ReleaseBondAfterDispute
<1>3. held' \subseteq AgentIds
  BY <1>1, <1>2, RegistryTypes
<1> QED
  BY <1>1, <1>2, <1>3, KeptAdmin, SameBonds

\* A share of a bond is a number.
LEMMA ShareType ==
  ASSUME RegistryTypeOK, NEW a \in AgentIds, NEW percent \in 0 .. 100
  PROVE  Share(a, percent) \in Nat
BY RecordTypes, PartOf DEF Share

LEMMA AdminKeeps ==
  ASSUME RegistryIInv, AdminStep
  PROVE  RegistryIInv' /\ UNCHANGED <<agentRec, bondRec, cooling, held>>
<1>1. RegistryTypeOK
  BY DEF RegistryIInv
<1>2. /\ KeepBonds /\ UNCHANGED <<slaSet, ledger>> /\ AdminAct
      /\ \/ \E a \in AgentIds : FreezeAgent(a) \/ UnfreezeAgent(a)
         \/ \E b \in BOOLEAN : SetRegistryPaused(b)
         \/ \E n \in MinBonds : SetMinBond(n)
  BY DEF AdminStep
<1>3. /\ held' \subseteq AgentIds /\ frozen \subseteq AgentIds /\ slaSet' \subseteq AgentIds
      /\ ledger' \in 0 .. LedgerEnd
      /\ minBond \in MinBonds /\ registryPaused \in BOOLEAN
  BY <1>1, <1>2 DEF RegistryTypeOK, KeepBonds
<1>4. adminActs' \in 0 .. MaxAdminActs
  <2>1. adminActs \in 0 .. MaxAdminActs
    BY <1>1 DEF RegistryTypeOK
  <2> QED
    BY <1>2, <2>1, RegistryNumbers DEF AdminAct
<1>5. frozen' \subseteq AgentIds /\ minBond' \in MinBonds /\ registryPaused' \in BOOLEAN
  <2>1. CASE \E a \in AgentIds : FreezeAgent(a) \/ UnfreezeAgent(a)
    BY <1>3, <2>1 DEF FreezeAgent, UnfreezeAgent
  <2>2. CASE \E b \in BOOLEAN : SetRegistryPaused(b)
    BY <1>3, <2>2 DEF SetRegistryPaused
  <2>3. CASE \E n \in MinBonds : SetMinBond(n)
    BY <1>3, <2>3 DEF SetMinBond
  <2> QED
    BY <1>2, <2>1, <2>2, <2>3
<1>6. /\ UNCHANGED <<agentRec, bondRec, cooling, held, flagged, rewardPool, paidIn, paidOut>>
      /\ UNCHANGED indexVars
  BY <1>2 DEF KeepBonds
<1> QED
  BY <1>3, <1>4, <1>5, <1>6, SameBonds

LEMMA SetSlaStep ==
  ASSUME RegistryIInv, NEW a \in AgentIds, SetSla(a)
  PROVE  RegistryIInv' /\ UNCHANGED <<agentRec, bondRec, cooling, held>>
<1>1. /\ UNCHANGED <<agentRec, bondRec, cooling, held, flagged, rewardPool, paidIn, paidOut>>
      /\ UNCHANGED indexVars /\ UNCHANGED <<frozen, minBond, registryPaused, adminActs, ledger>>
      /\ slaSet' = slaSet \cup {a}
  BY DEF SetSla, KeepBonds
<1>2. /\ held' \subseteq AgentIds /\ frozen' \subseteq AgentIds /\ slaSet' \subseteq AgentIds
      /\ minBond' \in MinBonds /\ registryPaused' \in BOOLEAN
      /\ adminActs' \in 0 .. MaxAdminActs /\ ledger' \in 0 .. LedgerEnd
  BY <1>1 DEF RegistryIInv, RegistryTypeOK
<1> QED
  BY <1>1, <1>2, SameBonds

LEMMA RegistryTickStep ==
  ASSUME RegistryIInv, RegistryTick
  PROVE  RegistryIInv' /\ UNCHANGED <<agentRec, bondRec, cooling, held>>
<1>1. /\ UNCHANGED <<agentRec, bondRec, cooling, held, flagged, rewardPool, paidIn, paidOut>>
      /\ UNCHANGED indexVars /\ UNCHANGED <<frozen, slaSet, minBond, registryPaused, adminActs>>
      /\ ledger < LedgerEnd /\ ledger' = ledger + 1
  BY DEF RegistryTick, KeepBonds
<1>2. /\ held' \subseteq AgentIds /\ frozen' \subseteq AgentIds /\ slaSet' \subseteq AgentIds
      /\ minBond' \in MinBonds /\ registryPaused' \in BOOLEAN
      /\ adminActs' \in 0 .. MaxAdminActs /\ ledger \in 0 .. LedgerEnd
  BY <1>1 DEF RegistryIInv, RegistryTypeOK
<1>3. ledger' \in 0 .. LedgerEnd
  BY <1>1, <1>2, RegistryNumbers
<1> QED
  BY <1>1, <1>2, <1>3, SameBonds

\* Every call on one agent's bond.
LEMMA BondStepKeeps ==
  ASSUME RegistryIInv, NEW a \in AgentIds, BondStep(a)
  PROVE  RegistryIInv'
<1>1. RegistryTypeOK /\ held \subseteq AgentIds
  BY RegistryTypes DEF RegistryIInv
<1>2. CASE LeaveRegistry(a)
  BY <1>2, LeaveStep
<1>3. CASE ReturnCooled(a)
  BY <1>3, ReturnStep
<1>4. ASSUME NEW n \in BondAmounts, DepositBond(a, n) \/ RewardBond(a, n) PROVE RegistryIInv'
  BY <1>4, DepositStep
<1>5. ASSUME NEW n \in BondAmounts, RestoreSlashedBond(a, n) PROVE RegistryIInv'
  BY <1>5, RestoreStep
<1>6. ASSUME NEW n \in BondAmounts, SlashBondAmount(a, n) PROVE RegistryIInv'
  <2>1. SlashInternal(a, n) /\ held' \subseteq AgentIds /\ n \in Nat
    BY <1>1, <1>6, RegistryNumbers DEF SlashBondAmount
  <2> QED
    BY <2>1, SlashStep
<1>7. CASE InitiateBondReturn(a)
  BY <1>7, CoolStep
<1>8. CASE ClaimBond(a)
  BY <1>8, ClaimStep
<1>9. CASE SlashBond(a, 50)
  <2>1. PICK n : n = Share(a, 50)
    OBVIOUS
  <2>2. n \in Nat
    BY <1>1, <2>1, ShareType
  <2>3. SlashInternal(a, n) /\ held' \subseteq AgentIds
    BY <1>1, <1>9, <2>1 DEF SlashBond
  <2> QED
    BY <2>2, <2>3, SlashStep
<1>10. CASE CheckSlaCompliance(a)
  BY <1>10, SlaStep
<1> QED
  BY <1>2, <1>3, <1>4, <1>5, <1>6, <1>7, <1>8, <1>9, <1>10 DEF BondStep

LEMMA RegistryStepKeeps ==
  ASSUME RegistryIInv, RegistryStep
  PROVE  RegistryIInv'
<1>1. ASSUME NEW r \in Rows, NEW s \in Rows, RegisterAgents({r, s}) PROVE RegistryIInv'
  <2>1. PICK rows : rows = {r, s}
    OBVIOUS
  <2>2. rows \in SUBSET Rows /\ IsFiniteSet(rows)
    <3>1. IsFiniteSet({r}) /\ IsFiniteSet({s})
      BY FS_Singleton
    <3>2. IsFiniteSet({r} \cup {s})
      BY <3>1, FS_Union
    <3>3. {r} \cup {s} = rows
      BY <2>1
    <3> QED
      BY <2>1, <3>2, <3>3
  <2> QED
    BY <1>1, <2>1, <2>2, RegisterStep
<1> QED
  BY <1>1, BondStepKeeps, AdminKeeps, SetSlaStep DEF RegistryStep

\* A registry without agents.
LEMMA RegistryStarts == RegistryInit => RegistryIInv
<1> SUFFICES ASSUME RegistryInit PROVE RegistryIInv
  OBVIOUS
<1>1. \A a \in AgentIds : /\ agentRec[a] = NoAgent /\ bondRec[a] = NoBond /\ cooling[a] = NoCooldown
                          /\ ~Registered(a) /\ ~IsCooling(a)
  BY DEF RegistryInit, Registered, IsCooling, NoAgent, NoCooldown
<1>2. RegistryTypeOK
  <2>1. minBond \in MinBonds
    <3>1. \E n \in MinBonds : \A k \in MinBonds : n <= k
      BY RegistryNumbers, LeastExists
    <3> QED
      BY <3>1 DEF RegistryInit, Min
  <2>2. /\ agentRec \in [AgentIds -> AgentRecs] /\ bondRec \in [AgentIds -> BondRecs]
        /\ cooling \in [AgentIds -> CoolRecs]
    <3>1. NoAgent \in AgentRecs /\ NoBond \in BondRecs /\ NoCooldown \in CoolRecs
      BY DEF NoAgent, NoBond, NoCooldown, AgentRecs, BondRecs, CoolRecs
    <3> QED
      BY <3>1 DEF RegistryInit
  <2>3. /\ capIndex \in [Capabilities -> Seq(AgentIds)] /\ sequenceOf \in Seq(AgentIds)
    <3>1. <<>> \in Seq(AgentIds)
      BY EmptySeq
    <3> QED
      BY <3>1 DEF RegistryInit
  <2>4. /\ held \subseteq AgentIds /\ flagged \subseteq AgentIds
        /\ frozen \subseteq AgentIds /\ slaSet \subseteq AgentIds /\ registryPaused \in BOOLEAN
    BY DEF RegistryInit
  <2>5. {total, rewardPool, paidIn, paidOut} \subseteq Nat
    BY DEF RegistryInit
  <2>6. adminActs \in 0 .. MaxAdminActs /\ ledger \in 0 .. LedgerEnd
    BY RegistryNumbers DEF RegistryInit
  <2> QED
    BY <2>1, <2>2, <2>3, <2>4, <2>5, <2>6 DEF RegistryTypeOK, AgentRecs, BondRecs, CoolRecs
<1>3. IndexesAgree
  <2>1. {a \in AgentIds : Registered(a)} = {}
    BY <1>1
  <2>2. Cardinality({}) = 0
    BY FS_EmptySet
  <2>3. \A c \in Capabilities : capIndex[c] = <<>>
    BY DEF RegistryInit
  <2>4. ToSet(<<>>) = {} /\ IsInjective(<<>>)
    <3>1. DOMAIN <<>> = {}
      BY EmptySeq
    <3> QED
      BY <3>1 DEF ToSet, IsInjective
  <2>5. \A c \in Capabilities : {a \in AgentIds : Registered(a) /\ agentRec[a].cap = c} = {}
    BY <1>1
  <2>6. total = 0
    BY DEF RegistryInit
  <2> QED
    BY <2>1, <2>2, <2>3, <2>4, <2>5, <2>6 DEF IndexesAgree
<1>4. Covered
  <2>1. PICK f : f = Dues
    OBVIOUS
  <2>2. \A a \in AgentIds : f[a] = 0
    BY <1>1, <2>1 DEF Dues, DueOf, Greater, NoAgent, NoBond, NoCooldown
  <2>3. SumFunctionOnSet(f, AgentIds) = 0
    BY <2>2, RegistryNumbers, SumZero
  <2>4. paidOut = 0 /\ rewardPool = 0 /\ paidIn = 0
    BY DEF RegistryInit
  <2> QED
    BY <2>1, <2>3, <2>4 DEF Covered
<1>5. RegistryStands
  BY <1>1 DEF RegistryStands, NoCooldown
<1> QED
  BY <1>2, <1>3, <1>4, <1>5 DEF RegistryIInv

-----------------------------------------------------------------------------
-----------------------------------------------------------------------------
DisputeRecs ==
  [status : {"none", "evidence", "voting", "appealPending", "resolved"},
   agent : AgentIds \cup {NoParty}, filer : Owners \cup {NoParty}, evidenceBy : Nat, voteBy : Nat,
   appealBy : Nat, voters : SUBSET Voters, appealed : BOOLEAN, round : {0, 1},
   resolution : {"none", "filer", "agent", "tie"}, refund : Nat, payment : Nat]

\* A ruling needs the resolution that no call writes, so no dispute leaves its first round.
DisputeStands ==
  \A d \in Disputes :
    /\ dispute[d].resolution = "none" /\ dispute[d].round = 0
    /\ Is(d, "none") <=> dispute[d].agent = NoParty

OpenOver(d, a) == dispute[d].agent = a /\ ~Is(d, "resolved")

LocksAreDisputes ==
  /\ \A d, e \in Disputes, a \in AgentIds : OpenOver(d, a) /\ OpenOver(e, a) => d = e
  /\ \A d \in Disputes, a \in AgentIds : OpenOver(d, a) => a \in held
  /\ \A a \in held : \E d \in Disputes : OpenOver(d, a)

DisputeIInv ==
  RegistryIInv /\ DisputeTypeOK /\ DisputeStands /\ LocksAreDisputes /\ LockedBondsStay

LEMMA DisputeNumbers ==
  /\ NoParty \notin Owners /\ NoParty \notin AgentIds /\ FirstPool \subseteq Arbiters
  /\ EvidencePhase \in Nat /\ VotingPhase \in Nat /\ AppealPhase \in Nat /\ MinimumVotes \in Nat
  /\ RequiredArbiterVotes \in Nat /\ MaxEvidence \in Nat
  /\ TaskEscrow \in Nat /\ DisputeSlash \in 1 .. 100
BY DisputeAssumption

\* The locks as the invariant counts them.
LEMMA LocksFollow ==
  ASSUME LocksAreDisputes
  PROVE  LocksFollowDisputes
<1> SUFFICES ASSUME NEW a \in AgentIds, NEW open,
                    open = {d \in Disputes : dispute[d].agent = a /\ ~Is(d, "resolved")}
             PROVE  Cardinality(open) <= 1 /\ (a \in held <=> open # {})
  BY DEF LocksFollowDisputes
<1>1. \A d \in Disputes : d \in open <=> OpenOver(d, a)
  BY DEF OpenOver
<1>2. \A d, e \in open : d = e
  BY <1>1 DEF LocksAreDisputes
<1>3. Cardinality(open) <= 1
  <2>1. CASE open = {}
    <3>1. Cardinality(open) = 0
      BY <2>1, FS_EmptySet
    <3> QED
      BY <3>1
  <2>2. CASE open # {}
    <3>1. PICK d : d \in open
      BY <2>2
    <3>2. open = {d}
      BY <1>2, <3>1
    <3>3. Cardinality({d}) = 1
      BY FS_Singleton
    <3>4. Cardinality(open) = 1
      BY <3>2, <3>3
    <3> QED
      BY <3>4
  <2> QED
    BY <2>1, <2>2
<1>4. a \in held <=> open # {}
  BY <1>1 DEF LocksAreDisputes
<1> QED
  BY <1>3, <1>4

-----------------------------------------------------------------------------
\* What the registry's own calls leave of a locked bond.
Reachable(a) == Registered(a) /\ ~IsCooling(a) /\ bondRec[a].status \in {"active", "slashed"}

\* Registering touches no agent there is.
LEMMA RegisterSpares ==
  ASSUME RegistryTypeOK, NEW rows \in SUBSET Rows, RegisterAgents(rows)
  PROVE  /\ held' = held /\ cooling' = cooling
         /\ \A x \in AgentIds : Registered(x) => agentRec'[x] = agentRec[x] /\ bondRec'[x] = bondRec[x]
<1> DEFINE ids == {r.id : r \in rows}
           row(a) == CHOOSE r \in rows : r.id = a
<1>1. /\ \A r \in rows : ~Registered(r.id)
      /\ agentRec' = [a \in AgentIds |-> IF a \in ids
            THEN [owner |-> row(a).owner, cap |-> row(a).cap, bond |-> row(a).bond] ELSE agentRec[a]]
      /\ bondRec' = [a \in AgentIds |-> IF a \in ids
            THEN [owner |-> row(a).owner, amount |-> row(a).bond, status |-> "active", until |-> 0]
            ELSE bondRec[a]]
      /\ held' = held /\ cooling' = cooling
  BY DEF RegisterAgents
<1>2. \A x \in AgentIds : Registered(x) => x \notin ids
  BY <1>1
<1> HIDE DEF ids, row
<1> QED
  BY <1>1, <1>2

\* A slash leaves the agent registered and its bond where it was.
LEMMA SlashSpares ==
  ASSUME RegistryTypeOK, NEW a \in AgentIds, NEW n, SlashInternal(a, n)
  PROVE  \A x \in AgentIds : Reachable(x) => Reachable(x)'
<1>1. /\ agentRec \in [AgentIds -> AgentRecs] /\ bondRec \in [AgentIds -> BondRecs]
      /\ cooling' = cooling
  BY RegistryTypes DEF SlashInternal
<1>2. PICK left : /\ agentRec' = [agentRec EXCEPT ![a].bond = left]
                  /\ bondRec' = IF HasBond(a) THEN [bondRec EXCEPT ![a].amount = left,
                       ![a].status = IF left = 0 THEN "slashed" ELSE "active"] ELSE bondRec
  BY DEF SlashInternal
<1>3. \A x \in AgentIds : agentRec'[x].owner = agentRec[x].owner
  BY <1>1, <1>2 DEF AgentRecs
<1>4. \A x \in AgentIds : /\ x # a => bondRec'[x] = bondRec[x]
                          /\ \/ bondRec'[x].status = bondRec[x].status
                             \/ bondRec'[x].status \in {"slashed", "active"}
  BY <1>1, <1>2 DEF BondRecs
<1> QED
  BY <1>1, <1>3, <1>4 DEF Reachable, Registered, IsCooling

\* A locked bond is out of its owner's reach.
LEMMA BondStepSpares ==
  ASSUME RegistryTypeOK, NEW a \in AgentIds, BondStep(a)
  PROVE  held' = held /\ \A x \in held : Reachable(x) => Reachable(x)'
<1>0. /\ held \subseteq AgentIds /\ agentRec \in [AgentIds -> AgentRecs]
      /\ bondRec \in [AgentIds -> BondRecs] /\ cooling \in [AgentIds -> CoolRecs]
  BY RegistryTypes
<1>1. ASSUME Unlocked(a), held' = held,
             \A x \in AgentIds \ {a} : /\ agentRec'[x].owner = agentRec[x].owner
                                       /\ bondRec'[x] = bondRec[x] /\ cooling'[x] = cooling[x]
      PROVE  held' = held /\ \A x \in held : Reachable(x) => Reachable(x)'
  BY <1>0, <1>1 DEF Unlocked, Reachable, Registered, IsCooling
<1>2. CASE LeaveRegistry(a)
  BY <1>0, <1>1, <1>2 DEF LeaveRegistry
<1>3. CASE ReturnCooled(a)
  BY <1>0, <1>1, <1>3 DEF ReturnCooled, Uncooled
<1>4. ASSUME NEW n \in BondAmounts, DepositBond(a, n)
      PROVE  held' = held /\ \A x \in held : Reachable(x) => Reachable(x)'
  BY <1>0, <1>1, <1>4 DEF DepositBond, SetBond, AgentRecs
<1>5. ASSUME NEW n \in BondAmounts, RestoreSlashedBond(a, n)
      PROVE  held' = held /\ \A x \in held : Reachable(x) => Reachable(x)'
  BY <1>0, <1>1, <1>5 DEF RestoreSlashedBond, SetBond, AgentRecs
<1>6. ASSUME NEW n \in BondAmounts, RewardBond(a, n)
      PROVE  held' = held /\ \A x \in held : Reachable(x) => Reachable(x)'
  BY <1>0, <1>1, <1>6 DEF RewardBond, SetBond, AgentRecs
<1>7. ASSUME NEW n \in BondAmounts, SlashBondAmount(a, n)
      PROVE  held' = held /\ \A x \in held : Reachable(x) => Reachable(x)'
  BY <1>0, <1>7, SlashSpares DEF SlashBondAmount
<1>8. CASE InitiateBondReturn(a)
  BY <1>0, <1>1, <1>8 DEF InitiateBondReturn
<1>9. CASE ClaimBond(a)
  BY <1>0, <1>1, <1>9 DEF ClaimBond, SetBond, Uncooled, AgentRecs
<1>10. CASE SlashBond(a, 50)
  BY <1>0, <1>10, SlashSpares DEF SlashBond
<1>11. CASE CheckSlaCompliance(a)
  <2>1. \A x \in AgentIds : agentRec'[x].owner = agentRec[x].owner
    BY <1>0, <1>11 DEF CheckSlaCompliance, AgentRecs
  <2>2. UNCHANGED <<bondRec, cooling, held>>
    BY <1>11 DEF CheckSlaCompliance
  <2> QED
    BY <1>0, <2>1, <2>2 DEF Reachable, Registered, IsCooling
<1> QED
  BY <1>2, <1>3, <1>4, <1>5, <1>6, <1>7, <1>8, <1>9, <1>10, <1>11 DEF BondStep

LEMMA RegistrySpares ==
  ASSUME RegistryIInv, RegistryStep \/ RegistryTick
  PROVE  /\ RegistryIInv' /\ held' = held
         /\ \A x \in held : Reachable(x) => Reachable(x)'
<1>1. RegistryTypeOK /\ held \subseteq AgentIds
  BY RegistryTypes DEF RegistryIInv
<1>2. ASSUME UNCHANGED <<agentRec, bondRec, cooling, held>>
      PROVE  held' = held /\ \A x \in held : Reachable(x) => Reachable(x)'
  BY <1>2 DEF Reachable, Registered, IsCooling
<1>3. ASSUME NEW r \in Rows, NEW s \in Rows, RegisterAgents({r, s})
      PROVE  held' = held /\ \A x \in held : Reachable(x) => Reachable(x)'
  <2>1. /\ held' = held /\ cooling' = cooling
        /\ \A x \in AgentIds : Registered(x) => agentRec'[x] = agentRec[x] /\ bondRec'[x] = bondRec[x]
    BY <1>1, <1>3, RegisterSpares
  <2> QED
    BY <1>1, <2>1 DEF Reachable, Registered, IsCooling
<1>4. ASSUME NEW a \in AgentIds, BondStep(a)
      PROVE  held' = held /\ \A x \in held : Reachable(x) => Reachable(x)'
  BY <1>1, <1>4, BondStepSpares
<1>5. ASSUME AdminStep PROVE held' = held /\ \A x \in held : Reachable(x) => Reachable(x)'
  BY <1>2, <1>5, AdminKeeps
<1>6. ASSUME NEW a \in AgentIds, SetSla(a)
      PROVE  held' = held /\ \A x \in held : Reachable(x) => Reachable(x)'
  BY <1>2, <1>6, SetSlaStep
<1>7. ASSUME RegistryTick PROVE held' = held /\ \A x \in held : Reachable(x) => Reachable(x)'
  BY <1>2, <1>7, RegistryTickStep
<1>8. RegistryIInv'
  BY RegistryStepKeeps, RegistryTickStep
<1> QED
  BY <1>3, <1>4, <1>5, <1>6, <1>7, <1>8 DEF RegistryStep

\* No call, no change.
LEMMA RegistryStill ==
  ASSUME RegistryIInv, UNCHANGED registryVars
  PROVE  RegistryIInv' /\ held' = held /\ \A x \in held : Reachable(x) => Reachable(x)'
<1>1. /\ held' = held /\ UNCHANGED <<agentRec, bondRec, cooling, flagged, rewardPool, paidIn, paidOut>>
      /\ UNCHANGED indexVars /\ KeepAdmin
  BY DEF registryVars, indexVars, KeepAdmin
<1>2. RegistryTypeOK /\ held' \subseteq AgentIds
  BY <1>1, RegistryTypes DEF RegistryIInv
<1>3. RegistryIInv'
  BY <1>1, <1>2, KeptAdmin, SameBonds
<1> QED
  BY <1>1, <1>3 DEF Reachable, Registered, IsCooling

-----------------------------------------------------------------------------
LEMMA DisputeTyped ==
  ASSUME dispute' \in [Disputes -> DisputeRecs],
         ballot' \in [Disputes -> [Voters -> Sides \cup {"none"}]],
         arbiterVote' \in [Disputes -> [Arbiters -> Sides \cup {"none"}]],
         evidence' \in [Disputes -> 0 .. MaxEvidence],
         pool' \subseteq Arbiters, electorate' \subseteq Voters,
         standing' \in [Voters -> {VoterStanding - 1, VoterStanding}], courtPaused' \in BOOLEAN
  PROVE  DisputeTypeOK'
BY DEF DisputeTypeOK, DisputeRecs

LEMMA DisputeTypes ==
  ASSUME DisputeTypeOK
  PROVE  /\ dispute \in [Disputes -> DisputeRecs]
         /\ ballot \in [Disputes -> [Voters -> Sides \cup {"none"}]]
         /\ arbiterVote \in [Disputes -> [Arbiters -> Sides \cup {"none"}]]
         /\ evidence \in [Disputes -> 0 .. MaxEvidence]
         /\ pool \subseteq Arbiters /\ electorate \subseteq Voters
         /\ standing \in [Voters -> {VoterStanding - 1, VoterStanding}] /\ courtPaused \in BOOLEAN
BY DEF DisputeTypeOK, DisputeRecs

\* Calls that end no dispute and begin none.
LEMMA SameLocks ==
  ASSUME DisputeStands, LocksAreDisputes, LockedBondsStay, held' = held, RegistryTypeOK,
         \A x \in held : Reachable(x) => Reachable(x)',
         \A d \in Disputes :
            /\ dispute'[d].agent = dispute[d].agent
            /\ \/ dispute'[d].status = dispute[d].status
               \/ /\ ~Is(d, "none") /\ ~Is(d, "resolved")
                  /\ dispute'[d].status \notin {"none", "resolved"}
            /\ dispute'[d].resolution = dispute[d].resolution
            /\ dispute'[d].round = dispute[d].round
  PROVE  DisputeStands' /\ LocksAreDisputes' /\ LockedBondsStay'
<1>1. \A d \in Disputes : /\ Is(d, "resolved")' <=> Is(d, "resolved")
                          /\ Is(d, "none")' <=> Is(d, "none")
  BY DEF Is
<1>2. \A d \in Disputes, a \in AgentIds : OpenOver(d, a)' <=> OpenOver(d, a)
  BY <1>1 DEF OpenOver
<1>3. held \subseteq AgentIds
  BY RegistryTypes
<1>4. LocksAreDisputes'
  BY <1>2, <1>3 DEF LocksAreDisputes
<1>5. DisputeStands'
  BY <1>1 DEF DisputeStands
<1>6. LockedBondsStay'
  BY DEF LockedBondsStay, Reachable
<1> QED
  BY <1>4, <1>5, <1>6

\* A court's call that changes one dispute only, and neither begins nor ends it.
LEMMA SameRuling ==
  ASSUME DisputeIInv, NEW d \in Disputes, NEW r \in DisputeRecs,
         dispute' = [dispute EXCEPT ![d] = r],
         r.agent = dispute[d].agent, r.resolution = dispute[d].resolution,
         r.round = dispute[d].round,
         ~Is(d, "none"), ~Is(d, "resolved"), r.status \notin {"none", "resolved"},
         UNCHANGED registryVars,
         ballot' \in [Disputes -> [Voters -> Sides \cup {"none"}]],
         arbiterVote' \in [Disputes -> [Arbiters -> Sides \cup {"none"}]],
         evidence' \in [Disputes -> 0 .. MaxEvidence], UNCHANGED courtVars
  PROVE  DisputeIInv'
<1>1. RegistryIInv /\ DisputeTypeOK /\ DisputeStands /\ LocksAreDisputes /\ LockedBondsStay
  BY DEF DisputeIInv
<1>2. DisputeTypeOK'
  <2>1. dispute' \in [Disputes -> DisputeRecs]
    BY <1>1, DisputeTypes
  <2>2. /\ pool' \subseteq Arbiters /\ electorate' \subseteq Voters
        /\ standing' \in [Voters -> {VoterStanding - 1, VoterStanding}] /\ courtPaused' \in BOOLEAN
    BY <1>1, DisputeTypes DEF courtVars
  <2> QED
    BY <2>1, <2>2, DisputeTyped
<1>3. RegistryIInv' /\ held' = held /\ \A x \in held : Reachable(x) => Reachable(x)'
  BY <1>1, RegistryStill
<1>4. dispute \in [Disputes -> DisputeRecs]
  BY <1>1, DisputeTypes
<1>5. \A e \in Disputes : dispute'[e] = IF e = d THEN r ELSE dispute[e]
  BY <1>4
<1>6. \A e \in Disputes :
            /\ dispute'[e].agent = dispute[e].agent
            /\ \/ dispute'[e].status = dispute[e].status
               \/ /\ ~Is(e, "none") /\ ~Is(e, "resolved")
                  /\ dispute'[e].status \notin {"none", "resolved"}
            /\ dispute'[e].resolution = dispute[e].resolution
            /\ dispute'[e].round = dispute[e].round
  BY <1>5
<1>7. RegistryTypeOK
  BY <1>1 DEF RegistryIInv
<1> QED
  BY <1>1, <1>2, <1>3, <1>6, <1>7, SameLocks DEF DisputeIInv

\* file_dispute.
LEMMA FileStep ==
  ASSUME DisputeIInv, NEW d \in Disputes, NEW o \in Owners, NEW a \in AgentIds, FileDispute(d, o, a)
  PROVE  DisputeIInv'
<1>1. RegistryIInv /\ DisputeTypeOK /\ DisputeStands /\ LocksAreDisputes /\ LockedBondsStay
  BY DEF DisputeIInv
<1>2. dispute \in [Disputes -> DisputeRecs] /\ electorate \subseteq Voters /\ ledger \in Nat
      /\ held \subseteq AgentIds
  BY <1>1, DisputeTypes, RegistryTypes DEF RegistryIInv
<1>3. PICK r \in DisputeRecs :
        /\ dispute' = [dispute EXCEPT ![d] = r]
        /\ r.status = "evidence" /\ r.agent = a /\ r.resolution = "none" /\ r.round = 0
  <2> DEFINE by == ledger + EvidencePhase
             r == [NoDispute EXCEPT !.status = "evidence", !.agent = a,
                     !.filer = o, !.evidenceBy = by, !.voteBy = by + VotingPhase, !.voters = electorate]
  <2>1. by \in Nat /\ by + VotingPhase \in Nat
    BY <1>2, DisputeNumbers
  <2>2. dispute' = [dispute EXCEPT ![d] = r]
    BY DEF FileDispute
  <2> HIDE DEF by
  <2>3. r \in DisputeRecs /\ r.status = "evidence" /\ r.agent = a /\ r.resolution = "none" /\ r.round = 0
    BY <1>2, <2>1 DEF NoDispute, DisputeRecs
  <2> HIDE DEF r
  <2> QED
    BY <2>2, <2>3
<1>4. /\ Is(d, "none") /\ LockBondForDispute(a)
      /\ UNCHANGED <<ballot, arbiterVote, evidence>> /\ UNCHANGED courtVars
  BY DEF FileDispute
<1>5. RegistryIInv'
  BY <1>1, <1>4, LockStep
<1>6. DisputeTypeOK'
  <2>1. dispute' \in [Disputes -> DisputeRecs]
    BY <1>2, <1>3
  <2> QED
    BY <1>1, <1>4, <2>1, DisputeTypes, DisputeTyped DEF courtVars
<1>7. /\ a \notin held /\ held' = held \cup {a} /\ Reachable(a)
      /\ UNCHANGED <<agentRec, bondRec, cooling>>
  BY <1>4 DEF LockBondForDispute, Reachable, BondIs
<1>8. \A e \in Disputes : dispute'[e] = IF e = d THEN r ELSE dispute[e]
  BY <1>2, <1>3
<1>9. DisputeStands'
  BY <1>1, <1>3, <1>8, DisputeNumbers DEF DisputeStands, Is
<1>10. /\ \A x \in AgentIds : OpenOver(d, x)' <=> x = a
       /\ \A e \in Disputes, x \in AgentIds : e # d => (OpenOver(e, x)' <=> OpenOver(e, x))
  BY <1>3, <1>8 DEF OpenOver, Is
<1>11. LocksAreDisputes'
  <2>1. \A e \in Disputes : ~OpenOver(e, a)
    BY <1>1, <1>7 DEF LocksAreDisputes
  <2>2. \A x \in AgentIds : ~OpenOver(d, x)
    BY <1>1, <1>4, DisputeNumbers DEF DisputeStands, OpenOver
  <2>3. ASSUME NEW e \in Disputes, NEW g \in Disputes, NEW x \in AgentIds,
               OpenOver(e, x)', OpenOver(g, x)'
        PROVE  e = g
    BY <1>1, <1>10, <2>1, <2>3 DEF LocksAreDisputes
  <2>4. ASSUME NEW e \in Disputes, NEW x \in AgentIds, OpenOver(e, x)' PROVE x \in held'
    BY <1>1, <1>7, <1>10, <2>4 DEF LocksAreDisputes
  <2>5. ASSUME NEW x \in held' PROVE \E e \in Disputes : OpenOver(e, x)'
    <3>1. CASE x = a
      BY <1>10, <3>1
    <3>2. CASE x \in held
      <4>1. PICK e \in Disputes : OpenOver(e, x)
        BY <1>1, <3>2 DEF LocksAreDisputes
      <4>2. e # d /\ x \in AgentIds
        BY <1>2, <2>2, <3>2, <4>1
      <4> QED
        BY <1>10, <4>1, <4>2
    <3> QED
      BY <1>7, <3>1, <3>2
  <2> QED
    BY <2>3, <2>4, <2>5 DEF LocksAreDisputes
<1>12. LockedBondsStay'
  BY <1>1, <1>7 DEF LockedBondsStay, Reachable, Registered, IsCooling
<1> QED
  BY <1>5, <1>6, <1>9, <1>11, <1>12 DEF DisputeIInv

\* The ruling of the arbiters: the dispute is over and its lock is gone.
LEMMA RulingStep ==
  ASSUME DisputeIInv, NEW d \in Disputes, NEW outcome \in Sides,
         ~Is(d, "none"), ~Is(d, "resolved"),
         dispute' = [dispute EXCEPT ![d].status = "resolved"],
         SettleBond(dispute[d].agent, outcome),
         arbiterVote' \in [Disputes -> [Arbiters -> Sides \cup {"none"}]],
         UNCHANGED <<ballot, evidence>>, UNCHANGED courtVars
  PROVE  DisputeIInv'
<1>1. RegistryIInv /\ DisputeTypeOK /\ DisputeStands /\ LocksAreDisputes /\ LockedBondsStay
  BY DEF DisputeIInv
<1>2. dispute \in [Disputes -> DisputeRecs] /\ held \subseteq AgentIds /\ RegistryTypeOK
  BY <1>1, DisputeTypes, RegistryTypes DEF RegistryIInv
<1>3. PICK a : a = dispute[d].agent
  OBVIOUS
<1>4. a \in AgentIds
  BY <1>1, <1>2, <1>3 DEF DisputeStands, DisputeRecs
<1>5. /\ RegistryIInv' /\ held' = held \ {a}
      /\ \A x \in AgentIds : Reachable(x) => Reachable(x)'
  <2>1. CASE SlashBondFromDispute(a, DisputeSlash)
    <3>1. PICK n : n = Share(a, DisputeSlash)
      OBVIOUS
    <3>2. n \in Nat
      <4>1. DisputeSlash \in 0 .. 100
        BY DisputeNumbers
      <4> QED
        BY <1>2, <1>4, <3>1, <4>1, ShareType
    <3>3. SlashInternal(a, n) /\ held' = held \ {a}
      BY <2>1, <3>1 DEF SlashBondFromDispute
    <3>4. held' \subseteq AgentIds
      BY <1>2, <3>3
    <3> QED
      BY <1>1, <1>2, <1>4, <3>2, <3>3, <3>4, SlashStep, SlashSpares
  <2>2. CASE ReleaseBondAfterDispute(a)
    <3>1. RegistryIInv'
      BY <1>1, <1>4, <2>2, LockStep
    <3>2. held' = held \ {a} /\ UNCHANGED <<agentRec, bondRec, cooling>>
      BY <2>2 DEF ReleaseBondAfterDispute
    <3> QED
      BY <3>1, <3>2 DEF Reachable, Registered, IsCooling
  <2> QED
    BY <1>3, <2>1, <2>2 DEF SettleBond
<1>6. \A e \in Disputes : /\ e # d => dispute'[e] = dispute[e]
                          /\ dispute'[e].agent = dispute[e].agent
                          /\ dispute'[e].resolution = dispute[e].resolution
                          /\ dispute'[e].round = dispute[e].round
  BY <1>2 DEF DisputeRecs
<1>7. dispute'[d].status = "resolved" /\ dispute' \in [Disputes -> DisputeRecs]
  BY <1>2 DEF DisputeRecs
<1>8. DisputeTypeOK'
  BY <1>1, <1>7, DisputeTypes, DisputeTyped DEF courtVars
<1>9. DisputeStands'
  BY <1>1, <1>6, <1>7 DEF DisputeStands, Is
<1>10. /\ \A x \in AgentIds : ~OpenOver(d, x)'
       /\ \A e \in Disputes, x \in AgentIds : e # d => (OpenOver(e, x)' <=> OpenOver(e, x))
  BY <1>6, <1>7 DEF OpenOver, Is
<1>11. OpenOver(d, a)
  BY <1>3 DEF OpenOver
<1>12. LocksAreDisputes'
  <2>1. ASSUME NEW e \in Disputes, NEW g \in Disputes, NEW x \in AgentIds,
               OpenOver(e, x)', OpenOver(g, x)'
        PROVE  e = g
    BY <1>1, <1>10, <2>1 DEF LocksAreDisputes
  <2>2. ASSUME NEW e \in Disputes, NEW x \in AgentIds, OpenOver(e, x)' PROVE x \in held'
    <3>1. e # d /\ OpenOver(e, x)
      BY <1>10, <2>2
    <3>2. x # a /\ x \in held
      BY <1>1, <1>4, <1>11, <3>1 DEF LocksAreDisputes
    <3> QED
      BY <1>5, <3>2
  <2>3. ASSUME NEW x \in held' PROVE \E e \in Disputes : OpenOver(e, x)'
    <3>1. x \in held /\ x # a /\ x \in AgentIds
      BY <1>2, <1>5
    <3>2. PICK e \in Disputes : OpenOver(e, x)
      BY <1>1, <3>1 DEF LocksAreDisputes
    <3>3. e # d
      BY <1>3, <3>1, <3>2 DEF OpenOver
    <3> QED
      BY <1>10, <3>1, <3>2, <3>3
  <2> QED
    BY <2>1, <2>2, <2>3 DEF LocksAreDisputes
<1>13. LockedBondsStay'
  BY <1>1, <1>2, <1>5 DEF LockedBondsStay, Reachable
<1> QED
  BY <1>5, <1>8, <1>9, <1>12, <1>13 DEF DisputeIInv

-----------------------------------------------------------------------------
\* A ruling's award is numbers.
LEMMA AwardType ==
  ASSUME DisputeTypeOK, NEW d \in Disputes
  PROVE  /\ Awarded(d) \in DisputeRecs
         /\ Awarded(d).agent = dispute[d].agent /\ Awarded(d).resolution = dispute[d].resolution
         /\ Awarded(d).round = dispute[d].round /\ Awarded(d).voteBy = dispute[d].voteBy
<1>1. PICK r \in DisputeRecs : r = dispute[d]
  BY DisputeTypes
<1>2. PICK half, rest : half = TaskEscrow \div 2 /\ rest = TaskEscrow - TaskEscrow \div 2
  OBVIOUS
<1>3. half \in Nat /\ rest \in Nat /\ TaskEscrow \in Nat
  BY <1>2, DisputeNumbers
<1>4. Awarded(d) \in {[r EXCEPT !.refund = half, !.payment = rest],
                      [r EXCEPT !.refund = TaskEscrow], [r EXCEPT !.payment = TaskEscrow]}
  <2>1. \/ Outcome(d) = "tie" /\ Awarded(d) = [r EXCEPT !.refund = half, !.payment = rest]
        \/ Outcome(d) = "filer" /\ Awarded(d) = [r EXCEPT !.refund = TaskEscrow]
        \/ Awarded(d) = [r EXCEPT !.payment = TaskEscrow]
    BY <1>1, <1>2 DEF Awarded
  <2> QED
    BY <2>1
<1> HIDE DEF Awarded
<1>5. PICK w : w = Awarded(d)
  OBVIOUS
<1>6. /\ w \in DisputeRecs /\ w.agent = r.agent /\ w.resolution = r.resolution
      /\ w.round = r.round /\ w.voteBy = r.voteBy
  BY <1>3, <1>4, <1>5 DEF DisputeRecs
<1> QED
  BY <1>1, <1>5, <1>6

LEMMA WithStatus ==
  ASSUME NEW r \in DisputeRecs, NEW s \in {"voting", "resolved", "appealPending"}
  PROVE  [r EXCEPT !.status = s] \in DisputeRecs
BY DEF DisputeRecs

LEMMA EvidenceStep ==
  ASSUME DisputeIInv, NEW d \in Disputes, SubmitEvidence(d)
  PROVE  DisputeIInv'
<1>1. RegistryIInv /\ DisputeTypeOK /\ DisputeStands
  BY DEF DisputeIInv
<1>2. PICK r \in DisputeRecs : r = dispute[d]
  BY <1>1, DisputeTypes
<1>3. /\ ~Is(d, "none") /\ ~Is(d, "resolved") /\ evidence[d] < MaxEvidence
      /\ evidence' = [evidence EXCEPT ![d] = evidence[d] + 1]
      /\ UNCHANGED <<dispute, ballot, arbiterVote>> /\ UNCHANGED courtVars /\ UNCHANGED registryVars
  BY DEF SubmitEvidence, Is
<1>4. evidence' \in [Disputes -> 0 .. MaxEvidence]
  <2>1. evidence \in [Disputes -> 0 .. MaxEvidence]
    BY <1>1, DisputeTypes
  <2>2. evidence[d] \in 0 .. MaxEvidence
    BY <2>1
  <2>3. evidence[d] + 1 \in 0 .. MaxEvidence
    BY <1>3, <2>2, DisputeNumbers
  <2> QED
    BY <1>3, <2>1, <2>3
<1>5. /\ ballot' \in [Disputes -> [Voters -> Sides \cup {"none"}]]
      /\ arbiterVote' \in [Disputes -> [Arbiters -> Sides \cup {"none"}]]
  BY <1>1, <1>3, DisputeTypes
<1>6. dispute' = [dispute EXCEPT ![d] = r]
  BY <1>1, <1>2, <1>3, DisputeTypes
<1>7. r.status \notin {"none", "resolved"}
  BY <1>2, <1>3 DEF Is
<1> QED
  BY <1>2, <1>3, <1>4, <1>5, <1>6, <1>7, SameRuling

LEMMA CastStep ==
  ASSUME DisputeIInv, NEW d \in Disputes, NEW v \in Voters, NEW side \in Sides, CastVote(d, v, side)
  PROVE  DisputeIInv'
<1>1. RegistryIInv /\ DisputeTypeOK /\ DisputeStands
  BY DEF DisputeIInv
<1>2. PICK r \in DisputeRecs : r = [dispute[d] EXCEPT !.status = "voting"]
  <2>1. dispute[d] \in DisputeRecs
    BY <1>1, DisputeTypes
  <2> QED
    BY <2>1, WithStatus
<1>3. /\ ~Is(d, "none") /\ ~Is(d, "resolved")
      /\ dispute' = [dispute EXCEPT ![d].status = "voting"]
      /\ ballot' = [ballot EXCEPT ![d][v] = side]
      /\ UNCHANGED <<arbiterVote, evidence>> /\ UNCHANGED courtVars /\ UNCHANGED registryVars
  BY DEF CastVote, InVoting, Is
<1>4. dispute \in [Disputes -> DisputeRecs] /\ dispute[d] \in DisputeRecs
  BY <1>1, DisputeTypes
<1>5. /\ r.agent = dispute[d].agent /\ r.resolution = dispute[d].resolution
      /\ r.round = dispute[d].round /\ r.status = "voting"
  BY <1>2, <1>4 DEF DisputeRecs
<1>6. dispute' = [dispute EXCEPT ![d] = r]
  BY <1>2, <1>3
<1>7. /\ ballot' \in [Disputes -> [Voters -> Sides \cup {"none"}]]
      /\ arbiterVote' \in [Disputes -> [Arbiters -> Sides \cup {"none"}]]
      /\ evidence' \in [Disputes -> 0 .. MaxEvidence]
  BY <1>1, <1>3, DisputeTypes
<1>8. r.status \notin {"none", "resolved"}
  BY <1>5
<1> QED
  BY <1>3, <1>5, <1>6, <1>7, <1>8, SameRuling

LEMMA ResolveStep ==
  ASSUME DisputeIInv, NEW d \in Disputes, Resolve(d)
  PROVE  DisputeIInv'
<1>1. RegistryIInv /\ DisputeTypeOK /\ DisputeStands /\ ledger \in Nat
  BY RegistryTypes DEF DisputeIInv, RegistryIInv
<1>2. PICK w, n : w = Awarded(d) /\ n = ledger + AppealPhase
  OBVIOUS
<1>3. /\ w \in DisputeRecs /\ w.agent = dispute[d].agent /\ w.resolution = dispute[d].resolution
      /\ w.round = dispute[d].round /\ n \in Nat
  BY <1>1, <1>2, AwardType, DisputeNumbers
<1>4. PICK r \in DisputeRecs : r = [w EXCEPT !.status = "appealPending", !.appealBy = n]
  BY <1>3 DEF DisputeRecs
<1>5. /\ r.agent = dispute[d].agent /\ r.resolution = dispute[d].resolution
      /\ r.round = dispute[d].round /\ r.status = "appealPending"
  BY <1>3, <1>4 DEF DisputeRecs
<1>6. /\ ~Is(d, "none") /\ ~Is(d, "resolved")
      /\ dispute' = [dispute EXCEPT ![d] = r]
      /\ UNCHANGED <<ballot, arbiterVote, evidence>> /\ UNCHANGED courtVars /\ UNCHANGED registryVars
  BY <1>2, <1>4 DEF Resolve, Is
<1>7. /\ ballot' \in [Disputes -> [Voters -> Sides \cup {"none"}]]
      /\ arbiterVote' \in [Disputes -> [Arbiters -> Sides \cup {"none"}]]
      /\ evidence' \in [Disputes -> 0 .. MaxEvidence]
  BY <1>1, <1>6, DisputeTypes
<1>8. r.status \notin {"none", "resolved"}
  BY <1>5
<1> QED
  BY <1>5, <1>6, <1>7, <1>8, SameRuling

LEMMA ArbiterStep ==
  ASSUME DisputeIInv, NEW d \in Disputes, NEW x \in Arbiters, NEW side \in Sides,
         VoteAsArbiter(d, x, side)
  PROVE  DisputeIInv'
<1> DEFINE votes == [arbiterVote[d] EXCEPT ![x] = side]
           counted == [y \in pool |-> votes[y]]
           outcome == CHOOSE s \in Sides : VotesFor(counted, s) >= RequiredArbiterVotes
           decided == \E s \in Sides : VotesFor(counted, s) >= RequiredArbiterVotes
<1>1. RegistryIInv /\ DisputeTypeOK /\ DisputeStands
  BY DEF DisputeIInv
<1>2. /\ ~Is(d, "none") /\ ~Is(d, "resolved")
      /\ arbiterVote' = [arbiterVote EXCEPT ![d] = votes]
      /\ dispute' = [dispute EXCEPT ![d].status = IF decided THEN "resolved" ELSE "voting"]
      /\ IF decided THEN SettleBond(dispute[d].agent, outcome) ELSE UNCHANGED registryVars
      /\ UNCHANGED <<ballot, evidence>> /\ UNCHANGED courtVars
  BY DEF VoteAsArbiter, InVoting, Is
<1>3. decided => outcome \in Sides
  OBVIOUS
<1>4. arbiterVote' \in [Disputes -> [Arbiters -> Sides \cup {"none"}]]
  BY <1>1, <1>2, DisputeTypes
<1> HIDE DEF votes, counted, outcome, decided
<1>5. CASE decided
  <2>1. /\ dispute' = [dispute EXCEPT ![d].status = "resolved"]
        /\ SettleBond(dispute[d].agent, outcome) /\ outcome \in Sides
    BY <1>2, <1>3, <1>5
  <2> QED
    BY <1>2, <1>4, <2>1, RulingStep
<1>6. CASE ~decided
  <2>1. PICK r \in DisputeRecs : r = [dispute[d] EXCEPT !.status = "voting"]
    <3>1. dispute[d] \in DisputeRecs
      BY <1>1, DisputeTypes
    <3> QED
      BY <3>1, WithStatus
  <2>2. dispute \in [Disputes -> DisputeRecs] /\ dispute[d] \in DisputeRecs
    BY <1>1, DisputeTypes
  <2>3. /\ r.agent = dispute[d].agent /\ r.resolution = dispute[d].resolution
        /\ r.round = dispute[d].round /\ r.status = "voting"
    BY <2>1, <2>2 DEF DisputeRecs
  <2>4. dispute' = [dispute EXCEPT ![d] = r] /\ UNCHANGED registryVars
    BY <1>2, <1>6, <2>1
  <2>5. /\ ballot' \in [Disputes -> [Voters -> Sides \cup {"none"}]]
        /\ evidence' \in [Disputes -> 0 .. MaxEvidence]
    BY <1>1, <1>2, DisputeTypes
  <2>6. r.status \notin {"none", "resolved"}
    BY <2>3
  <2> QED
    BY <1>2, <1>4, <2>3, <2>4, <2>5, <2>6, SameRuling
<1> QED
  BY <1>5, <1>6

\* An appeal and a final ruling ask for the resolution that resolve_dispute leaves out.
LEMMA NoLateStep ==
  ASSUME DisputeIInv, NEW d \in Disputes
  PROVE  ~LateStep(d)
<1>1. dispute[d].resolution = "none" /\ dispute[d].round = 0
  BY DEF DisputeIInv, DisputeStands
<1>2. \A p \in Owners \cup AgentIds : ~AppealDispute(d, p)
  BY <1>1 DEF AppealDispute
<1>3. ~ResolveAppeal(d)
  BY <1>1 DEF ResolveAppeal
<1>4. ~FinalizeDispute(d)
  BY <1>1 DEF FinalizeDispute
<1> QED
  BY <1>2, <1>3, <1>4 DEF LateStep

\* The administrator's settings.
LEMMA CourtStep ==
  ASSUME DisputeIInv, CourtAdmin
  PROVE  DisputeIInv'
<1>1. /\ RegistryIInv /\ DisputeTypeOK /\ DisputeStands /\ LocksAreDisputes /\ LockedBondsStay
      /\ RegistryTypeOK
  BY DEF DisputeIInv, RegistryIInv
<1>2. /\ AdminAct
      /\ \/ \E s \in SUBSET Arbiters : SetArbiterPool(s)
         \/ \E s \in SUBSET Voters : SetVoters(s)
         \/ \E v \in Voters, n \in {VoterStanding - 1, VoterStanding} : SetReputation(v, n)
         \/ \E b \in BOOLEAN : SetCourtPaused(b)
      /\ KeepBonds /\ UNCHANGED <<frozen, slaSet, minBond, registryPaused, ledger>>
      /\ UNCHANGED <<dispute, ballot, arbiterVote, evidence>>
  BY DEF CourtAdmin
<1>3. adminActs' \in 0 .. MaxAdminActs
  <2>1. adminActs \in 0 .. MaxAdminActs
    BY <1>1 DEF RegistryTypeOK
  <2> QED
    BY <1>2, <2>1, RegistryNumbers DEF AdminAct
<1>4. /\ held' = held
      /\ UNCHANGED <<agentRec, bondRec, cooling, flagged, rewardPool, paidIn, paidOut>>
      /\ UNCHANGED indexVars
  BY <1>2 DEF KeepBonds
<1>5. RegistryIInv'
  <2>1. /\ held' \subseteq AgentIds /\ frozen' \subseteq AgentIds /\ slaSet' \subseteq AgentIds
        /\ minBond' \in MinBonds /\ registryPaused' \in BOOLEAN /\ ledger' \in 0 .. LedgerEnd
    BY <1>1, <1>2, <1>4 DEF RegistryTypeOK
  <2> QED
    BY <1>1, <1>3, <1>4, <2>1, SameBonds
<1>6. /\ pool' \subseteq Arbiters /\ electorate' \subseteq Voters
      /\ standing' \in [Voters -> {VoterStanding - 1, VoterStanding}] /\ courtPaused' \in BOOLEAN
  <2>1. /\ pool \subseteq Arbiters /\ electorate \subseteq Voters
        /\ standing \in [Voters -> {VoterStanding - 1, VoterStanding}] /\ courtPaused \in BOOLEAN
    BY <1>1, DisputeTypes
  <2>2. CASE \E s \in SUBSET Arbiters : SetArbiterPool(s)
    BY <2>1, <2>2 DEF SetArbiterPool
  <2>3. CASE \E s \in SUBSET Voters : SetVoters(s)
    BY <2>1, <2>3 DEF SetVoters
  <2>4. CASE \E v \in Voters, n \in {VoterStanding - 1, VoterStanding} : SetReputation(v, n)
    BY <2>1, <2>4 DEF SetReputation
  <2>5. CASE \E b \in BOOLEAN : SetCourtPaused(b)
    BY <2>1, <2>5 DEF SetCourtPaused
  <2> QED
    BY <1>2, <2>2, <2>3, <2>4, <2>5
<1>7. DisputeTypeOK'
  BY <1>1, <1>2, <1>6, DisputeTypes, DisputeTyped
<1>8. \A x \in held : Reachable(x) => Reachable(x)'
  BY <1>4 DEF Reachable, Registered, IsCooling
<1>9. dispute' = dispute
  BY <1>2
<1>10. DisputeStands' /\ LocksAreDisputes' /\ LockedBondsStay'
  BY <1>1, <1>4, <1>8, <1>9, SameLocks
<1> QED
  BY <1>5, <1>7, <1>10 DEF DisputeIInv

LEMMA DisputeKeeps ==
  ASSUME DisputeIInv, [DisputeNext \/ \E d \in Disputes : LateStep(d)]_<<registryVars, disputeVars>>
  PROVE  DisputeIInv'
<1>1. /\ RegistryIInv /\ DisputeTypeOK /\ DisputeStands /\ LocksAreDisputes /\ LockedBondsStay
      /\ RegistryTypeOK
  BY DEF DisputeIInv, RegistryIInv
<1>2. ASSUME RegistryIInv', held' = held, \A x \in held : Reachable(x) => Reachable(x)',
             UNCHANGED disputeVars
      PROVE  DisputeIInv'
  <2>1. DisputeTypeOK'
    BY <1>1, <1>2, DisputeTypes, DisputeTyped DEF disputeVars
  <2>2. dispute' = dispute
    BY <1>2 DEF disputeVars
  <2>3. DisputeStands' /\ LocksAreDisputes' /\ LockedBondsStay'
    BY <1>1, <1>2, <2>2, SameLocks
  <2> QED
    BY <1>2, <2>1, <2>3 DEF DisputeIInv
<1>3. CASE (RegistryStep \/ RegistryTick) /\ UNCHANGED disputeVars
  <2>1. /\ RegistryIInv' /\ held' = held
        /\ \A x \in held : Reachable(x) => Reachable(x)'
    BY <1>1, <1>3, RegistrySpares
  <2> QED
    BY <1>2, <1>3, <2>1
<1>4. CASE UNCHANGED <<registryVars, disputeVars>>
  <2>1. UNCHANGED registryVars /\ UNCHANGED disputeVars
    BY <1>4
  <2>2. RegistryIInv' /\ held' = held /\ \A x \in held : Reachable(x) => Reachable(x)'
    BY <1>1, <2>1, RegistryStill
  <2> QED
    BY <1>2, <2>1, <2>2
<1>5. ASSUME NEW d \in Disputes, DisputeStep(d) PROVE DisputeIInv'
  BY <1>5, FileStep, EvidenceStep, ResolveStep, CastStep, ArbiterStep DEF DisputeStep
<1>6. CASE CourtAdmin
  BY <1>6, CourtStep
<1> QED
  BY <1>3, <1>4, <1>5, <1>6, NoLateStep DEF DisputeNext

LEMMA DisputeStarts == DisputeInit => DisputeIInv
<1> SUFFICES ASSUME DisputeInit PROVE DisputeIInv
  OBVIOUS
<1>1. RegistryIInv /\ held = {}
  BY RegistryStarts DEF DisputeInit, RegistryInit
<1>2. \A d \in Disputes : dispute[d] = NoDispute
  BY DEF DisputeInit
<1>3. DisputeTypeOK
  <2>1. NoDispute \in DisputeRecs
    BY DEF NoDispute, DisputeRecs
  <2>2. dispute \in [Disputes -> DisputeRecs]
    BY <2>1 DEF DisputeInit
  <2>3. evidence \in [Disputes -> 0 .. MaxEvidence]
    <3>1. 0 \in 0 .. MaxEvidence
      BY DisputeNumbers
    <3> QED
      BY <3>1 DEF DisputeInit
  <2>4. /\ ballot \in [Disputes -> [Voters -> Sides \cup {"none"}]]
        /\ arbiterVote \in [Disputes -> [Arbiters -> Sides \cup {"none"}]]
        /\ pool \subseteq Arbiters /\ electorate \subseteq Voters
        /\ standing \in [Voters -> {VoterStanding - 1, VoterStanding}] /\ courtPaused \in BOOLEAN
    BY DisputeNumbers DEF DisputeInit
  <2> QED
    BY <2>2, <2>3, <2>4 DEF DisputeTypeOK, DisputeRecs
<1>4. DisputeStands
  BY <1>2 DEF DisputeStands, NoDispute, Is
<1>5. \A d \in Disputes, a \in AgentIds : ~OpenOver(d, a)
  BY <1>2, DisputeNumbers DEF OpenOver, NoDispute
<1>6. LocksAreDisputes
  BY <1>1, <1>5 DEF LocksAreDisputes
<1>7. LockedBondsStay
  BY <1>1 DEF LockedBondsStay
<1> QED
  BY <1>1, <1>3, <1>4, <1>6, <1>7 DEF DisputeIInv

LEMMA DisputeImplies == DisputeIInv => DisputeInv
<1> SUFFICES ASSUME DisputeIInv PROVE DisputeInv
  OBVIOUS
<1>1. RegistryTypeOK /\ IndexesAgree /\ PaysBackWhatCameIn
  BY CoveredPays DEF DisputeIInv, RegistryIInv
<1>2. LocksFollowDisputes
  BY LocksFollow DEF DisputeIInv
<1> QED
  BY <1>1, <1>2 DEF DisputeIInv, DisputeInv, RegistryInv

(* Whatever order bonds are slashed, rewarded, restored, cooled, claimed    *)
(* and registered anew in, the registry announces no more than owners       *)
(* brought, its indexes list each agent once, and a bond is locked exactly  *)
(* while one open dispute is about its agent, who can do nothing to it      *)
(* (internal_slash_bond, claim_bond, deregister_agent, file_dispute).       *)
THEOREM DisputeHolds == DisputeSpec => []DisputeInv
<1>1. DisputeIInv /\ [DisputeNext]_<<registryVars, disputeVars>> => DisputeIInv'
  BY DisputeKeeps
<1> QED
  BY <1>1, DisputeStarts, DisputeImplies, PTL DEF DisputeSpec

-----------------------------------------------------------------------------
\* The time of the ledger never goes back.
LEMMA LedgerGrows ==
  ASSUME RegistryTypeOK, [DisputeNext]_<<registryVars, disputeVars>>
  PROVE  ledger' >= ledger
<1>1. ledger \in Nat
  BY RegistryTypes
<1>2. SUFFICES ledger' = ledger \/ ledger' = ledger + 1
  BY <1>1
<1>3. ASSUME RegistryStep PROVE ledger' = ledger
  <2>1. ASSUME NEW r \in Rows, NEW q \in Rows, RegisterAgents({r, q}) PROVE ledger' = ledger
    BY <2>1 DEF RegisterAgents, KeepAdmin
  <2>2. ASSUME NEW a \in AgentIds, BondStep(a) PROVE ledger' = ledger
    <3>1. ASSUME NEW n, \/ DepositBond(a, n) \/ RestoreSlashedBond(a, n) \/ RewardBond(a, n)
                        \/ SlashBondAmount(a, n)
          PROVE  ledger' = ledger
      BY <3>1 DEF DepositBond, RestoreSlashedBond, RewardBond, SlashBondAmount, SlashInternal, KeepAdmin
    <3>2. ASSUME LeaveRegistry(a) \/ ReturnCooled(a) PROVE ledger' = ledger
      BY <3>2 DEF LeaveRegistry, ReturnCooled, KeepAdmin
    <3>3. ASSUME InitiateBondReturn(a) \/ ClaimBond(a) \/ SlashBond(a, 50) \/ CheckSlaCompliance(a)
          PROVE  ledger' = ledger
      BY <3>3 DEF InitiateBondReturn, ClaimBond, SlashBond, SlashInternal, CheckSlaCompliance, KeepAdmin
    <3> QED
      BY <2>2, <3>1, <3>2, <3>3 DEF BondStep
  <2>3. ASSUME AdminStep PROVE ledger' = ledger
    BY <2>3 DEF AdminStep
  <2>4. ASSUME NEW a \in AgentIds, SetSla(a) PROVE ledger' = ledger
    BY <2>4 DEF SetSla
  <2> QED
    BY <1>3, <2>1, <2>2, <2>3, <2>4 DEF RegistryStep
<1>4. ASSUME RegistryTick PROVE ledger' = ledger + 1
  BY <1>4 DEF RegistryTick
<1>5. ASSUME UNCHANGED registryVars PROVE ledger' = ledger
  BY <1>5 DEF registryVars
<1>6. ASSUME NEW d \in Disputes, DisputeStep(d) PROVE ledger' = ledger
  BY <1>5, <1>6 DEF DisputeStep, FileDispute, SubmitEvidence, Resolve, CastVote, VoteAsArbiter,
              LockBondForDispute, SettleBond, SlashBondFromDispute, SlashInternal,
              ReleaseBondAfterDispute, KeepAdmin
<1>7. ASSUME CourtAdmin PROVE ledger' = ledger
  BY <1>7 DEF CourtAdmin
<1> QED
  BY <1>3, <1>4, <1>5, <1>6, <1>7 DEF DisputeNext

\* A dispute with a ruling is past its vote.
VotesAreOver == \A d \in Disputes : Is(d, "appealPending") => ledger >= dispute[d].voteBy

LEMMA RuledOnce ==
  ASSUME DisputeIInv, VotesAreOver, [DisputeNext]_<<registryVars, disputeVars>>,
         NEW d \in Disputes, Is(d, "appealPending")
  PROVE  dispute'[d] = dispute[d]
<1>1. DisputeTypeOK /\ RegistryTypeOK
  BY DEF DisputeIInv, RegistryIInv
<1>2. dispute \in [Disputes -> DisputeRecs] /\ dispute[d] \in DisputeRecs /\ ledger \in Nat
  BY <1>1, DisputeTypes, RegistryTypes
<1>3. ~InVoting(d)
  <2>1. dispute[d].voteBy \in Nat /\ ledger >= dispute[d].voteBy
    BY <1>2 DEF DisputeRecs, VotesAreOver
  <2> QED
    BY <1>2, <2>1 DEF InVoting
<1>4. ASSUME NEW e \in Disputes, DisputeStep(e) PROVE dispute'[d] = dispute[d]
  <2>1. CASE e = d
    <3>1. \A o \in Owners, a \in AgentIds : ~FileDispute(d, o, a)
      BY DEF FileDispute, Is
    <3>2. ~Resolve(d)
      BY DEF Resolve, Is
    <3>3. \A v \in Voters, side \in Sides : ~CastVote(d, v, side)
      BY <1>3 DEF CastVote
    <3>4. \A x \in Arbiters, side \in Sides : ~VoteAsArbiter(d, x, side)
      BY <1>3 DEF VoteAsArbiter
    <3>5. SubmitEvidence(d)
      BY <1>4, <2>1, <3>1, <3>2, <3>3, <3>4 DEF DisputeStep
    <3> QED
      BY <3>5 DEF SubmitEvidence
  <2>2. CASE e # d
    <3>1. ASSUME NEW o \in Owners, NEW a \in AgentIds, FileDispute(e, o, a)
          PROVE  dispute'[d] = dispute[d]
      BY <1>2, <2>2, <3>1 DEF FileDispute
    <3>2. ASSUME Resolve(e) PROVE dispute'[d] = dispute[d]
      BY <1>2, <2>2, <3>2 DEF Resolve
    <3>3. ASSUME NEW v \in Voters, NEW side \in Sides, CastVote(e, v, side)
          PROVE  dispute'[d] = dispute[d]
      BY <1>2, <2>2, <3>3 DEF CastVote
    <3>4. ASSUME NEW x \in Arbiters, NEW side \in Sides, VoteAsArbiter(e, x, side)
          PROVE  dispute'[d] = dispute[d]
      <4>1. PICK s : dispute' = [dispute EXCEPT ![e].status = s]
        BY <3>4 DEF VoteAsArbiter
      <4> QED
        BY <1>2, <2>2, <4>1
    <3>5. ASSUME SubmitEvidence(e) PROVE dispute'[d] = dispute[d]
      BY <3>5 DEF SubmitEvidence
    <3> QED
      BY <1>4, <3>1, <3>2, <3>3, <3>4, <3>5 DEF DisputeStep
  <2> QED
    BY <2>1, <2>2
<1>5. ASSUME dispute' = dispute PROVE dispute'[d] = dispute[d]
  BY <1>5
<1> QED
  BY <1>4, <1>5 DEF DisputeNext, CourtAdmin, disputeVars

LEMMA VotesStayOver ==
  ASSUME DisputeIInv, VotesAreOver, [DisputeNext]_<<registryVars, disputeVars>>
  PROVE  VotesAreOver'
<1>1. DisputeTypeOK /\ RegistryTypeOK
  BY DEF DisputeIInv, RegistryIInv
<1>2. dispute \in [Disputes -> DisputeRecs] /\ ledger \in Nat /\ ledger' >= ledger
  BY <1>1, DisputeTypes, RegistryTypes, LedgerGrows
<1>3. ledger' \in Nat
  <2>1. RegistryTypeOK'
    BY DisputeKeeps DEF DisputeIInv, RegistryIInv
  <2>2. ledger' \in 0 .. LedgerEnd
    BY <2>1 DEF RegistryTypeOK
  <2> QED
    BY <2>2, RegistryNumbers
<1> SUFFICES ASSUME NEW d \in Disputes, dispute'[d].status = "appealPending"
             PROVE  ledger' >= dispute'[d].voteBy
  BY DEF VotesAreOver, Is
<1>4. ASSUME dispute'[d] = dispute[d] PROVE ledger' >= dispute'[d].voteBy
  <2>1. ledger >= dispute[d].voteBy /\ dispute[d].voteBy \in Nat
    BY <1>2, <1>4 DEF VotesAreOver, Is, DisputeRecs
  <2> QED
    BY <1>2, <1>3, <1>4, <2>1
<1>5. ASSUME NEW e \in Disputes, DisputeStep(e) PROVE ledger' >= dispute'[d].voteBy
  <2>1. ASSUME NEW o \in Owners, NEW a \in AgentIds, FileDispute(e, o, a)
        PROVE  ledger' >= dispute'[d].voteBy
    <3>1. PICK r : dispute' = [dispute EXCEPT ![e] = r] /\ r.status = "evidence"
      <4> DEFINE by == ledger + EvidencePhase
                 r == [NoDispute EXCEPT !.status = "evidence", !.agent = a,
                         !.filer = o, !.evidenceBy = by, !.voteBy = by + VotingPhase, !.voters = electorate]
      <4>1. dispute' = [dispute EXCEPT ![e] = r]
        BY <2>1 DEF FileDispute
      <4>2. r.status = "evidence"
        BY DEF NoDispute
      <4> HIDE DEF r
      <4> QED
        BY <4>1, <4>2
    <3> QED
      BY <1>2, <1>4, <3>1
  <2>2. ASSUME Resolve(e) PROVE ledger' >= dispute'[d].voteBy
    <3>1. PICK r, w : /\ w = Awarded(e) /\ dispute' = [dispute EXCEPT ![e] = r]
                      /\ r = [w EXCEPT !.status = "appealPending", !.appealBy = ledger + AppealPhase]
                      /\ ledger >= dispute[e].voteBy
      BY <2>2 DEF Resolve
    <3>2. w \in DisputeRecs /\ w.voteBy = dispute[e].voteBy
      BY <1>1, <3>1, AwardType
    <3>3. r.voteBy = dispute[e].voteBy /\ dispute[e].voteBy \in Nat
      BY <1>2, <3>1, <3>2 DEF DisputeRecs
    <3>4. d # e => dispute'[d] = dispute[d]
      BY <1>2, <3>1
    <3>5. d = e => dispute'[d] = r
      BY <1>2, <3>1
    <3>6. d = e => ledger' >= dispute'[d].voteBy
      BY <1>2, <1>3, <3>1, <3>3, <3>5
    <3> QED
      BY <1>4, <3>4, <3>6
  <2>3. ASSUME NEW s \in {"voting", "resolved"}, dispute' = [dispute EXCEPT ![e].status = s]
        PROVE  ledger' >= dispute'[d].voteBy
    <3>1. d # e
      BY <1>2, <2>3 DEF DisputeRecs
    <3> QED
      BY <1>2, <1>4, <2>3, <3>1
  <2>4. ASSUME NEW v \in Voters, NEW side \in Sides, CastVote(e, v, side)
        PROVE  ledger' >= dispute'[d].voteBy
    BY <2>3, <2>4 DEF CastVote
  <2>5. ASSUME NEW x \in Arbiters, NEW side \in Sides, VoteAsArbiter(e, x, side)
        PROVE  ledger' >= dispute'[d].voteBy
    <3>1. PICK s \in {"voting", "resolved"} : dispute' = [dispute EXCEPT ![e].status = s]
      BY <2>5 DEF VoteAsArbiter
    <3> QED
      BY <2>3, <3>1
  <2>6. ASSUME SubmitEvidence(e) PROVE ledger' >= dispute'[d].voteBy
    BY <1>4, <2>6 DEF SubmitEvidence
  <2> QED
    BY <1>5, <2>1, <2>2, <2>4, <2>5, <2>6 DEF DisputeStep
<1>6. ASSUME dispute' = dispute PROVE ledger' >= dispute'[d].voteBy
  BY <1>4, <1>6
<1> QED
  BY <1>5, <1>6 DEF DisputeNext, CourtAdmin, disputeVars

\* A provisional ruling is left as it is, and so is the lock its dispute holds.
RulingsStay ==
  \A d \in Disputes : Is(d, "appealPending") => /\ dispute'[d] = dispute[d]
                                                /\ dispute[d].agent \in held'

LEMMA RulingsHold ==
  ASSUME DisputeIInv, VotesAreOver, [DisputeNext]_<<registryVars, disputeVars>>
  PROVE  RulingsStay
<1> SUFFICES ASSUME NEW d \in Disputes, Is(d, "appealPending")
             PROVE  dispute'[d] = dispute[d] /\ dispute[d].agent \in held'
  BY DEF RulingsStay
<1>1. dispute'[d] = dispute[d]
  BY RuledOnce
<1>2. DisputeIInv'
  BY DisputeKeeps
<1>3. PICK a : a = dispute[d].agent
  OBVIOUS
<1>4. a \in AgentIds
  <2>1. DisputeTypeOK /\ DisputeStands
    BY DEF DisputeIInv
  <2>2. dispute[d] \in DisputeRecs /\ a # NoParty
    BY <1>3, <2>1, DisputeTypes DEF DisputeStands, Is
  <2> QED
    BY <1>3, <2>2 DEF DisputeRecs
<1>5. OpenOver(d, a)'
  BY <1>1, <1>3 DEF OpenOver, Is
<1>6. a \in held'
  BY <1>2, <1>4, <1>5 DEF DisputeIInv, LocksAreDisputes
<1> QED
  BY <1>1, <1>3, <1>6

(* With appeals and final rulings among the calls, and time that passes:    *)
(* resolve_dispute leaves the resolution unwritten that appeal_dispute and  *)
(* finalize_dispute ask for, so a provisional ruling is never appealed,     *)
(* never final, and its agent's bond is locked for good.                    *)
THEOREM RulingsStayHolds == DisputeFairSpec => [][RulingsStay]_<<registryVars, disputeVars>>
<1> DEFINE RulingsLate == DisputeIInv /\ VotesAreOver
<1>1. DisputeInit => RulingsLate
  <2>1. DisputeInit => VotesAreOver
    BY DEF DisputeInit, VotesAreOver, NoDispute, Is
  <2> QED
    BY <2>1, DisputeStarts
<1>2. RulingsLate /\ [DisputeNext \/ \E d \in Disputes : LateStep(d)]_<<registryVars, disputeVars>>
        => RulingsLate' /\ RulingsStay
  <2> SUFFICES ASSUME RulingsLate, [DisputeNext \/ \E d \in Disputes : LateStep(d)]_<<registryVars, disputeVars>>
               PROVE  RulingsLate' /\ RulingsStay
    OBVIOUS
  <2>1. [DisputeNext]_<<registryVars, disputeVars>>
    BY NoLateStep
  <2> QED
    BY <2>1, DisputeKeeps, VotesStayOver, RulingsHold
<1> HIDE DEF RulingsLate
<1> QED
  BY <1>1, <1>2, PTL DEF DisputeFairSpec

-----------------------------------------------------------------------------
-----------------------------------------------------------------------------
(***************************************************************************)
(* The registry's proposals: what a proposal did is what its status says.  *)
(***************************************************************************)
OperationsSet == Operations \cup {NoMotion.op}
MotionRecord == [status : {"none", "open", "executed", "cancelled"}, op : OperationsSet,
                 by : Signers, eta : Nat, until : Nat, approvals : SUBSET Signers]

\* The settings, which direct calls and executed proposals change alike.
SettingsOK ==
  /\ chief \in Signers /\ signers \in SignerConfigs \cup {NoSigners}
  /\ halted \in BOOLEAN /\ minimum \in 0 .. FullBond
  /\ bonded \in [state : {"absent", "active", "cooldown"}, amount : 0 .. FullBond]

MultisigIInv ==
  /\ SettingsOK
  /\ motion \in [Motions -> MotionRecord]
  /\ \A id \in Motions : motion[id].status # "none" => motion[id].op \in Operations
  /\ carried \in [Motions -> Nat] /\ CarriedOnceIfExecuted
  /\ direct \in 0 .. MaxDirect /\ adminTime \in 0 .. AdminEnd

ProposalVars == <<motion, carried, adminTime>>

LEMMA MultisigBounds ==
  /\ FullBond \in Nat /\ MaxDirect \in Nat /\ AdminEnd \in Nat /\ PlainDelay \in Nat /\ MotionLife \in Nat
  /\ Genesis \in Signers /\ SignerConfigs \subseteq SignerLists
BY MultisigAssumption

LEMMA MultisigInitHolds == MultisigInit => MultisigIInv
<1> SUFFICES ASSUME MultisigInit PROVE MultisigIInv
  OBVIOUS
<1>1. SettingsOK
  <2>1. 0 \in 0 .. FullBond
    BY MultisigBounds
  <2>2. NoStake \in [state : {"absent", "active", "cooldown"}, amount : 0 .. FullBond]
    BY <2>1 DEF NoStake
  <2> QED
    BY <2>1, <2>2, MultisigBounds DEF MultisigInit, SettingsOK
<1>2. NoMotion \in MotionRecord
  BY MultisigBounds DEF NoMotion, MotionRecord, OperationsSet
<1>3. \A id \in Motions : motion[id].status = "none"
  BY DEF MultisigInit, NoMotion
<1>4. motion \in [Motions -> MotionRecord] /\ carried \in [Motions -> Nat]
  BY <1>2 DEF MultisigInit
<1>5. CarriedOnceIfExecuted
  BY <1>3 DEF MultisigInit, CarriedOnceIfExecuted
<1>6. direct \in 0 .. MaxDirect /\ adminTime \in 0 .. AdminEnd
  BY MultisigBounds DEF MultisigInit
<1> QED
  BY <1>1, <1>3, <1>4, <1>5, <1>6 DEF MultisigIInv

\* A direct call changes settings and leaves proposals as they are.
LEMMA DirectCallKeeps ==
  ASSUME MultisigIInv, SettingsOK', Direct
  PROVE  MultisigIInv'
<1>1. direct' \in 0 .. MaxDirect
  BY MultisigBounds DEF Direct, MultisigIInv
<1>2. UNCHANGED <<motion, carried, adminTime>>
  BY DEF Direct
<1> QED
  BY <1>1, <1>2 DEF MultisigIInv, CarriedOnceIfExecuted

\* A proposal that takes a new record keeps the count of its effects in step.
LEMMA MotionKeeps ==
  ASSUME MultisigIInv, SettingsOK', NEW id \in Motions, NEW m \in MotionRecord,
         motion' = [motion EXCEPT ![id] = m],
         m.status # "none" => m.op \in Operations,
         carried' = carried \/ carried' = [carried EXCEPT ![id] = carried[id] + 1],
         carried'[id] = IF m.status = "executed" THEN 1 ELSE 0,
         UNCHANGED <<direct, adminTime>>
  PROVE  MultisigIInv'
<1>1. motion \in [Motions -> MotionRecord] /\ carried \in [Motions -> Nat] /\ CarriedOnceIfExecuted
  BY DEF MultisigIInv
<1>2. motion' \in [Motions -> MotionRecord] /\ carried' \in [Motions -> Nat]
  BY <1>1
<1>3. \A j \in Motions : j # id => motion'[j] = motion[j] /\ carried'[j] = carried[j]
  BY <1>1
<1>4. motion'[id] = m
  BY <1>1
<1>5. CarriedOnceIfExecuted'
  BY <1>1, <1>3, <1>4 DEF CarriedOnceIfExecuted
<1>6. \A j \in Motions : motion'[j].status # "none" => motion'[j].op \in Operations
  BY <1>3, <1>4 DEF MultisigIInv
<1> QED
  BY <1>2, <1>5, <1>6 DEF MultisigIInv

LEMMA PerformKeeps ==
  ASSUME SettingsOK, NEW op \in Operations, Perform(op)
  PROVE  SettingsOK'
<1>1. CASE op.kind \in {"pause", "unpause"} /\ halted' = (op.kind = "pause") /\ UNCHANGED <<chief, signers, minimum, bonded>>
  BY <1>1 DEF SettingsOK
<1>2. CASE op.kind = "set_admin" /\ chief' = op.to /\ UNCHANGED <<signers, halted, minimum, bonded>>
  <2>1. op.to \in Signers
    BY <1>2, MultisigAssumption
  <2> QED
    BY <1>2, <2>1 DEF SettingsOK
<1>3. CASE op.kind = "slash" /\ Slash(op.amount) /\ UNCHANGED <<chief, signers, halted, minimum>>
  <2>1. op.amount \in Nat
    BY <1>3, MultisigAssumption
  <2> DEFINE n == op.amount
  <2> HIDE DEF n
  <2>2. n \in Nat /\ bonded' = [bonded EXCEPT !.amount = IF n >= bonded.amount THEN 0 ELSE bonded.amount - n]
    BY <1>3, <2>1 DEF Slash, n
  <2>3. bonded' \in [state : {"absent", "active", "cooldown"}, amount : 0 .. FullBond]
    BY <2>2, MultisigBounds DEF SettingsOK
  <2> QED
    BY <1>3, <2>3 DEF SettingsOK
<1>4. CASE op.kind = "min_bond" /\ minimum' = op.amount /\ UNCHANGED <<chief, signers, halted, bonded>>
  <2>1. op.amount \in 0 .. FullBond
    BY <1>4, MultisigAssumption
  <2> QED
    BY <1>4, <2>1 DEF SettingsOK
<1>5. CASE op.kind = "multisig" /\ signers' = op.config /\ UNCHANGED <<chief, halted, minimum, bonded>>
  <2>1. op.config \in SignerConfigs
    BY <1>5, MultisigAssumption
  <2> QED
    BY <1>5, <2>1 DEF SettingsOK
<1> QED
  BY <1>1, <1>2, <1>3, <1>4, <1>5 DEF Perform

LEMMA DirectStepHolds ==
  ASSUME MultisigIInv
  PROVE  /\ \A s \in Signers : SetAdmin(s) \/ ClearMultisigConfig(s) => MultisigIInv'
         /\ \A s \in Signers, c \in SignerConfigs : SetMultisigConfig(s, c) => MultisigIInv'
         /\ \A b \in BOOLEAN : SetPaused(b) => MultisigIInv'
         /\ \A n \in 0 .. FullBond : ChiefSetsMinBond(n) => MultisigIInv'
         /\ OwnerCalls => MultisigIInv'
<1>0. SettingsOK
  BY DEF MultisigIInv
<1>1. ASSUME NEW s \in Signers, SetAdmin(s) \/ ClearMultisigConfig(s) PROVE SettingsOK' /\ Direct
  BY <1>0, <1>1 DEF SetAdmin, ClearMultisigConfig, SettingsOK
<1>2. ASSUME NEW s \in Signers, NEW c \in SignerConfigs, SetMultisigConfig(s, c) PROVE SettingsOK' /\ Direct
  BY <1>0, <1>2 DEF SetMultisigConfig, SettingsOK
<1>3. ASSUME NEW b \in BOOLEAN, SetPaused(b) PROVE SettingsOK' /\ Direct
  BY <1>0, <1>3 DEF SetPaused, SettingsOK
<1>4. ASSUME NEW n \in 0 .. FullBond, ChiefSetsMinBond(n) PROVE SettingsOK' /\ Direct
  BY <1>0, <1>4 DEF ChiefSetsMinBond, SettingsOK
<1>5. ASSUME OwnerCalls PROVE SettingsOK' /\ Direct
  <2>1. bonded' \in [state : {"absent", "active", "cooldown"}, amount : 0 .. FullBond]
    BY <1>0, <1>5, MultisigBounds DEF OwnerCalls, NoStake, SettingsOK
  <2> QED
    BY <1>0, <1>5, <2>1 DEF OwnerCalls, SettingsOK
<1> QED
  BY <1>1, <1>2, <1>3, <1>4, <1>5, DirectCallKeeps

LEMMA MultisigStepHolds == MultisigIInv /\ [MultisigNext]_multisigVars => MultisigIInv'
<1> SUFFICES ASSUME MultisigIInv, [MultisigNext]_multisigVars PROVE MultisigIInv'
  OBVIOUS
<1>0. /\ SettingsOK /\ motion \in [Motions -> MotionRecord] /\ carried \in [Motions -> Nat]
      /\ CarriedOnceIfExecuted /\ adminTime \in 0 .. AdminEnd
      /\ \A id \in Motions : motion[id].status # "none" => motion[id].op \in Operations
  BY DEF MultisigIInv
<1>1. ASSUME NEW s \in Signers, NEW id \in Motions, NEW op \in Operations, ProposeOperation(s, id, op)
      PROVE  MultisigIInv'
  <2> DEFINE m == [status |-> "open", op |-> op, by |-> s, eta |-> adminTime + signers.delay,
                   until |-> adminTime + MotionLife, approvals |-> {s}]
  <2>1. signers.delay \in Nat
    BY <1>0, MultisigBounds DEF SettingsOK, NoSigners, SignerLists
  <2>2. adminTime \in Nat /\ MotionLife \in Nat
    BY <1>0, MultisigBounds
  <2>3. m \in MotionRecord
    BY <2>1, <2>2 DEF MotionRecord, OperationsSet
  <2>4. motion' = [motion EXCEPT ![id] = m] /\ UNCHANGED <<chief, signers, halted, minimum, bonded, carried, direct, adminTime>>
    BY <1>1 DEF ProposeOperation
  <2>5. motion[id].status = "none"
    BY <1>1 DEF ProposeOperation, NoMotion
  <2>6. carried'[id] = 0 /\ m.status = "open" /\ m.op \in Operations
    BY <1>0, <2>4, <2>5 DEF CarriedOnceIfExecuted
  <2>7. SettingsOK'
    BY <1>0, <2>4 DEF SettingsOK
  <2> HIDE DEF m
  <2> QED
    BY <2>3, <2>4, <2>6, <2>7, MotionKeeps
<1>2. ASSUME NEW s \in Signers, NEW id \in Motions, ApproveOperation(s, id)
      PROVE  MultisigIInv'
  <2> DEFINE m == [motion[id] EXCEPT !.approvals = motion[id].approvals \cup {s}]
  <2>1. motion' = [motion EXCEPT ![id] = m] /\ UNCHANGED <<chief, signers, halted, minimum, bonded, carried, direct, adminTime>>
    BY <1>2 DEF ApproveOperation
  <2>2. m \in MotionRecord /\ m.status = motion[id].status /\ m.op = motion[id].op
    BY <1>0 DEF MotionRecord
  <2>3. carried'[id] = IF m.status = "executed" THEN 1 ELSE 0
    BY <1>0, <2>1, <2>2 DEF CarriedOnceIfExecuted
  <2>4. m.status # "none" => m.op \in Operations
    BY <1>0, <2>2
  <2>5. SettingsOK'
    BY <1>0, <2>1 DEF SettingsOK
  <2> HIDE DEF m
  <2> QED
    BY <2>1, <2>2, <2>3, <2>4, <2>5, MotionKeeps
<1>3. ASSUME NEW id \in Motions, CancelOperation(id)
      PROVE  MultisigIInv'
  <2> DEFINE m == [motion[id] EXCEPT !.status = "cancelled"]
  <2>1. motion' = [motion EXCEPT ![id] = m] /\ UNCHANGED <<chief, signers, halted, minimum, bonded, carried, direct, adminTime>>
    BY <1>3 DEF CancelOperation
  <2>2. m \in MotionRecord /\ m.status = "cancelled" /\ m.op = motion[id].op
    BY <1>0 DEF MotionRecord
  <2>3. motion[id].status = "open"
    BY <1>3 DEF CancelOperation, Withdrawable
  <2>4. carried'[id] = 0
    BY <1>0, <2>1, <2>3 DEF CarriedOnceIfExecuted
  <2>5. m.op \in Operations
    BY <1>0, <2>2, <2>3
  <2>6. SettingsOK'
    BY <1>0, <2>1 DEF SettingsOK
  <2> HIDE DEF m
  <2> QED
    BY <2>1, <2>2, <2>4, <2>5, <2>6, MotionKeeps
<1>4. ASSUME NEW s \in Signers, NEW id \in Motions, ExecuteOperation(s, id)
      PROVE  MultisigIInv'
  <2> DEFINE m == [motion[id] EXCEPT !.status = "executed"]
  <2>1. /\ motion' = [motion EXCEPT ![id] = m]
        /\ carried' = [carried EXCEPT ![id] = carried[id] + 1]
        /\ motion[id].status = "open" /\ Perform(motion[id].op)
        /\ UNCHANGED <<direct, adminTime>>
    BY <1>4 DEF ExecuteOperation, Pending
  <2>2. m \in MotionRecord /\ m.status = "executed" /\ m.op = motion[id].op
    BY <1>0 DEF MotionRecord
  <2>3. motion[id].op \in Operations
    BY <1>0, <2>1
  <2>4. SettingsOK'
    BY <1>0, <2>1, <2>3, PerformKeeps
  <2>5. carried'[id] = 1
    BY <1>0, <2>1 DEF CarriedOnceIfExecuted
  <2> HIDE DEF m
  <2> QED
    BY <2>1, <2>2, <2>3, <2>4, <2>5, MotionKeeps
<1>5. CASE AdminTick
  <2>1. adminTime' \in 0 .. AdminEnd
    BY <1>0, <1>5, MultisigBounds DEF AdminTick
  <2>2. UNCHANGED <<chief, signers, motion, halted, minimum, bonded, carried, direct>>
    BY <1>5 DEF AdminTick
  <2> QED
    BY <2>1, <2>2 DEF MultisigIInv, SettingsOK, CarriedOnceIfExecuted
<1>6. CASE UNCHANGED multisigVars
  BY <1>6 DEF multisigVars, MultisigIInv, SettingsOK, CarriedOnceIfExecuted
<1> QED
  BY <1>1, <1>2, <1>3, <1>4, <1>5, <1>6, DirectStepHolds DEF MultisigNext

\* A proposal of the registry's multisig takes effect once if it was executed
\* and never otherwise, whoever approves, cancels or changes the signers in
\* between (execute_operation, cancel_operation).
THEOREM MultisigHolds == MultisigSpec => []MultisigInv
<1>1. MultisigIInv => MultisigInv
  BY DEF MultisigIInv, MultisigInv, MultisigTypeOK, SettingsOK, MotionRecord, OperationsSet
<1> QED
  BY <1>1, MultisigInitHolds, MultisigStepHolds, PTL DEF MultisigSpec

-----------------------------------------------------------------------------
-----------------------------------------------------------------------------
(***************************************************************************)
(* Versions: the published versions of an agent ascend, and all but the    *)
(* last are superseded.                                                    *)
(***************************************************************************)
\* VersionLT orders versions: first by major, then by minor, then by patch.
LEMMA VersionOrder ==
  ASSUME NEW x \in Semver, NEW y \in Semver
  PROVE  VersionLT(x, y) <=> \/ x[1] < y[1]
                             \/ x[1] = y[1] /\ x[2] < y[2]
                             \/ x[1] = y[1] /\ x[2] = y[2] /\ x[3] < y[3]
<1>1. 1 .. 3 = {1, 2, 3} /\ 1 .. 1 - 1 = {} /\ 1 .. 2 - 1 = {1} /\ 1 .. 3 - 1 = {1, 2}
  OBVIOUS
<1>2. VersionLT(x, y) <=> \/ x[1] < y[1] /\ \A j \in 1 .. 1 - 1 : x[j] = y[j]
                          \/ x[2] < y[2] /\ \A j \in 1 .. 2 - 1 : x[j] = y[j]
                          \/ x[3] < y[3] /\ \A j \in 1 .. 3 - 1 : x[j] = y[j]
  BY <1>1 DEF VersionLT
<1> QED
  BY <1>1, <1>2

LEMMA VersionOrderIsStrict ==
  ASSUME NEW x \in Semver, NEW y \in Semver, NEW z \in Semver
  PROVE  /\ ~VersionLT(x, x)
         /\ VersionLT(x, y) /\ VersionLT(y, z) => VersionLT(x, z)
<1>1. x[1] \in Nat /\ x[2] \in Nat /\ x[3] \in Nat
  BY DEF Semver
<1>2. y[1] \in Nat /\ y[2] \in Nat /\ y[3] \in Nat
  BY DEF Semver
<1>3. z[1] \in Nat /\ z[2] \in Nat /\ z[3] \in Nat
  BY DEF Semver
<1> QED
  BY <1>1, <1>2, <1>3, VersionOrder

Ascending(s) == \A i, j \in DOMAIN s : i < j => VersionLT(s[i], s[j])
AllButLast(s) == {s[i] : i \in {k \in DOMAIN s : k < Len(s)}}

VersionsIInv ==
  /\ VersionsTypeOK
  /\ \A a \in VersionedAgents : /\ Ascending(published[a])
                                /\ superseded[a] = AllButLast(published[a])
  /\ OneRollbackPerUpgrade

\* Publishing a version above all others keeps the order and supersedes the last.
LEMMA PublishKeeps ==
  ASSUME NEW s \in Seq(AgentVersions), NEW v \in AgentVersions, Ascending(s),
         \A i \in DOMAIN s : VersionLT(s[i], v)
  PROVE  /\ Append(s, v) \in Seq(AgentVersions)
         /\ Ascending(Append(s, v))
         /\ AllButLast(Append(s, v)) =
              IF s = <<>> THEN AllButLast(s) ELSE AllButLast(s) \cup {Last(s)}
<1> DEFINE t == Append(s, v)
<1>1. /\ t \in Seq(AgentVersions) /\ Len(t) = Len(s) + 1 /\ t[Len(s) + 1] = v
      /\ DOMAIN t = 1 .. Len(s) + 1 /\ DOMAIN s = 1 .. Len(s) /\ Len(s) \in Nat
      /\ \A i \in DOMAIN s : t[i] = s[i]
  OBVIOUS
<1> HIDE DEF t
<1>2. Ascending(t)
  BY <1>1 DEF Ascending
<1>3. AllButLast(t) = {s[i] : i \in DOMAIN s}
  BY <1>1 DEF AllButLast
<1>4. AllButLast(t) = IF s = <<>> THEN AllButLast(s) ELSE AllButLast(s) \cup {Last(s)}
  <2>1. CASE s = <<>>
    <3>1. DOMAIN s = {}
      BY <1>1, <2>1
    <3> QED
      BY <1>3, <2>1, <3>1 DEF AllButLast
  <2>2. CASE s # <<>>
    <3>1. Len(s) \in DOMAIN s /\ Last(s) = s[Len(s)]
      BY <1>1, <2>2 DEF Last
    <3>2. DOMAIN s = {k \in DOMAIN s : k < Len(s)} \cup {Len(s)}
      BY <1>1, <3>1
    <3>3. {s[i] : i \in DOMAIN s} = AllButLast(s) \cup {Last(s)}
      BY <3>1, <3>2 DEF AllButLast
    <3> QED
      BY <1>3, <2>2, <3>3
  <2> QED
    BY <2>1, <2>2
<1> QED
  BY <1>1, <1>2, <1>4 DEF t

LEMMA VersionsInitHolds == VersionsInit => VersionsIInv
<1> SUFFICES ASSUME VersionsInit PROVE VersionsIInv
  OBVIOUS
<1>1. CodeEnd \in Nat /\ 1 \in 1 .. CodeEnd /\ MaxInstalls \in Nat /\ FirstWasm \in Wasms
  BY VersionsAssumption
<1>2. VersionsTypeOK /\ OneRollbackPerUpgrade
  <2>1. /\ published \in [VersionedAgents -> Seq(AgentVersions)]
        /\ superseded \in [VersionedAgents -> SUBSET AgentVersions]
    BY DEF VersionsInit
  <2>2. /\ based \subseteq VersionedAgents /\ code \in Wasms /\ codeVersion \in CodeVersions \cup {FirstVersion}
        /\ codePaused \in BOOLEAN
    BY <1>1 DEF VersionsInit
  <2>3. /\ lastUpgrade = 0 /\ installs = 0 /\ rollbacks = 0 /\ migrations = 0 /\ codeLedger = 1
    BY DEF VersionsInit
  <2>4. /\ lastUpgrade \in 0 .. CodeEnd /\ installs \in 0 .. MaxInstalls /\ rollbacks \in Nat
        /\ migrations \in Nat /\ codeLedger \in 1 .. CodeEnd /\ OneRollbackPerUpgrade
    BY <1>1, <2>3 DEF OneRollbackPerUpgrade
  <2> QED
    BY <2>1, <2>2, <2>4 DEF VersionsTypeOK
<1>3. ASSUME NEW a \in VersionedAgents
      PROVE  Ascending(published[a]) /\ superseded[a] = AllButLast(published[a])
  <2>1. published[a] = <<>> /\ superseded[a] = {}
    BY DEF VersionsInit
  <2> QED
    BY <2>1 DEF Ascending, AllButLast
<1> QED
  BY <1>2, <1>3 DEF VersionsIInv

\* Only a publication touches what was published.
LEMMA PublishedKept ==
  ASSUME VersionsIInv, UNCHANGED <<published, superseded>>
  PROVE  \A a \in VersionedAgents : /\ Ascending(published'[a])
                                    /\ superseded'[a] = AllButLast(published'[a])
BY DEF VersionsIInv

LEMMA VersionsStepHolds == VersionsIInv /\ [VersionsNext]_versionVars => VersionsIInv'
<1> SUFFICES ASSUME VersionsIInv, [VersionsNext]_versionVars PROVE VersionsIInv'
  OBVIOUS
<1>0. /\ VersionsTypeOK /\ OneRollbackPerUpgrade
      /\ \A a \in VersionedAgents : Ascending(published[a]) /\ superseded[a] = AllButLast(published[a])
  BY DEF VersionsIInv
<1>1. CodeEnd \in Nat /\ MaxInstalls \in Nat
  BY VersionsAssumption
<1>2. ASSUME UNCHANGED <<published, superseded>>, VersionsTypeOK', OneRollbackPerUpgrade'
      PROVE  VersionsIInv'
  <2>1. \A a \in VersionedAgents : /\ Ascending(published'[a])
                                   /\ superseded'[a] = AllButLast(published'[a])
    BY <1>2, PublishedKept
  <2> QED
    BY <1>2, <2>1 DEF VersionsIInv
<1>3. ASSUME NEW a \in VersionedAgents, BaseRecord(a)
      PROVE  VersionsIInv'
  <2>1. VersionsTypeOK' /\ OneRollbackPerUpgrade' /\ UNCHANGED <<published, superseded>>
    BY <1>0, <1>3 DEF BaseRecord, KeepCode, VersionsTypeOK, OneRollbackPerUpgrade
  <2> QED
    BY <1>2, <2>1
<1>4. ASSUME NEW a \in VersionedAgents, NEW v \in AgentVersions, RegisterAgentVersion(a, v)
      PROVE  VersionsIInv'
  <2>1. published \in [VersionedAgents -> Seq(AgentVersions)] /\ superseded \in [VersionedAgents -> SUBSET AgentVersions]
    BY <1>0 DEF VersionsTypeOK
  <2>2. /\ published' = [published EXCEPT ![a] = Append(published[a], v)]
        /\ superseded' = [superseded EXCEPT ![a] =
             IF published[a] = <<>> THEN superseded[a] ELSE superseded[a] \cup {Last(published[a])}]
        /\ \A i \in DOMAIN published[a] : VersionLT(published[a][i], v)
        /\ UNCHANGED <<based, code, codeVersion, lastUpgrade, codePaused, installs, rollbacks,
                        migrations, codeLedger>>
    BY <1>4 DEF RegisterAgentVersion, KeepCode
  <2>3. /\ Append(published[a], v) \in Seq(AgentVersions)
        /\ Ascending(Append(published[a], v))
        /\ AllButLast(Append(published[a], v)) = superseded'[a]
    BY <1>0, <2>1, <2>2, PublishKeeps
  <2>4. superseded'[a] \subseteq AgentVersions
    BY <2>3 DEF AllButLast
  <2>5. \A b \in VersionedAgents : /\ Ascending(published'[b])
                                   /\ superseded'[b] = AllButLast(published'[b])
    <3> TAKE b \in VersionedAgents
    <3>1. CASE b = a
      <4>1. published'[b] = Append(published[a], v)
        BY <2>1, <2>2, <3>1
      <4> QED
        BY <2>3, <3>1, <4>1
    <3>2. CASE b # a
      <4>1. published'[b] = published[b] /\ superseded'[b] = superseded[b]
        BY <2>1, <2>2, <3>2
      <4> QED
        BY <1>0, <4>1
    <3> QED
      BY <3>1, <3>2
  <2>6. published' \in [VersionedAgents -> Seq(AgentVersions)] /\ superseded' \in [VersionedAgents -> SUBSET AgentVersions]
    <3>1. published' \in [VersionedAgents -> Seq(AgentVersions)]
      BY <2>1, <2>2, <2>3
    <3>2. \A b \in VersionedAgents : superseded'[b] \subseteq AgentVersions
      BY <2>1, <2>2, <2>4
    <3>3. superseded' = [b \in VersionedAgents |-> superseded'[b]]
      BY <2>1, <2>2
    <3> QED
      BY <3>1, <3>2, <3>3
  <2>7. VersionsTypeOK' /\ OneRollbackPerUpgrade'
    BY <1>0, <2>2, <2>6 DEF VersionsTypeOK, OneRollbackPerUpgrade
  <2> QED
    BY <2>5, <2>7 DEF VersionsIInv
<1>5. ASSUME NEW w \in Wasms, NEW v \in CodeVersions, Install(w, v), migrations' \in Nat
      PROVE  VersionsIInv'
  <2>1. UNCHANGED <<published, superseded>> /\ UNCHANGED based
    BY <1>5 DEF Install, publishVars
  <2>2. /\ installs' = installs + 1 /\ installs < MaxInstalls
        /\ code' = w /\ codeVersion' = v /\ lastUpgrade' = codeLedger
        /\ UNCHANGED <<codePaused, rollbacks, codeLedger>>
    BY <1>5 DEF Install
  <2>3. VersionsTypeOK'
    BY <1>0, <1>1, <1>5, <2>1, <2>2 DEF VersionsTypeOK
  <2>4. OneRollbackPerUpgrade'
    BY <1>0, <1>1, <2>2 DEF VersionsTypeOK, OneRollbackPerUpgrade
  <2> QED
    BY <1>2, <2>1, <2>3, <2>4
<1>6. ASSUME NEW w \in Wasms, NEW v \in CodeVersions,
             UpgradeCode(w, v) \/ UpgradeContract(w, v)
      PROVE  VersionsIInv'
  <2>1. Install(w, v) /\ migrations' \in Nat
    BY <1>0, <1>6 DEF UpgradeCode, UpgradeContract, VersionsTypeOK
  <2> QED
    BY <1>5, <2>1
<1>7. ASSUME NEW w \in Wasms, NEW v \in CodeVersions, EmergencyRollback(w, v)
      PROVE  VersionsIInv'
  <2>1. UNCHANGED <<published, superseded>> /\ UNCHANGED based
    BY <1>7 DEF EmergencyRollback, publishVars
  <2>2. /\ lastUpgrade > 0 /\ lastUpgrade' = 0 /\ rollbacks' = rollbacks + 1
        /\ code' = w /\ codeVersion' = v
        /\ UNCHANGED <<codePaused, installs, migrations, codeLedger>>
    BY <1>7 DEF EmergencyRollback, RollbackAvailable, Forgotten
  <2>3. VersionsTypeOK'
    BY <1>0, <1>1, <2>1, <2>2 DEF VersionsTypeOK
  <2>4. OneRollbackPerUpgrade'
    BY <1>0, <1>1, <2>2 DEF VersionsTypeOK, OneRollbackPerUpgrade
  <2> QED
    BY <1>2, <2>1, <2>3, <2>4
<1>8. CASE PauseCode
  <2>1. UNCHANGED <<published, superseded>> /\ VersionsTypeOK' /\ OneRollbackPerUpgrade'
    BY <1>0, <1>8 DEF PauseCode, publishVars, VersionsTypeOK, OneRollbackPerUpgrade
  <2> QED
    BY <1>2, <2>1
<1>9. CASE CodeTick
  <2>1. /\ codeLedger' = codeLedger + 1 /\ codeLedger < CodeEnd
        /\ UNCHANGED <<code, codeVersion, lastUpgrade, codePaused, installs, rollbacks, migrations,
                        based, published, superseded>>
    BY <1>9 DEF CodeTick, publishVars
  <2>2. VersionsTypeOK' /\ OneRollbackPerUpgrade'
    BY <1>0, <1>1, <2>1 DEF VersionsTypeOK, OneRollbackPerUpgrade
  <2> QED
    BY <1>2, <2>1, <2>2
<1>10. CASE UNCHANGED versionVars
  <2>1. UNCHANGED <<published, superseded>> /\ VersionsTypeOK' /\ OneRollbackPerUpgrade'
    BY <1>0, <1>10 DEF versionVars, VersionsTypeOK, OneRollbackPerUpgrade
  <2> QED
    BY <1>2, <2>1
<1> QED
  BY <1>3, <1>4, <1>6, <1>7, <1>8, <1>9, <1>10 DEF VersionsNext

\* The last published version, and it alone, is current, and it decides lookups.
LEMMA LastIsCurrent ==
  ASSUME VersionsIInv, NEW a \in VersionedAgents, published[a] # <<>>
  PROVE  Current(a) = {Len(published[a])}
<1> DEFINE s == published[a]
<1>1. /\ s \in Seq(AgentVersions) /\ Ascending(s) /\ superseded[a] = AllButLast(s)
      /\ AgentVersions \subseteq Semver
  BY VersionsAssumption DEF VersionsIInv, VersionsTypeOK
<1> HIDE DEF s
<1>2. DOMAIN s = 1 .. Len(s) /\ Len(s) \in Nat /\ s # <<>> => Len(s) \in DOMAIN s
  BY <1>1
<1>3. ASSUME NEW i \in DOMAIN s, i < Len(s) PROVE s[i] \in superseded[a]
  BY <1>1, <1>3 DEF AllButLast
<1>4. ASSUME s # <<>>, s[Len(s)] \in superseded[a] PROVE FALSE
  <2>1. PICK i \in DOMAIN s : i < Len(s) /\ s[Len(s)] = s[i]
    BY <1>1, <1>4 DEF AllButLast
  <2>2. VersionLT(s[i], s[Len(s)]) /\ s[i] \in Semver
    BY <1>1, <1>2, <1>4, <2>1 DEF Ascending
  <2> QED
    BY <2>1, <2>2, VersionOrderIsStrict
<1>5. Current(a) = {i \in DOMAIN s : s[i] \notin superseded[a]}
  BY DEF Current, s
<1>6. s # <<>>
  BY DEF s
<1>7. Current(a) = {Len(s)}
  BY <1>2, <1>3, <1>4, <1>5, <1>6
<1> QED
  BY <1>7 DEF s

LEMMA LookupsFollow == VersionsIInv => LookupGoesByGreatest
<1> SUFFICES ASSUME VersionsIInv, NEW a \in VersionedAgents, published[a] # <<>>
             PROVE  /\ Cardinality(Current(a)) = 1
                    /\ \A least \in AgentVersions :
                         a \in LookupVersioned(least) <=>
                           a \in based /\ \E v \in Range(published[a]) : ~VersionLT(v, least)
  BY DEF LookupGoesByGreatest
<1> DEFINE s == published[a]
           n == Len(s)
<1>1. Current(a) = {n}
  BY LastIsCurrent
<1>2. /\ s \in Seq(AgentVersions) /\ Ascending(s) /\ AgentVersions \subseteq Semver
      /\ based \subseteq VersionedAgents /\ s # <<>>
  BY VersionsAssumption DEF VersionsIInv, VersionsTypeOK
<1> HIDE DEF s
<1>3. n \in DOMAIN s /\ DOMAIN s = 1 .. n /\ n \in Nat
  BY <1>2
<1> HIDE DEF n
<1>4. Max(Current(a)) = n
  BY <1>1, <1>3 DEF Max
<1>5. Cardinality(Current(a)) = 1
  BY <1>1, FS_Singleton
<1>6. \A i \in DOMAIN s : i = n \/ VersionLT(s[i], s[n])
  BY <1>2, <1>3 DEF Ascending
<1>7. \A i \in DOMAIN s : s[i] \in Semver
  BY <1>2
<1>8. Range(s) = {s[i] : i \in DOMAIN s}
  BY DEF Range
<1>9. ASSUME NEW least \in AgentVersions
      PROVE  ~VersionLT(s[n], least) <=> \E v \in Range(s) : ~VersionLT(v, least)
  <2>1. s[n] \in Range(s)
    BY <1>3, <1>8
  <2>2. ASSUME VersionLT(s[n], least), NEW i \in DOMAIN s PROVE VersionLT(s[i], least)
    <3>1. least \in Semver /\ s[n] \in Semver /\ s[i] \in Semver
      BY <1>2, <1>3, <1>7
    <3> QED
      BY <1>6, <2>2, <3>1, VersionOrderIsStrict
  <2> QED
    BY <1>8, <2>1, <2>2
<1>10. ASSUME NEW least \in AgentVersions
       PROVE  a \in LookupVersioned(least) <=> a \in based /\ ~VersionLT(s[n], least)
  BY <1>1, <1>4 DEF LookupVersioned, Satisfies, s
<1>11. Range(s) = Range(published[a])
  BY DEF s
<1> QED
  BY <1>5, <1>9, <1>10, <1>11

\* A lookup goes by the greatest version an agent published, and an upgrade of
\* the registry's code can be rolled back once (register_agent_version,
\* lookup_agents_versioned, emergency_rollback).
THEOREM VersionsHold == VersionsSpec => []VersionsInv
<1>1. VersionsIInv => VersionsInv
  BY LookupsFollow DEF VersionsIInv, VersionsInv
<1> QED
  BY <1>1, VersionsInitHolds, VersionsStepHolds, PTL DEF VersionsSpec

-----------------------------------------------------------------------------
-----------------------------------------------------------------------------
(***************************************************************************)
(* Reputation: what decays and what is floored, and what tasks add.        *)
(***************************************************************************)
LEMMA FloorFacts ==
  ASSUME NEW x \in Nat, NEW e \in Nat \ {0}
  PROVE  /\ x \div e \in Nat /\ (x \div e) * e <= x
         /\ \A m \in Nat : m * e <= x => m <= x \div e
         /\ \A m \in Nat : x <= m * e => x \div e <= m
<1> DEFINE q == x \div e
<1>1. q \in Int /\ x = e * q + (x % e) /\ x % e \in 0 .. e - 1
  OBVIOUS
<1> DEFINE r == x % e
<1> HIDE DEF q, r
<1>2. q \in Int /\ x = e * q + r /\ r \in Nat /\ r < e
  BY <1>1 DEF r
<1>3. q >= 0
  <2> SUFFICES ASSUME q <= 0 - 1 PROVE FALSE
    BY <1>2
  <2>1. e * q <= e * (0 - 1)
    BY <1>2
  <2>2. e * (0 - 1) = 0 - e
    OBVIOUS
  <2> QED
    BY <1>2, <2>1, <2>2
<1>4. q * e = e * q /\ e * q \in Int
  BY <1>2
<1>5. ASSUME NEW m \in Nat, m * e <= x PROVE m <= q
  <2> SUFFICES ASSUME m >= q + 1 PROVE FALSE
    BY <1>2
  <2>1. m * e >= (q + 1) * e /\ (q + 1) * e = e * q + e
    BY <1>2
  <2> QED
    BY <1>2, <1>4, <1>5, <2>1
<1>6. ASSUME NEW m \in Nat, x <= m * e PROVE q <= m
  <2> SUFFICES ASSUME q >= m + 1 PROVE FALSE
    BY <1>2
  <2>1. q * e >= (m + 1) * e /\ (m + 1) * e = m * e + e
    BY <1>2
  <2> QED
    BY <1>2, <1>4, <1>6, <2>1
<1> QED
  BY <1>2, <1>3, <1>4, <1>5, <1>6 DEF q

LEMMA LeastMember ==
  ASSUME NEW T, T \subseteq Nat, T # {}
  PROVE  Min(T) \in T /\ \A y \in T : Min(T) <= y
BY LeastExists DEF Min

\* A finite set of integers has a greatest.
LEMMA FiniteGreatest ==
  ASSUME NEW T, IsFiniteSet(T), T \subseteq Int, T # {}
  PROVE  Max(T) \in T /\ \A y \in T : y <= Max(T)
<1>1. \E x \in T : \A y \in T : x >= y
  BY GreatestOfFinite
<1> QED
  BY <1>1 DEF Max

\* The loop of apply_reputation_decay, up to its last epoch.
DecayRun(value, last, it) ==
  it = [n \in 0 .. last |-> IF n = 0 THEN value ELSE (it[n - 1] * (100 - schedule.pct)) \div 100]

LEMMA DecayRunExists ==
  ASSUME NEW value
  PROVE  \A n \in Nat : \E it : DecayRun(value, n, it)
<1> DEFINE G == {n \in Nat : \E it : DecayRun(value, n, it)}
           next(x) == (x * (100 - schedule.pct)) \div 100
<1>1. 0 \in G
  <2> DEFINE it == [i \in 0 .. 0 |-> value]
  <2>1. DecayRun(value, 0, it)
    BY DEF DecayRun
  <2> QED
    BY <2>1
<1>2. ASSUME NEW n \in Nat, n \in G PROVE n + 1 \in G
  <2>1. PICK it : DecayRun(value, n, it)
    BY <1>2
  <2> DEFINE more == [i \in 0 .. n + 1 |-> IF i = n + 1 THEN next(it[n]) ELSE it[i]]
             again == [i \in 0 .. n + 1 |-> IF i = 0 THEN value ELSE next(more[i - 1])]
  <2>2. \A i \in 0 .. n : it[i] = IF i = 0 THEN value ELSE next(it[i - 1])
    BY <2>1 DEF DecayRun
  <2> HIDE DEF next
  <2>3. \A i \in 0 .. n + 1 : more[i] = again[i]
    <3> SUFFICES ASSUME NEW i \in 0 .. n + 1 PROVE more[i] = again[i]
      OBVIOUS
    <3>1. CASE i = 0
      BY <2>2, <3>1
    <3>2. CASE i = n + 1
      <4>1. i # 0 /\ i - 1 = n /\ more[n] = it[n]
        BY <3>2
      <4> QED
        BY <3>2, <4>1
    <3>3. CASE i \in 1 .. n
      <4>1. i # 0 /\ i # n + 1 /\ i - 1 \in 0 .. n /\ i \in 0 .. n
        BY <3>3
      <4>2. more[i - 1] = it[i - 1] /\ more[i] = it[i]
        BY <4>1
      <4> QED
        BY <2>2, <4>1, <4>2
    <3> QED
      BY <3>1, <3>2, <3>3
  <2>4. more = again
    BY <2>3
  <2> HIDE DEF more
  <2>5. DecayRun(value, n + 1, more)
    BY <2>4 DEF DecayRun, next
  <2> QED
    BY <2>5
<1> HIDE DEF G
<1>3. \A n \in Nat : n \in G
  BY <1>1, <1>2, NatSetInduction
<1> QED
  BY <1>3 DEF G

\* However many epochs, decay never raises a score.
LEMMA KeptFacts ==
  ASSUME NEW value \in Nat, NEW epochs \in Nat, schedule.pct \in 0 .. 100
  PROVE  Kept(value, epochs) \in 0 .. value
<1>1. PICK it : DecayRun(value, epochs, it) /\ Kept(value, epochs) = it[epochs]
  <2> DEFINE best == CHOOSE it : it = [n \in 0 .. epochs |->
                       IF n = 0 THEN value ELSE (it[n - 1] * (100 - schedule.pct)) \div 100]
  <2>1. \E it : DecayRun(value, epochs, it)
    BY DecayRunExists
  <2>2. DecayRun(value, epochs, best)
    BY <2>1 DEF DecayRun
  <2>3. Kept(value, epochs) = best[epochs]
    BY DEF Kept
  <2> HIDE DEF best
  <2> QED
    BY <2>2, <2>3
<1> DEFINE G == {n \in Nat : n <= epochs => it[n] \in 0 .. value}
<1>2. 0 \in G
  BY <1>1 DEF DecayRun
<1>3. ASSUME NEW n \in Nat, n \in G PROVE n + 1 \in G
  <2> SUFFICES ASSUME n + 1 <= epochs PROVE it[n + 1] \in 0 .. value
    OBVIOUS
  <2>1. n \in 0 .. epochs /\ n + 1 \in 0 .. epochs /\ it[n] \in 0 .. value
    BY <1>3
  <2>2. it[n + 1] = (it[n] * (100 - schedule.pct)) \div 100
    BY <1>1, <2>1 DEF DecayRun
  <2> DEFINE v == it[n]
             c == 100 - schedule.pct
  <2>3. v \in 0 .. value /\ c \in 0 .. 100
    BY <2>1
  <2> HIDE DEF v, c
  <2>4. v * c \in Nat /\ v * c <= v * 100
    BY <2>3
  <2>5. (v * c) \div 100 \in 0 .. v
    BY <2>3, <2>4
  <2> QED
    BY <2>2, <2>3, <2>5 DEF v, c
<1>4. epochs \in G
  <2> HIDE DEF G
  <2> QED
    BY <1>2, <1>3, NatSetInduction
<1> QED
  BY <1>1, <1>4
-----------------------------------------------------------------------------
(* What an agent's score has above its last full update: only tasks add to *)
(* it, each at most the greatest delta.                                    *)
Gain == [a \in RatedAgents |->
          IF scoreOf[a].value > graded[a] THEN scoreOf[a].value - graded[a] ELSE 0]

ScoreRecord == [value : 0 .. ScoreScale, since : -1 .. RatedEnd]
FigureRecord == [total : Nat, good : Nat, bad : Nat, earned : Nat, mean : Nat,
                 terms : ServiceLevels \cup {NoTerms}, checks : Nat, violations : Nat]

ScoresSound ==
  /\ scoreOf \in [RatedAgents -> ScoreRecord] /\ graded \in [RatedAgents -> 0 .. ScoreScale]
  /\ \A a \in RatedAgents : scoreOf[a].since <= ratedTime
  /\ outcomes \subseteq RatedTasks /\ IsFiniteSet(outcomes)
  /\ SumFunctionOnSet(Gain, RatedAgents) <= MostPerTask * Cardinality(outcomes)

\* The mean of one agent, against the response times that it was made of.
MeanFits(f, r) ==
  /\ f \in FigureRecord /\ r \in Seq(ResponseTimes)
  /\ f.total = Len(r) /\ f.violations <= f.checks
  /\ r # <<>> => /\ f.mean >= Min(Range(r)) /\ f.mean * Len(r) <= SumFunction(r)

FiguresSound ==
  /\ figures \in [RatedAgents -> FigureRecord] /\ responses \in [RatedAgents -> Seq(ResponseTimes)]
  /\ \A a \in RatedAgents : MeanFits(figures[a], responses[a])

SettingsSound ==
  /\ enrolled \subseteq RatedAgents /\ enrolments \in Seq(RatedAgents)
  /\ reporters \subseteq Reporters
  /\ overseer \in Reporters \cup {NoReporter} /\ schedule \in DecaySchedules
  /\ ratingsHalted \in BOOLEAN /\ ratedTime \in 0 .. RatedEnd /\ settings \in 0 .. MaxSettings

ReputationIInv == ScoresSound /\ FiguresSound /\ SettingsSound

LEMMA RatedNumbers ==
  /\ ScoreScale \in Nat /\ RatedEnd \in Nat /\ MaxSettings \in Nat /\ MaxDecayEpochs \in Nat
  /\ IsFiniteSet(RatedAgents) /\ ResponseTimes \subseteq Nat /\ Earnings \subseteq Nat
  /\ Deltas \subseteq Int /\ FirstSchedule \in DecaySchedules
  /\ \A d \in DecaySchedules : d.pct \in 0 .. 100 /\ d.epoch \in Nat \ {0}
BY ReputationAssumption

LEMMA GreatestDelta ==
  MostPerTask \in Nat /\ \A d \in Deltas : d \in Int /\ d <= MostPerTask
<1>1. /\ IsFiniteSet({0} \cup Deltas) /\ {0} \cup Deltas \subseteq Int /\ {0} \cup Deltas # {}
  <2>1. IsFiniteSet({0}) /\ IsFiniteSet(Deltas) /\ Deltas \subseteq Int
    BY ReputationAssumption, FS_Singleton
  <2>2. IsFiniteSet({0} \cup Deltas)
    BY <2>1, FS_Union
  <2> QED
    BY <2>1, <2>2
<1>2. MostPerTask \in {0} \cup Deltas /\ \A d \in {0} \cup Deltas : d <= MostPerTask
  BY <1>1, FiniteGreatest DEF MostPerTask
<1> QED
  BY <1>1, <1>2

\* Scores written keep to their scale, and an outcome adds its delta at most.
LEMMA MovedFacts ==
  ASSUME NEW value \in 0 .. ScoreScale, NEW good \in BOOLEAN, NEW delta \in Deltas
  PROVE  Moved(value, good, delta) \in 0 .. ScoreScale /\ Moved(value, good, delta) <= value + MostPerTask
<1> DEFINE d == IF good \/ delta < 0 THEN delta ELSE 0
<1>1. d \in Int /\ d <= MostPerTask /\ MostPerTask \in Nat /\ ScoreScale \in Nat
  BY GreatestDelta, RatedNumbers
<1>2. Moved(value, good, delta) = CASE value + d < 0 -> 0
                                    [] value + d > ScoreScale -> ScoreScale
                                    [] OTHER -> value + d
  BY DEF Moved
<1> HIDE DEF d
<1> QED
  BY <1>1, <1>2

LEMMA ScoreForFacts ==
  ASSUME NEW g \in Grades
  PROVE  ScoreFor(g) \in 0 .. ScoreScale
<1>1. g.success \in Nat /\ g.quality \in Nat /\ g.uptime \in Nat /\ g.price \in Nat
  BY ReputationAssumption
<1>2. \A n \in Nat : Clamped(n) \in 0 .. 100
  BY DEF Clamped
<1> DEFINE w == Weighted(g)
<1>3. w \in 0 .. 10000
  <2> DEFINE s == Clamped(g.success)
             q == Clamped(g.quality)
             u == Clamped(g.uptime)
             p == Clamped(g.price)
  <2>1. s \in 0 .. 100 /\ q \in 0 .. 100 /\ u \in 0 .. 100 /\ p \in 0 .. 100
    BY <1>1, <1>2
  <2>2. w = 40 * s + 30 * q + 20 * u + 10 * p
    BY DEF Weighted
  <2> HIDE DEF s, q, u, p, w
  <2> QED
    BY <2>1, <2>2
<1> HIDE DEF w
<1>4. w * ScoreScale \in Nat /\ w * ScoreScale <= ScoreScale * 10000
  BY <1>3, RatedNumbers
<1>5. (w * ScoreScale) \div 10000 \in Nat /\ (w * ScoreScale) \div 10000 <= ScoreScale
  BY <1>4, RatedNumbers, FloorFacts
<1> QED
  BY <1>5, RatedNumbers DEF ScoreFor, w

LEMMA DecayedFacts ==
  ASSUME NEW rec \in ScoreRecord, rec.since <= ratedTime, schedule \in DecaySchedules,
         ratedTime \in 0 .. RatedEnd
  PROVE  /\ Decayed(rec) \in ScoreRecord /\ Decayed(rec).since <= ratedTime
         /\ Decayed(rec).value <= rec.value
<1> DEFINE x == ratedTime - rec.since
           e == schedule.epoch
           q == x \div e
<1>0. rec.since \in -1 .. RatedEnd /\ rec.since \in Int /\ ratedTime \in Nat
  BY RatedNumbers DEF ScoreRecord
<1>1. x \in Nat /\ e \in Nat \ {0} /\ schedule.pct \in 0 .. 100 /\ rec.since \in -1 .. RatedEnd
      /\ rec.value \in 0 .. ScoreScale
  BY <1>0, RatedNumbers DEF ScoreRecord
<1>2. q \in Nat /\ q * e <= x /\ q * e \in Nat
  <2> HIDE DEF x, e
  <2> QED
    BY <1>1, FloorFacts
<1>3. Elapsed(rec) = q
  BY DEF Elapsed
<1> HIDE DEF q
<1>4. Kept(rec.value, q) \in 0 .. rec.value
  <2>1. rec.value \in Nat /\ schedule.pct \in 0 .. 100
    BY <1>1, RatedNumbers
  <2> QED
    BY <1>2, <2>1, KeptFacts
<1>5. rec.since + q * e \in -1 .. RatedEnd /\ rec.since + q * e <= ratedTime
  BY <1>1, <1>2, RatedNumbers
<1> DEFINE v == IF q > MaxDecayEpochs THEN 0 ELSE Kept(rec.value, q)
<1>6. v \in 0 .. ScoreScale /\ v <= rec.value
  BY <1>1, <1>4, RatedNumbers
<1>7. Decayed(rec) = [value |-> v, since |-> rec.since + q * e]
  BY <1>3 DEF Decayed
<1> HIDE DEF v, e
<1> QED
  BY <1>5, <1>6, <1>7 DEF ScoreRecord

LEMMA GainTyped ==
  ASSUME scoreOf \in [RatedAgents -> ScoreRecord], graded \in [RatedAgents -> 0 .. ScoreScale]
  PROVE  \A a \in RatedAgents :
           /\ Gain[a] = IF scoreOf[a].value > graded[a] THEN scoreOf[a].value - graded[a] ELSE 0
           /\ Gain[a] \in Nat /\ scoreOf[a].value \in Nat /\ graded[a] \in Nat
BY RatedNumbers DEF Gain, ScoreRecord

\* Writes that leave every gain where it is or lower.
LEMMA ScoresLower ==
  ASSUME ScoresSound, scoreOf' \in [RatedAgents -> ScoreRecord], graded' \in [RatedAgents -> 0 .. ScoreScale],
         \A a \in RatedAgents : scoreOf'[a].since <= ratedTime',
         \A a \in RatedAgents : \/ scoreOf'[a].value <= graded'[a]
                                \/ scoreOf'[a].value <= scoreOf[a].value /\ graded'[a] = graded[a],
         UNCHANGED outcomes
  PROVE  ScoresSound'
<1>1. \A a \in RatedAgents :
        /\ Gain[a] = IF scoreOf[a].value > graded[a] THEN scoreOf[a].value - graded[a] ELSE 0
        /\ Gain[a] \in Nat /\ scoreOf[a].value \in Nat /\ graded[a] \in Nat
  BY GainTyped DEF ScoresSound
<1>2. \A a \in RatedAgents :
        /\ Gain'[a] = IF scoreOf'[a].value > graded'[a] THEN scoreOf'[a].value - graded'[a] ELSE 0
        /\ Gain'[a] \in Nat /\ scoreOf'[a].value \in Nat /\ graded'[a] \in Nat
  BY RatedNumbers DEF Gain, ScoreRecord
<1>3. \A a \in RatedAgents : Gain'[a] <= Gain[a]
  BY <1>1, <1>2
<1> DEFINE f == Gain
           g == Gain'
<1>4. \A a \in RatedAgents : g[a] \in Int /\ f[a] \in Int /\ g[a] <= f[a]
  BY <1>1, <1>2, <1>3
<1>5. SumFunctionOnSet(g, RatedAgents) <= SumFunctionOnSet(f, RatedAgents)
  <2> HIDE DEF f, g
  <2> QED
    BY <1>4, RatedNumbers, SumLeq
<1>6. SumFunctionOnSet(g, RatedAgents) \in Int /\ SumFunctionOnSet(f, RatedAgents) \in Int
  <2> HIDE DEF f, g
  <2> QED
    BY <1>4, RatedNumbers, SumType
<1>7. SumFunctionOnSet(Gain', RatedAgents) <= MostPerTask * Cardinality(outcomes)
  <2>1. MostPerTask * Cardinality(outcomes) \in Int
    BY GreatestDelta, FS_CardinalityType DEF ScoresSound
  <2>2. SumFunctionOnSet(f, RatedAgents) <= MostPerTask * Cardinality(outcomes)
    BY DEF ScoresSound
  <2> QED
    BY <1>5, <1>6, <2>1, <2>2
<1>8. SumFunctionOnSet(Gain, RatedAgents)' = SumFunctionOnSet(Gain', RatedAgents)
  BY DEF SumFunctionOnSet, FoldFunctionOnSet, MapThenFoldSet
<1> QED
  BY <1>7, <1>8 DEF ScoresSound

\* A task outcome adds the greatest delta at most, once.
LEMMA OutcomeStep ==
  ASSUME ReputationIInv, NEW a \in RatedAgents, NEW k \in RatedTasks, NEW good \in BOOLEAN,
         NEW d \in Deltas, RecordTaskOutcome(a, k, good, d)
  PROVE  ScoresSound'
<1>1. /\ scoreOf \in [RatedAgents -> ScoreRecord] /\ graded \in [RatedAgents -> 0 .. ScoreScale]
      /\ \A b \in RatedAgents : scoreOf[b].since <= ratedTime
      /\ outcomes \subseteq RatedTasks /\ IsFiniteSet(outcomes) /\ ratedTime \in 0 .. RatedEnd
      /\ SumFunctionOnSet(Gain, RatedAgents) <= MostPerTask * Cardinality(outcomes)
  BY DEF ReputationIInv, ScoresSound, SettingsSound
<1> DEFINE v == Record(a).value
           w == Moved(v, good, d)
<1>2. /\ scoreOf' = [scoreOf EXCEPT ![a] = [value |-> w, since |-> ratedTime]]
      /\ outcomes' = outcomes \cup {k} /\ k \notin outcomes
      /\ UNCHANGED <<graded, ratedTime>>
  BY DEF RecordTaskOutcome, Uncounted, KeepRest
<1>3. v \in 0 .. ScoreScale /\ v <= scoreOf[a].value
  <2>1. scoreOf[a] \in ScoreRecord
    BY <1>1
  <2>2. CASE scoreOf[a] = NoScore
    BY <2>1, <2>2, RatedNumbers DEF Record, NoScore
  <2>3. CASE scoreOf[a] # NoScore
    BY <2>1, <2>3, RatedNumbers DEF Record, ScoreRecord
  <2> QED
    BY <2>2, <2>3
<1> HIDE DEF v
<1>4. w \in 0 .. ScoreScale /\ w <= v + MostPerTask
  BY <1>3, MovedFacts
<1> HIDE DEF w
<1>5. scoreOf' \in [RatedAgents -> ScoreRecord]
  <2>1. [value |-> w, since |-> ratedTime] \in ScoreRecord
    BY <1>1, <1>4, RatedNumbers DEF ScoreRecord
  <2> QED
    BY <1>1, <1>2, <2>1
<1>6. \A b \in RatedAgents : scoreOf'[b].since <= ratedTime'
  BY <1>1, <1>2
<1>7. Cardinality(outcomes') = Cardinality(outcomes) + 1 /\ IsFiniteSet(outcomes')
      /\ outcomes' \subseteq RatedTasks /\ Cardinality(outcomes) \in Nat
  BY <1>1, <1>2, FS_AddElement, FS_CardinalityType
<1>8. \A b \in RatedAgents :
        /\ Gain[b] = IF scoreOf[b].value > graded[b] THEN scoreOf[b].value - graded[b] ELSE 0
        /\ Gain[b] \in Nat /\ scoreOf[b].value \in Nat /\ graded[b] \in Nat
  BY <1>1, GainTyped
<1>9. \A b \in RatedAgents :
        /\ Gain'[b] = IF scoreOf'[b].value > graded[b] THEN scoreOf'[b].value - graded[b] ELSE 0
        /\ Gain'[b] \in Nat
  BY <1>1, <1>2, <1>5, RatedNumbers DEF Gain, ScoreRecord
<1>10. \A b \in RatedAgents : b # a => Gain'[b] = Gain[b]
  BY <1>1, <1>2, <1>8, <1>9
<1>11. Gain'[a] <= Gain[a] + MostPerTask
  <2>1. scoreOf'[a].value = w
    BY <1>1, <1>2
  <2> QED
    BY <1>3, <1>4, <1>8, <1>9, <2>1, GreatestDelta, RatedNumbers
<1> DEFINE f == Gain
           g == Gain'
<1>12. SumFunctionOnSet(g, RatedAgents) = SumFunctionOnSet(f, RatedAgents) + g[a] - f[a]
       /\ SumFunctionOnSet(f, RatedAgents) \in Int
  <2>1. \A b \in RatedAgents : f[b] \in Int /\ g[b] \in Int
    BY <1>8, <1>9
  <2>2. \A b \in RatedAgents : b # a => g[b] = f[b]
    BY <1>10
  <2> HIDE DEF f, g
  <2> QED
    BY <2>1, <2>2, RatedNumbers, SumChange, SumType
<1>13. SumFunctionOnSet(g, RatedAgents) <= MostPerTask * Cardinality(outcomes')
  <2> DEFINE c == Cardinality(outcomes)
             m == MostPerTask
  <2>1. g[a] <= f[a] + m /\ f[a] \in Nat /\ g[a] \in Nat /\ m \in Nat /\ c \in Nat
    BY <1>7, <1>8, <1>9, <1>11, GreatestDelta
  <2>2. SumFunctionOnSet(f, RatedAgents) <= m * c /\ Cardinality(outcomes') = c + 1
    BY <1>1, <1>7
  <2> HIDE DEF c, m, f, g
  <2>3. m * (c + 1) = m * c + m /\ m * c \in Nat
    BY <2>1
  <2>4. SumFunctionOnSet(g, RatedAgents) <= m * (c + 1)
    BY <1>12, <2>1, <2>2, <2>3
  <2> QED
    BY <2>2, <2>4 DEF m
<1>14. SumFunctionOnSet(Gain, RatedAgents)' = SumFunctionOnSet(Gain', RatedAgents)
  BY DEF SumFunctionOnSet, FoldFunctionOnSet, MapThenFoldSet
<1>15. MostPerTask' = MostPerTask
  BY DEF MostPerTask
<1> QED
  BY <1>1, <1>2, <1>5, <1>6, <1>7, <1>13, <1>14, <1>15 DEF ScoresSound

LEMMA GradeStep ==
  ASSUME ReputationIInv, NEW A \in SUBSET RatedAgents, NEW grades \in [A -> Grades], GradeAgents(grades)
  PROVE  ScoresSound'
<1>1. /\ scoreOf \in [RatedAgents -> ScoreRecord] /\ graded \in [RatedAgents -> 0 .. ScoreScale]
      /\ \A b \in RatedAgents : scoreOf[b].since <= ratedTime
      /\ ratedTime \in 0 .. RatedEnd /\ ScoresSound
  BY DEF ReputationIInv, ScoresSound, SettingsSound
<1>2. /\ scoreOf' = [a \in RatedAgents |-> IF a \in A THEN Graded(grades[a]) ELSE scoreOf[a]]
      /\ graded' = [a \in RatedAgents |-> IF a \in A THEN ScoreFor(grades[a]) ELSE graded[a]]
      /\ UNCHANGED <<outcomes, ratedTime>>
  BY DEF GradeAgents, KeepRest
<1>3. \A a \in A : ScoreFor(grades[a]) \in 0 .. ScoreScale
  BY ScoreForFacts
<1>4. \A a \in A : /\ Graded(grades[a]).value = ScoreFor(grades[a])
                   /\ Graded(grades[a]).since = ratedTime
                   /\ Graded(grades[a]) \in ScoreRecord
  BY <1>1, <1>3, RatedNumbers DEF Graded, ScoreRecord
<1>5. scoreOf' \in [RatedAgents -> ScoreRecord] /\ graded' \in [RatedAgents -> 0 .. ScoreScale]
  BY <1>1, <1>2, <1>3, <1>4
<1>6. \A a \in RatedAgents : scoreOf'[a].since <= ratedTime'
  BY <1>1, <1>2, <1>4
<1>7. \A a \in RatedAgents : \/ scoreOf'[a].value <= graded'[a]
                             \/ scoreOf'[a].value <= scoreOf[a].value /\ graded'[a] = graded[a]
  <2> TAKE a \in RatedAgents
  <2>1. CASE a \in A
    <3>1. scoreOf'[a].value = ScoreFor(grades[a]) /\ graded'[a] = ScoreFor(grades[a])
      BY <1>2, <1>4, <2>1
    <3> QED
      BY <1>3, <2>1, <3>1
  <2>2. CASE a \notin A
    <3>1. scoreOf'[a] = scoreOf[a] /\ graded'[a] = graded[a] /\ scoreOf[a].value \in Nat
      BY <1>1, <1>2, <2>2, RatedNumbers DEF ScoreRecord
    <3> QED
      BY <3>1
  <2> QED
    BY <2>1, <2>2
<1> QED
  BY <1>1, <1>2, <1>5, <1>6, <1>7, ScoresLower

LEMMA ReadStep ==
  ASSUME ReputationIInv, NEW a \in RatedAgents, GetReputation(a)
  PROVE  ScoresSound'
<1>1. /\ scoreOf \in [RatedAgents -> ScoreRecord] /\ graded \in [RatedAgents -> 0 .. ScoreScale]
      /\ \A b \in RatedAgents : scoreOf[b].since <= ratedTime
      /\ ratedTime \in 0 .. RatedEnd /\ ScoresSound /\ schedule \in DecaySchedules
  BY DEF ReputationIInv, ScoresSound, SettingsSound
<1> DEFINE rec == Record(a)
           new == Decayed(rec)
<1>2. scoreOf' = [scoreOf EXCEPT ![a] = new] /\ UNCHANGED <<outcomes, graded, ratedTime>>
  BY DEF GetReputation, KeepRest
<1>3. rec \in ScoreRecord /\ rec.since <= ratedTime /\ rec.value <= scoreOf[a].value
  <2>1. scoreOf[a] \in ScoreRecord
    BY <1>1
  <2>2. CASE scoreOf[a] = NoScore
    BY <1>1, <2>1, <2>2, RatedNumbers DEF Record, NoScore, ScoreRecord
  <2>3. CASE scoreOf[a] # NoScore
    BY <1>1, <2>1, <2>3, RatedNumbers DEF Record, ScoreRecord
  <2> QED
    BY <2>2, <2>3
<1> HIDE DEF rec
<1>4. new \in ScoreRecord /\ new.since <= ratedTime /\ new.value <= rec.value
  BY <1>1, <1>3, DecayedFacts
<1> HIDE DEF new
<1>5. scoreOf' \in [RatedAgents -> ScoreRecord]
  BY <1>1, <1>2, <1>4
<1>6. \A b \in RatedAgents : scoreOf'[b].since <= ratedTime'
  BY <1>1, <1>2, <1>4
<1>7. \A b \in RatedAgents : scoreOf'[b].value <= scoreOf[b].value
  <2>1. \A b \in RatedAgents : scoreOf[b].value \in Nat
    BY <1>1, RatedNumbers DEF ScoreRecord
  <2>2. new.value \in Nat /\ rec.value \in Nat
    BY <1>3, <1>4, RatedNumbers DEF ScoreRecord
  <2> QED
    BY <1>1, <1>2, <1>3, <1>4, <2>1, <2>2
<1> QED
  BY <1>1, <1>2, <1>5, <1>6, <1>7, ScoresLower

-----------------------------------------------------------------------------
LEMMA Appended ==
  ASSUME NEW r \in Seq(ResponseTimes), NEW x \in ResponseTimes
  PROVE  /\ Len(r) \in Nat /\ DOMAIN r = 1 .. Len(r) /\ DOMAIN Append(r, x) = 1 .. Len(r) + 1
         /\ Append(r, x) \in Seq(ResponseTimes) /\ Len(Append(r, x)) = Len(r) + 1
         /\ Append(r, x)[Len(r) + 1] = x
         /\ \A i \in 1 .. Len(r) : Append(r, x)[i] = r[i]
         /\ \A i \in 1 .. Len(r) : r[i] \in Nat
         /\ x \in Nat
<1>1. /\ Len(r) \in Nat /\ DOMAIN r = 1 .. Len(r) /\ DOMAIN Append(r, x) = 1 .. Len(r) + 1
      /\ Append(r, x) \in Seq(ResponseTimes) /\ Len(Append(r, x)) = Len(r) + 1
      /\ Append(r, x)[Len(r) + 1] = x
  OBVIOUS
<1>2. \A i \in 1 .. Len(r) : Append(r, x)[i] = r[i]
  OBVIOUS
<1>3. \A i \in 1 .. Len(r) : r[i] \in ResponseTimes
  OBVIOUS
<1> QED
  BY <1>1, <1>2, <1>3, RatedNumbers

\* The sum of a sequence that grew.
LEMMA SumAppend ==
  ASSUME NEW r \in Seq(ResponseTimes), NEW x \in ResponseTimes
  PROVE  /\ SumFunction(r) \in Nat /\ SumFunction(Append(r, x)) = SumFunction(r) + x
<1> DEFINE n == Len(r)
           s == Append(r, x)
<1>1. /\ n \in Nat /\ DOMAIN r = 1 .. n /\ DOMAIN s = 1 .. n + 1 /\ s[n + 1] = x
      /\ \A i \in 1 .. n : s[i] = r[i] /\ r[i] \in Nat
      /\ x \in Nat
  BY Appended
<1>2. \A i \in 1 .. n + 1 : s[i] \in Int
  <2> TAKE i \in 1 .. n + 1
  <2>1. i \in 1 .. n \/ i = n + 1
    BY <1>1
  <2> QED
    BY <1>1, <2>1
<1> HIDE DEF n, s
<1>3. IsFiniteSet(1 .. n) /\ IsFiniteSet(1 .. n + 1) /\ (1 .. n + 1) \ {n + 1} = 1 .. n /\ n + 1 \in 1 .. n + 1
  <2>1. 1 \in Int /\ n \in Int /\ n + 1 \in Int
    BY <1>1
  <2>2. IsFiniteSet(1 .. n) /\ IsFiniteSet(1 .. n + 1)
    BY <2>1, FS_Interval
  <2>3. (1 .. n + 1) \ {n + 1} = 1 .. n /\ n + 1 \in 1 .. n + 1
    BY <1>1
  <2> QED
    BY <2>2, <2>3
<1>4. SumFunctionOnSet(s, 1 .. n + 1) = s[n + 1] + SumFunctionOnSet(s, (1 .. n + 1) \ {n + 1})
  BY <1>2, <1>3, SumTake
<1>5. SumFunctionOnSet(s, 1 .. n) = SumFunctionOnSet(r, 1 .. n)
  BY <1>1, <1>3, SumSame
<1>6. SumFunctionOnSet(r, 1 .. n) \in Nat
  BY <1>1, <1>3, SumNat
<1>7. SumFunction(r) = SumFunctionOnSet(r, 1 .. n) /\ SumFunction(s) = SumFunctionOnSet(s, 1 .. n + 1)
  BY <1>1 DEF SumFunction
<1>8. SumFunction(s) = SumFunction(r) + x
  <2>1. SumFunction(s) = x + SumFunctionOnSet(s, 1 .. n)
    BY <1>1, <1>3, <1>4, <1>7
  <2>2. SumFunctionOnSet(s, 1 .. n) = SumFunction(r)
    BY <1>5, <1>7
  <2>3. SumFunction(r) \in Nat
    BY <1>6, <1>7
  <2> QED
    BY <1>1, <2>1, <2>2, <2>3
<1> QED
  BY <1>6, <1>7, <1>8 DEF s

\* The floored mean stays between the shortest response and the true mean.
LEMMA MeanStep ==
  ASSUME NEW f \in FigureRecord, NEW r \in Seq(ResponseTimes), NEW x \in ResponseTimes, MeanFits(f, r)
  PROVE  /\ MeanWith(f, x) \in Nat
         /\ MeanWith(f, x) >= Min(Range(Append(r, x)))
         /\ MeanWith(f, x) * (Len(r) + 1) <= SumFunction(Append(r, x))
<1> DEFINE n == Len(r)
           s == Append(r, x)
           m == f.mean
           low == Min(Range(s))
           q == MeanWith(f, x)
           p == m * n + x
<1>1. /\ n \in Nat /\ DOMAIN r = 1 .. n /\ DOMAIN s = 1 .. n + 1 /\ s[n + 1] = x
      /\ \A i \in 1 .. n : s[i] = r[i] /\ r[i] \in Nat
      /\ x \in Nat
  BY Appended
<1>2. Range(r) \subseteq Nat /\ Range(s) = Range(r) \cup {x}
  <2>1. Range(r) = {r[i] : i \in 1 .. n} /\ Range(s) = {s[i] : i \in 1 .. n + 1}
    BY <1>1 DEF Range
  <2>2. 1 .. n + 1 = 1 .. n \cup {n + 1}
    BY <1>1
  <2> HIDE DEF s, n
  <2>3. {s[i] : i \in 1 .. n + 1} = {s[i] : i \in 1 .. n} \cup {s[n + 1]}
    BY <2>2
  <2>4. {s[i] : i \in 1 .. n} = {r[i] : i \in 1 .. n}
    BY <1>1
  <2> QED
    BY <1>1, <2>1, <2>3, <2>4
<1>3. low \in Nat /\ low <= x /\ \A y \in Range(r) : low <= y
  <2>1. Range(s) \subseteq Nat /\ Range(s) # {}
    BY <1>1, <1>2
  <2>2. low \in Range(s) /\ \A y \in Range(s) : low <= y
    <3> HIDE DEF s
    <3> QED
      BY <2>1, LeastMember
  <2> QED
    BY <1>2, <2>1, <2>2
<1>4. m \in Nat /\ f.total = n
  BY DEF FigureRecord, MeanFits
<1>5. SumFunction(r) \in Nat /\ SumFunction(s) = SumFunction(r) + x
  BY SumAppend
<1>6. m * n <= SumFunction(r) /\ (n = 0 \/ low <= m)
  <2>1. CASE r = <<>>
    <3>1. n = 0
      BY <2>1
    <3>2. m * n = 0
      BY <1>4, <3>1
    <3> QED
      BY <1>5, <3>1, <3>2
  <2>2. CASE r # <<>>
    <3>1. m >= Min(Range(r)) /\ m * n <= SumFunction(r)
      BY <2>2 DEF MeanFits
    <3>2. Range(r) # {}
      <4>1. 1 \in DOMAIN r
        BY <1>1, <2>2
      <4> QED
        BY <4>1 DEF Range
    <3>3. Min(Range(r)) \in Range(r)
      BY <1>2, <3>2, LeastMember
    <3>4. low <= Min(Range(r)) /\ Min(Range(r)) \in Nat
      BY <1>2, <1>3, <3>3
    <3> HIDE DEF low, m, n
    <3> QED
      BY <1>3, <1>4, <3>1, <3>4
  <2> QED
    BY <2>1, <2>2
<1>7. q = p \div (n + 1)
  BY <1>4 DEF MeanWith
<1> HIDE DEF q, low, m, n, s
<1>8. m * n \in Nat /\ p \in Nat /\ n + 1 \in Nat \ {0}
  BY <1>1, <1>4
<1>9. p <= SumFunction(s)
  BY <1>1, <1>5, <1>6, <1>8
<1>10. low * (n + 1) <= p
  <2>1. low * (n + 1) = low * n + low /\ low * n \in Nat
    BY <1>1, <1>3
  <2>2. low * n <= m * n
    <3>1. CASE n = 0
      BY <1>3, <1>4, <3>1
    <3>2. CASE low <= m
      BY <1>1, <1>3, <1>4, <3>2
    <3> QED
      BY <1>6, <3>1, <3>2
  <2> QED
    BY <1>1, <1>3, <1>8, <2>1, <2>2
<1> HIDE DEF p
<1>11. q \in Nat /\ q * (n + 1) <= p /\ low <= q
  BY <1>3, <1>7, <1>8, <1>10, FloorFacts
<1>12. q * (n + 1) \in Nat
  BY <1>8, <1>11
<1>13. q * (n + 1) <= SumFunction(s) /\ q >= low
  BY <1>3, <1>5, <1>1, <1>8, <1>9, <1>11, <1>12
<1> QED
  BY <1>11, <1>13 DEF q, low, n, s

\* One agent's figures and responses change together, or not at all.
LEMMA FiguresChange ==
  ASSUME FiguresSound, NEW a \in RatedAgents, NEW f, NEW r, MeanFits(f, r),
         figures' = [figures EXCEPT ![a] = f],
         responses' = [responses EXCEPT ![a] = r]
  PROVE  FiguresSound'
<1>1. figures \in [RatedAgents -> FigureRecord] /\ responses \in [RatedAgents -> Seq(ResponseTimes)]
  BY DEF FiguresSound
<1>2. f \in FigureRecord /\ r \in Seq(ResponseTimes)
  BY DEF MeanFits
<1>3. figures' \in [RatedAgents -> FigureRecord] /\ responses' \in [RatedAgents -> Seq(ResponseTimes)]
  BY <1>1, <1>2
<1>4. \A b \in RatedAgents : MeanFits(figures'[b], responses'[b])
  <2> TAKE b \in RatedAgents
  <2>1. CASE b = a
    BY <1>1, <2>1
  <2>2. CASE b # a
    <3>1. figures'[b] = figures[b] /\ responses'[b] = responses[b]
      BY <1>1, <2>2
    <3> QED
      BY <3>1 DEF FiguresSound
  <2> QED
    BY <2>1, <2>2
<1> QED
  BY <1>3, <1>4 DEF FiguresSound

LEMMA CompletionStep ==
  ASSUME FiguresSound, NEW a \in RatedAgents, NEW good \in BOOLEAN, NEW x \in ResponseTimes,
         NEW e \in Earnings, RecordTaskCompletion(a, good, x, e)
  PROVE  FiguresSound'
<1> DEFINE old == figures[a]
           r == responses[a]
           f == WithTask(old, good, x, e)
<1>1. old \in FigureRecord /\ r \in Seq(ResponseTimes) /\ MeanFits(old, r) /\ e \in Nat
  BY RatedNumbers DEF FiguresSound
<1>2. figures' = [figures EXCEPT ![a] = f] /\ responses' = [responses EXCEPT ![a] = Append(r, x)]
  BY DEF RecordTaskCompletion
<1> HIDE DEF old, r
<1>3. /\ MeanWith(old, x) \in Nat
      /\ MeanWith(old, x) >= Min(Range(Append(r, x)))
      /\ MeanWith(old, x) * (Len(r) + 1) <= SumFunction(Append(r, x))
  BY <1>1, MeanStep
<1>4. Append(r, x) \in Seq(ResponseTimes) /\ Len(Append(r, x)) = Len(r) + 1
  BY <1>1
<1>5. f \in FigureRecord
  <2> DEFINE m == MeanWith(old, x)
             g == IF good THEN old.good + 1 ELSE old.good
             b == IF good THEN old.bad ELSE old.bad + 1
  <2>1. m \in Nat /\ old.total + 1 \in Nat /\ old.earned + e \in Nat
    BY <1>1, <1>3 DEF FigureRecord
  <2>2. g \in Nat /\ b \in Nat
    BY <1>1 DEF FigureRecord
  <2>3. f = [old EXCEPT !.total = old.total + 1, !.good = g, !.bad = b, !.earned = old.earned + e, !.mean = m]
    BY DEF WithTask
  <2> HIDE DEF m, g, b, f
  <2> QED
    BY <1>1, <2>1, <2>2, <2>3 DEF FigureRecord
<1>6. f.mean = MeanWith(old, x) /\ f.total = old.total + 1 /\ f.checks = old.checks /\ f.violations = old.violations
  BY <1>1 DEF FigureRecord, WithTask
<1> HIDE DEF f
<1>7. old.total = Len(r) /\ old.violations <= old.checks
  BY <1>1 DEF MeanFits
<1>8. MeanFits(f, Append(r, x))
  BY <1>3, <1>4, <1>5, <1>6, <1>7 DEF MeanFits
<1> QED
  BY <1>2, <1>8, FiguresChange

\* Terms and their measurements leave the mean alone.
LEMMA TermsStep ==
  ASSUME FiguresSound, NEW a \in RatedAgents, NEW f \in FigureRecord,
         f.total = figures[a].total, f.mean = figures[a].mean, f.violations <= f.checks,
         figures' = [figures EXCEPT ![a] = f], UNCHANGED responses
  PROVE  FiguresSound'
<1>1. responses \in [RatedAgents -> Seq(ResponseTimes)] /\ MeanFits(figures[a], responses[a])
  BY DEF FiguresSound
<1>2. responses' = [responses EXCEPT ![a] = responses[a]]
  BY <1>1
<1>3. MeanFits(f, responses[a])
  BY <1>1 DEF MeanFits
<1> QED
  BY <1>2, <1>3, FiguresChange

LEMMA ServiceStep ==
  ASSUME FiguresSound, NEW a \in RatedAgents, NEW s \in ServiceLevels,
         AgreeService(a, s) \/ MeasureService(a, s)
  PROVE  FiguresSound'
<1> DEFINE old == figures[a]
<1>1. old \in FigureRecord /\ MeanFits(old, responses[a])
  BY DEF FiguresSound
<1>2. CASE AgreeService(a, s)
  <2> DEFINE f == [old EXCEPT !.terms = s]
  <2>1. figures' = [figures EXCEPT ![a] = f] /\ UNCHANGED responses
    BY <1>2 DEF AgreeService
  <2> HIDE DEF old
  <2>2. f \in FigureRecord /\ f.total = old.total /\ f.mean = old.mean /\ f.violations <= f.checks
    BY <1>1 DEF FigureRecord, MeanFits
  <2> HIDE DEF f
  <2> QED
    BY <2>1, <2>2, TermsStep DEF old
<1>3. CASE MeasureService(a, s)
  <2> DEFINE n == IF Meets(s, old.terms) THEN old.violations ELSE old.violations + 1
             f == [[old EXCEPT !.checks = old.checks + 1] EXCEPT !.violations = n]
  <2>1. figures \in [RatedAgents -> FigureRecord]
    BY DEF FiguresSound
  <2>2. figures' = [[figures EXCEPT ![a].checks = old.checks + 1] EXCEPT ![a].violations = n]
        /\ UNCHANGED responses
    BY <1>3, <2>1 DEF MeasureService, FigureRecord
  <2>3. figures' = [figures EXCEPT ![a] = f]
    BY <2>1, <2>2
  <2> HIDE DEF old
  <2>4. n \in Nat /\ n <= old.checks + 1
    BY <1>1 DEF FigureRecord, MeanFits
  <2> HIDE DEF n
  <2>6. old.checks + 1 \in Nat
    BY <1>1 DEF FigureRecord
  <2>5. f \in FigureRecord /\ f.total = old.total /\ f.mean = old.mean /\ f.violations = n
        /\ f.checks = old.checks + 1
    BY <1>1, <2>4, <2>6 DEF FigureRecord
  <2> HIDE DEF f
  <2> QED
    BY <2>2, <2>3, <2>4, <2>5, TermsStep DEF old
<1> QED
  BY <1>2, <1>3

-----------------------------------------------------------------------------
LEMMA ReputationInitHolds == ReputationInit => ReputationIInv
<1> SUFFICES ASSUME ReputationInit PROVE ReputationIInv
  OBVIOUS
<1>1. SettingsSound
  <2>1. 0 \in 0 .. RatedEnd /\ 0 \in 0 .. MaxSettings /\ <<>> \in Seq(RatedAgents)
    BY RatedNumbers
  <2> QED
    BY <2>1, RatedNumbers DEF ReputationInit, SettingsSound
<1>2. ScoresSound
  <2>1. NoScore \in ScoreRecord /\ NoScore.since = -1 /\ NoScore.value = 0 /\ 0 \in 0 .. ScoreScale
    BY RatedNumbers DEF NoScore, ScoreRecord
  <2>2. \A a \in RatedAgents : scoreOf[a] = NoScore /\ graded[a] = 0
    BY DEF ReputationInit
  <2>3. scoreOf \in [RatedAgents -> ScoreRecord] /\ graded \in [RatedAgents -> 0 .. ScoreScale]
    BY <2>1 DEF ReputationInit
  <2>4. ratedTime = 0 /\ outcomes = {}
    BY DEF ReputationInit
  <2>5. \A a \in RatedAgents : scoreOf[a].since <= ratedTime
    BY <2>1, <2>2, <2>4
  <2>6. \A a \in RatedAgents : Gain[a] = 0
    BY <2>1, <2>2 DEF Gain
  <2>7. SumFunctionOnSet(Gain, RatedAgents) = 0
    BY <2>6, RatedNumbers, SumZero
  <2>8. IsFiniteSet(outcomes) /\ MostPerTask * Cardinality(outcomes) = 0
    BY <2>4, FS_EmptySet, GreatestDelta
  <2> QED
    BY <2>3, <2>4, <2>5, <2>7, <2>8 DEF ScoresSound
<1>3. FiguresSound
  <2>1. <<>> \in Seq(ResponseTimes) /\ Len(<<>>) = 0
    OBVIOUS
  <2>2. NoFigures \in FigureRecord /\ NoFigures.total = 0 /\ NoFigures.violations <= NoFigures.checks
    BY DEF NoFigures, FigureRecord
  <2>3. MeanFits(NoFigures, <<>>)
    BY <2>1, <2>2 DEF MeanFits
  <2>4. \A a \in RatedAgents : figures[a] = NoFigures /\ responses[a] = <<>>
    BY DEF ReputationInit
  <2>5. figures \in [RatedAgents -> FigureRecord] /\ responses \in [RatedAgents -> Seq(ResponseTimes)]
    BY <2>1, <2>2 DEF ReputationInit
  <2> QED
    BY <2>3, <2>4, <2>5 DEF FiguresSound
<1> QED
  BY <1>1, <1>2, <1>3 DEF ReputationIInv

\* Steps that leave scores, and those that leave figures, as they are.
LEMMA ScoresLeft ==
  ASSUME ReputationIInv, UNCHANGED <<scoreOf, graded, outcomes>>, ratedTime' >= ratedTime, ratedTime' \in Nat
  PROVE  ScoresSound'
<1>1. ScoresSound /\ ratedTime \in Nat
  BY RatedNumbers DEF ReputationIInv, SettingsSound
<1>2. /\ scoreOf \in [RatedAgents -> ScoreRecord] /\ graded \in [RatedAgents -> 0 .. ScoreScale]
      /\ \A a \in RatedAgents : scoreOf[a].since <= ratedTime
  BY <1>1 DEF ScoresSound
<1>3. \A a \in RatedAgents : scoreOf'[a].since <= ratedTime'
  <2> TAKE a \in RatedAgents
  <2>1. scoreOf[a].since \in Int /\ scoreOf'[a] = scoreOf[a]
    BY <1>2, RatedNumbers DEF ScoreRecord
  <2> QED
    BY <1>1, <1>2, <2>1
<1>4. \A a \in RatedAgents : scoreOf[a].value \in Int
  BY <1>2, RatedNumbers DEF ScoreRecord
<1> QED
  BY <1>1, <1>2, <1>3, <1>4, ScoresLower

LEMMA FiguresLeft ==
  ASSUME FiguresSound, UNCHANGED <<figures, responses>>
  PROVE  FiguresSound'
BY DEF FiguresSound

LEMMA ReputationStepHolds == ReputationIInv /\ [ReputationNext]_ratedVars => ReputationIInv'
<1> SUFFICES ASSUME ReputationIInv, [ReputationNext]_ratedVars PROVE ReputationIInv'
  OBVIOUS
<1>0. ScoresSound /\ FiguresSound /\ SettingsSound /\ ratedTime \in Nat
  BY RatedNumbers DEF ReputationIInv, SettingsSound
<1>1. ASSUME KeepRest PROVE SettingsSound' /\ ratedTime' = ratedTime
  BY <1>0, <1>1 DEF KeepRest, KeepSettings, KeepEnrolment, SettingsSound
<1>2. ASSUME KeepRatings, SettingsSound', ratedTime' >= ratedTime PROVE ReputationIInv'
  <2>1. UNCHANGED <<scoreOf, graded, outcomes>> /\ UNCHANGED <<figures, responses>>
    BY <1>2 DEF KeepRatings
  <2>2. ratedTime' \in Nat
    BY <1>2, RatedNumbers DEF SettingsSound
  <2> QED
    BY <1>0, <1>2, <2>1, <2>2, ScoresLeft, FiguresLeft DEF ReputationIInv
<1>3. ASSUME NEW a \in RatedAgents, Enrol(a) \/ Withdraw(a) PROVE ReputationIInv'
  <2>1. KeepRatings /\ KeepSettings /\ ratedTime' = ratedTime
    BY <1>3 DEF Enrol, Withdraw
  <2>2. enrolled' \subseteq RatedAgents /\ enrolments' \in Seq(RatedAgents)
    BY <1>0, <1>3 DEF Enrol, Withdraw, SettingsSound
  <2>3. SettingsSound'
    BY <1>0, <2>1, <2>2 DEF KeepSettings, SettingsSound
  <2> QED
    BY <1>0, <1>2, <2>1, <2>3
<1>4. ASSUME NEW a \in RatedAgents, NEW k \in RatedTasks, NEW good \in BOOLEAN, NEW d \in Deltas,
             RecordTaskOutcome(a, k, good, d)
      PROVE  ReputationIInv'
  <2>1. KeepRest /\ UNCHANGED <<figures, responses>>
    BY <1>4 DEF RecordTaskOutcome
  <2> QED
    BY <1>0, <1>1, <1>4, <2>1, OutcomeStep, FiguresLeft DEF ReputationIInv
<1>5. ASSUME NEW A \in SUBSET RatedAgents, NEW grades \in [A -> Grades], GradeAgents(grades)
      PROVE  ReputationIInv'
  <2>1. KeepRest /\ UNCHANGED <<figures, responses>>
    BY <1>5 DEF GradeAgents
  <2> QED
    BY <1>0, <1>1, <1>5, <2>1, GradeStep, FiguresLeft DEF ReputationIInv
<1>6. ASSUME NEW a \in RatedAgents, GetReputation(a) PROVE ReputationIInv'
  <2>1. KeepRest /\ UNCHANGED <<figures, responses>>
    BY <1>6 DEF GetReputation
  <2> QED
    BY <1>0, <1>1, <1>6, <2>1, ReadStep, FiguresLeft DEF ReputationIInv
<1>7. ASSUME KeepRest, UNCHANGED <<scoreOf, outcomes, graded>>, FiguresSound' PROVE ReputationIInv'
  <2>1. SettingsSound' /\ ratedTime' >= ratedTime /\ ratedTime' \in Nat
    BY <1>0, <1>1, <1>7
  <2> QED
    BY <1>7, <2>1, ScoresLeft DEF ReputationIInv
<1>8. ASSUME NEW a \in RatedAgents, NEW good \in BOOLEAN, NEW r \in ResponseTimes, NEW e \in Earnings,
             RecordTaskCompletion(a, good, r, e)
      PROVE  ReputationIInv'
  <2>1. KeepRest /\ UNCHANGED <<scoreOf, outcomes, graded>>
    BY <1>8 DEF RecordTaskCompletion
  <2> QED
    BY <1>0, <1>7, <1>8, <2>1, CompletionStep
<1>9. ASSUME NEW a \in RatedAgents, NEW s \in ServiceLevels, AgreeService(a, s) \/ MeasureService(a, s)
      PROVE  ReputationIInv'
  <2>1. KeepRest /\ UNCHANGED <<scoreOf, outcomes, graded>>
    BY <1>9 DEF AgreeService, MeasureService
  <2> QED
    BY <1>0, <1>7, <1>9, <2>1, ServiceStep
<1>10. ASSUME ChangeSetting, reporters' \subseteq Reporters, overseer' \in Reporters \cup {NoReporter},
              schedule' \in DecaySchedules, ratingsHalted' \in BOOLEAN
       PROVE  ReputationIInv'
  <2>1. KeepRatings /\ KeepEnrolment /\ ratedTime' = ratedTime /\ settings < MaxSettings /\ settings' = settings + 1
    BY <1>10 DEF ChangeSetting
  <2>2. SettingsSound'
    BY <1>0, <1>10, <2>1, RatedNumbers DEF KeepEnrolment, SettingsSound
  <2> QED
    BY <1>0, <1>2, <2>1, <2>2
<1>11. ASSUME NEW r \in Reporters, SetCoordinator(r) \/ AddAuthorizedCaller(r) \/ RemoveAuthorizedCaller(r)
       PROVE  ReputationIInv'
  <2>1. ChangeSetting /\ reporters' \subseteq Reporters /\ overseer' \in Reporters \cup {NoReporter}
        /\ schedule' \in DecaySchedules /\ ratingsHalted' \in BOOLEAN
    BY <1>0, <1>11 DEF SetCoordinator, AddAuthorizedCaller, RemoveAuthorizedCaller, SettingsSound
  <2> QED
    BY <1>10, <2>1
<1>12. ASSUME NEW d \in DecaySchedules, SetReputationConfig(d) PROVE ReputationIInv'
  <2>1. ChangeSetting /\ reporters' \subseteq Reporters /\ overseer' \in Reporters \cup {NoReporter}
        /\ schedule' \in DecaySchedules /\ ratingsHalted' \in BOOLEAN
    BY <1>0, <1>12 DEF SetReputationConfig, SettingsSound
  <2> QED
    BY <1>10, <2>1
<1>13. ASSUME NEW b \in BOOLEAN, HaltRatings(b) PROVE ReputationIInv'
  <2>1. ChangeSetting /\ reporters' \subseteq Reporters /\ overseer' \in Reporters \cup {NoReporter}
        /\ schedule' \in DecaySchedules /\ ratingsHalted' \in BOOLEAN
    BY <1>0, <1>13 DEF HaltRatings, SettingsSound
  <2> QED
    BY <1>10, <2>1
<1>14. CASE RatedTick
  <2>1. KeepRatings /\ KeepSettings /\ KeepEnrolment /\ ratedTime < RatedEnd /\ ratedTime' = ratedTime + 1
    BY <1>14 DEF RatedTick
  <2>2. ratedTime' \in 0 .. RatedEnd /\ ratedTime' >= ratedTime
    BY <1>0, <2>1, RatedNumbers
  <2>3. SettingsSound'
    BY <1>0, <2>1, <2>2 DEF KeepSettings, KeepEnrolment, SettingsSound
  <2> QED
    BY <1>2, <2>1, <2>2, <2>3
<1>15. CASE UNCHANGED ratedVars
  <2>1. KeepRatings /\ KeepRest
    BY <1>15 DEF ratedVars, KeepRatings, KeepRest, KeepSettings, KeepEnrolment
  <2> QED
    BY <1>0, <1>1, <1>2, <2>1
<1> QED
  BY <1>3, <1>4, <1>5, <1>6, <1>8, <1>9, <1>11, <1>12, <1>13, <1>14, <1>15 DEF ReputationNext

-----------------------------------------------------------------------------
LEMMA ScoresCounted ==
  ASSUME ScoresSound
  PROVE  EachTaskCountsOnce
<1> DEFINE scores == [a \in RatedAgents |-> scoreOf[a].value]
           f == Gain
           h == [a \in RatedAgents |-> graded[a] + Gain[a]]
<1>1. graded \in [RatedAgents -> 0 .. ScoreScale] /\ scoreOf \in [RatedAgents -> ScoreRecord]
  BY DEF ScoresSound
<1>2. \A a \in RatedAgents :
        /\ Gain[a] = IF scoreOf[a].value > graded[a] THEN scoreOf[a].value - graded[a] ELSE 0
        /\ Gain[a] \in Nat /\ scoreOf[a].value \in Nat /\ graded[a] \in Nat
  BY <1>1, GainTyped
<1>3. \A a \in RatedAgents : /\ scores[a] \in Int /\ h[a] \in Int /\ scores[a] <= h[a]
                             /\ h[a] = graded[a] + f[a] /\ graded[a] \in Int /\ f[a] \in Int
  BY <1>2
<1>4. DOMAIN scores = RatedAgents /\ DOMAIN graded = RatedAgents
  BY <1>1
<1> HIDE DEF scores, h, f
<1>5. SumFunctionOnSet(scores, RatedAgents) <= SumFunctionOnSet(h, RatedAgents)
  BY <1>3, RatedNumbers, SumLeq
<1>6. SumFunctionOnSet(h, RatedAgents) = SumFunctionOnSet(graded, RatedAgents) + SumFunctionOnSet(f, RatedAgents)
  BY <1>3, RatedNumbers, SumPlus
<1>7. /\ SumFunctionOnSet(scores, RatedAgents) \in Int /\ SumFunctionOnSet(graded, RatedAgents) \in Int
      /\ SumFunctionOnSet(f, RatedAgents) \in Int
  BY <1>3, RatedNumbers, SumType
<1>8. /\ SumFunctionOnSet(f, RatedAgents) <= MostPerTask * Cardinality(outcomes)
      /\ MostPerTask * Cardinality(outcomes) \in Int
  BY GreatestDelta, FS_CardinalityType DEF ScoresSound, f
<1>9. SumFunctionOnSet(scores, RatedAgents)
        <= SumFunctionOnSet(graded, RatedAgents) + MostPerTask * Cardinality(outcomes)
  BY <1>5, <1>6, <1>7, <1>8
<1> QED
  BY <1>4, <1>9 DEF EachTaskCountsOnce, SumFunction, scores

LEMMA ComplianceFacts ==
  ASSUME NEW f \in FigureRecord, f.violations <= f.checks
  PROVE  Compliance(f) \in 0 .. 100
<1>1. f.violations \in Nat /\ f.checks \in Nat
  BY DEF FigureRecord
<1>2. CASE f.checks = 0
  BY <1>2 DEF Compliance
<1>3. CASE f.checks # 0
  <2> DEFINE c == f.checks
             x == (c - f.violations) * 100
  <2>1. c \in Nat \ {0} /\ x \in Nat /\ x <= 100 * c
    BY <1>1, <1>3
  <2>2. Compliance(f) = x \div c
    BY <1>3 DEF Compliance
  <2> HIDE DEF x, c
  <2>3. x \div c \in Nat /\ x \div c <= 100
    BY <2>1, FloorFacts
  <2> QED
    BY <2>2, <2>3
<1> QED
  BY <1>2, <1>3

\* Each task counts once towards reputation, and the floored means stay near
\* what they average, through decay, reads, full updates, registrations and
\* any order of calls (record_task_outcome, record_task_completion).
THEOREM ReputationHolds == ReputationSpec => []ReputationInv
<1>1. ReputationIInv => ReputationInv
  <2> SUFFICES ASSUME ReputationIInv PROVE ReputationInv
    OBVIOUS
  <2>1. ScoresSound /\ FiguresSound /\ SettingsSound
    BY DEF ReputationIInv
  <2>2. \A a \in RatedAgents : Compliance(figures[a]) \in 0 .. 100
    BY <2>1, ComplianceFacts DEF FiguresSound, MeanFits
  <2>3. ReputationTypeOK
    BY <2>1, <2>2 DEF ReputationTypeOK, ScoresSound, FiguresSound, SettingsSound, ScoreRecord, FigureRecord
  <2>4. MeanIsBracketed
    BY <2>1 DEF MeanIsBracketed, FiguresSound, MeanFits
  <2> QED
    BY <2>1, <2>3, <2>4, ScoresCounted DEF ReputationInv
<1> QED
  BY <1>1, ReputationInitHolds, ReputationStepHolds, PTL DEF ReputationSpec

-----------------------------------------------------------------------------
-----------------------------------------------------------------------------
LEMMA AmongFacts ==
  ASSUME NEW S, NEW c \in Seq(S), NEW K
  PROVE  /\ Among(c, K) \in Seq(S) /\ Range(Among(c, K)) = Range(c) \cap K
         /\ IsInjective(c) => IsInjective(Among(c, K))
<1> DEFINE it == CHOOSE it : it = [i \in 0 .. Len(c) |->
                   IF i = 0 THEN <<>>
                   ELSE IF c[i] \in K THEN Append(it[i - 1], c[i]) ELSE it[i - 1]]
<1>1. Filtering(it, c, K)
  <2>1. \E w : Filtering(w, c, K)
    BY FilterRuns
  <2> QED
    BY <2>1 DEF Filtering
<1>2. Among(c, K) = it[Len(c)]
  BY DEF Among
<1> HIDE DEF it
<1> QED
  BY <1>1, <1>2, FilterFacts

OfferedRecs == [price : Nat \cup {-1}, rep : Nat, latency : Nat, avail : Nat]

ShelfStands ==
  /\ offered \in [FoundAgents -> OfferedRecs]
  /\ \A a \in FoundAgents : Present(a) => offered[a].price \in Nat
  /\ shelf \in Seq(FoundAgents) /\ IsInjective(shelf)
  /\ Range(shelf) = {a \in FoundAgents : Present(a)}

LEMMA CandidatesFacts ==
  ASSUME ShelfStands, NEW q \in Queries
  PROVE  /\ Candidates(q) \in Seq(FoundAgents) /\ IsInjective(Candidates(q))
         /\ Range(Candidates(q)) = {a \in FoundAgents : Suits(a, q)}
<1>1. shelf \in Seq(FoundAgents) /\ IsInjective(shelf)
  BY DEF ShelfStands
<1>2. Range(shelf) \cap {a \in FoundAgents : Suits(a, q)} = {a \in FoundAgents : Suits(a, q)}
  BY DEF ShelfStands, Suits
<1> QED
  BY <1>1, <1>2, AmongFacts DEF Candidates

\* The greatest of the values that the elements of a sequence have.
LEMMA MaxOfValues ==
  ASSUME NEW S, NEW c \in Seq(S), c # <<>>, NEW f, \A x \in Range(c) : f[x] \in Nat
  PROVE  Max({f[x] : x \in Range(c)}) \in Nat
<1> DEFINE T == {f[x] : x \in Range(c)}
           n == Len(c)
           g == [j \in 1 .. n |-> f[c[j]]]
<1>1. n \in Nat /\ n # 0 /\ Range(c) = {c[j] : j \in 1 .. n}
  BY SeqFacts DEF Range
<1> HIDE DEF n
<1>2. \A j \in 1 .. n : g[j] \in Nat /\ g[j] \in T
  BY <1>1
<1>3. \A y \in T : \E j \in 1 .. n : y = g[j]
  <2> SUFFICES ASSUME NEW y \in T PROVE \E j \in 1 .. n : y = g[j]
    OBVIOUS
  <2>1. PICK x \in Range(c) : y = f[x]
    OBVIOUS
  <2>2. PICK j \in 1 .. n : x = c[j]
    BY <1>1
  <2> QED
    BY <2>1, <2>2
<1> HIDE DEF g, T
<1>4. 1 \in 1 .. n /\ \A j \in 1 .. n : g[j] \in Int
  BY <1>1, <1>2
<1>5. PICK m \in 1 .. n : \A j \in 1 .. n : g[j] <= g[m]
  BY <1>1, <1>4, FirstBestExists
<1>6. g[m] \in T /\ \A y \in T : g[m] >= y
  BY <1>2, <1>3, <1>5
<1>7. Max(T) \in T
  BY <1>6 DEF Max
<1>8. Max(T) \in Nat
  BY <1>2, <1>3, <1>7
<1> QED
  BY <1>8 DEF T

LEMMA SpareIsInt ==
  ASSUME NEW n \in Nat, NEW limit \in Nat, NEW greatest \in Nat
  PROVE  Spare(n, limit, greatest) \in Int
<1> DEFINE whole == IF limit > 0 THEN limit ELSE greatest
<1>1. whole \in Nat
  OBVIOUS
<1>2. CASE whole = 0
  BY <1>2 DEF Spare
<1>3. CASE whole # 0
  <2>1. n * 100 \in Int
    OBVIOUS
  <2> DEFINE x == n * 100
  <2> HIDE DEF whole, x
  <2>2. whole \in Nat \ {0} /\ x \in Int
    BY <1>1, <1>3, <2>1 DEF x
  <2>3. x \div whole \in Int
    BY <2>2
  <2>4. 100 - x \div whole \in Int
    BY <2>3
  <2>5. Spare(n, limit, greatest) = 100 - x \div whole
    BY <1>3 DEF Spare, x, whole
  <2> QED
    BY <2>4, <2>5
<1> HIDE DEF whole
<1> QED
  BY <1>2, <1>3

LEMMA CompositeIsInt ==
  ASSUME DiscoveryAssumption, ShelfStands, NEW q \in Queries, NEW a \in Range(Candidates(q))
  PROVE  Composite(a, q) \in Int
<1> DEFINE c == Candidates(q)
           P == {offered[b].price : b \in Range(c)}
           L == {offered[b].latency : b \in Range(c)}
<1>1. c \in Seq(FoundAgents) /\ \A b \in Range(c) : b \in FoundAgents /\ Present(b)
  BY CandidatesFacts DEF Suits
<1>2. \A b \in Range(c) : /\ offered[b].price \in Nat /\ offered[b].latency \in Nat
                         /\ offered[b].rep \in Nat /\ offered[b].avail \in Nat
  BY <1>1 DEF ShelfStands, OfferedRecs
<1>3. q.maxPrice \in Nat /\ q.maxLatency \in Nat
  BY DEF DiscoveryAssumption
<1> HIDE DEF c
<1>4. a \in Range(c) /\ c # <<>>
  <2>1. a \in Range(c)
    BY DEF c
  <2>2. PICK j \in DOMAIN c : a = c[j]
    BY <2>1 DEF Range
  <2> QED
    BY <1>1, <2>1, <2>2, EmptySeq
<1>5. Max(P) \in Nat
  <2> DEFINE f == [b \in FoundAgents |-> offered[b].price]
  <2>1. \A b \in Range(c) : f[b] = offered[b].price
    BY <1>1
  <2>2. {f[b] : b \in Range(c)} = P
    BY <2>1
  <2> HIDE DEF f, P
  <2>3. \A b \in Range(c) : f[b] \in Nat
    BY <1>2, <2>1
  <2>4. Max({f[b] : b \in Range(c)}) \in Nat
    BY <1>1, <1>4, <2>3, MaxOfValues
  <2> QED
    BY <2>2, <2>4
<1>6. Max(L) \in Nat
  <2> DEFINE f == [b \in FoundAgents |-> offered[b].latency]
  <2>1. \A b \in Range(c) : f[b] = offered[b].latency
    BY <1>1
  <2>2. {f[b] : b \in Range(c)} = L
    BY <2>1
  <2> HIDE DEF f, L
  <2>3. \A b \in Range(c) : f[b] \in Nat
    BY <1>2, <2>1
  <2>4. Max({f[b] : b \in Range(c)}) \in Nat
    BY <1>1, <1>4, <2>3, MaxOfValues
  <2> QED
    BY <2>2, <2>4
<1> DEFINE price == Spare(offered[a].price, q.maxPrice, Max(P))
           speed == Spare(offered[a].latency, q.maxLatency, Max(L))
<1>7. price \in Int /\ speed \in Int
  BY <1>2, <1>3, <1>4, <1>5, <1>6, SpareIsInt
<1>8. Percent(offered[a].rep) \in Int /\ Percent(offered[a].avail) \in Int
  BY <1>2, <1>4 DEF Percent
<1>9. Composite(a, q) = 30 * Percent(offered[a].rep) + 25 * price
                          + 25 * Percent(offered[a].avail) + 20 * speed
  BY DEF Composite, c
<1> HIDE DEF price, speed
<1> QED
  BY <1>7, <1>8, <1>9

\* The rows of an answer in the making: the candidates in some order, of which the first k
\* stand where they belong.
RowsOfAnswer(r, q) ==
  /\ r \in Seq(FoundAgents) /\ Len(r) = Len(Candidates(q))
  /\ Range(r) = Range(Candidates(q)) /\ IsInjective(r)
InPlace(r, q, k) ==
  \A i \in 1 .. k : \A j \in i + 1 .. Len(r) : Composite(r[i], q) >= Composite(r[j], q)

LEMMA RoundPlaces ==
  ASSUME DiscoveryAssumption, ShelfStands, NEW q \in Queries, NEW r, RowsOfAnswer(r, q),
         NEW i \in 1 .. Len(r)
  PROVE  /\ RowsOfAnswer(Swapped(r, i, BestFrom(r, i, q)), q)
         /\ InPlace(r, q, i - 1) => InPlace(Swapped(r, i, BestFrom(r, i, q)), q, i)
<1> DEFINE n == Len(r)
           m == BestFrom(r, i, q)
           d == Swapped(r, i, m)
           f == [j \in 1 .. n |-> Composite(r[j], q)]
<1>1. /\ r \in Seq(FoundAgents) /\ n \in Nat /\ DOMAIN r = 1 .. n
      /\ Range(r) = Range(Candidates(q)) /\ IsInjective(r) /\ n = Len(Candidates(q))
  BY SeqFacts DEF RowsOfAnswer
<1>2. \A j \in 1 .. n : Composite(r[j], q) \in Int
  <2> SUFFICES ASSUME NEW j \in 1 .. n PROVE Composite(r[j], q) \in Int
    OBVIOUS
  <2>1. r[j] \in Range(Candidates(q))
    BY <1>1 DEF Range
  <2> QED
    BY <2>1, CompositeIsInt
<1>3. \A j \in 1 .. n : f[j] = Composite(r[j], q)
  OBVIOUS
<1> HIDE DEF n
<1>4. i \in 1 .. n
  BY DEF n
<1> HIDE DEF f
<1>5. PICK b \in i .. n : /\ \A j \in i .. n : f[j] <= f[b]
                          /\ \A j \in i .. b - 1 : f[j] < f[b]
  <2>1. n \in Nat /\ \A j \in 1 .. n : f[j] \in Int
    BY <1>1, <1>2, <1>3
  <2> QED
    BY <1>4, <2>1, FirstBestExists
<1>6. /\ \A j \in i .. n : Composite(r[j], q) <= Composite(r[b], q)
      /\ \A j \in i .. b - 1 : Composite(r[j], q) < Composite(r[b], q)
  <2>1. b \in 1 .. n /\ \A j \in i .. n : j \in 1 .. n
    BY <1>1, <1>4
  <2>2. \A j \in i .. b - 1 : j \in i .. n
    BY <1>1, <1>4
  <2> QED
    BY <1>3, <1>5, <2>1, <2>2
<1>7. m \in i .. n /\ \A j \in i .. n : Composite(r[j], q) <= Composite(r[m], q)
  BY <1>6 DEF BestFrom, n
<1> HIDE DEF m
<1>8. m \in 1 .. n
  BY <1>1, <1>4, <1>7
<1>9. Swapping(d, r, i, m)
  BY DEF Swapped, Swapping
<1>10. /\ d \in Seq(FoundAgents) /\ Len(d) = n /\ Range(d) = Range(r)
       /\ d[i] = r[m] /\ d[m] = r[i] /\ \A j \in 1 .. n : j # i /\ j # m => d[j] = r[j]
       /\ IsInjective(d)
  <2>1. r \in Seq(FoundAgents) /\ i \in 1 .. Len(r) /\ m \in 1 .. Len(r) /\ IsInjective(r)
    BY <1>1, <1>4, <1>8 DEF n
  <2> HIDE DEF d
  <2>2. /\ d \in Seq(FoundAgents) /\ Len(d) = Len(r) /\ Range(d) = Range(r)
        /\ d[i] = r[m] /\ d[m] = r[i] /\ \A j \in 1 .. Len(r) : j # i /\ j # m => d[j] = r[j]
        /\ IsInjective(r) => IsInjective(d)
    BY ONLY <1>9, <2>1, SwapFacts
  <2> QED
    BY <2>1, <2>2 DEF n
<1> HIDE DEF d
<1>11. RowsOfAnswer(d, q)
  BY <1>1, <1>10 DEF RowsOfAnswer
<1>12. ASSUME InPlace(r, q, i - 1) PROVE InPlace(d, q, i)
  <2> DEFINE s == [j \in 1 .. n |-> Composite(r[j], q)]
             t == [j \in 1 .. n |-> Composite(d[j], q)]
  <2>1. /\ \A j \in 1 .. n : s[j] = Composite(r[j], q) /\ t[j] = Composite(d[j], q)
    OBVIOUS
  <2>2. /\ t[i] = s[m] /\ t[m] = s[i] /\ \A j \in 1 .. n : j # i /\ j # m => t[j] = s[j]
    BY <1>4, <1>8, <1>10, <2>1
  <2>3. \A j \in 1 .. n : s[j] \in Int
    BY <1>2, <2>1
  <2>4. \A x \in 1 .. i - 1 : \A y \in x + 1 .. n : s[x] >= s[y]
    <3> SUFFICES ASSUME NEW x \in 1 .. i - 1, NEW y \in x + 1 .. n PROVE s[x] >= s[y]
      OBVIOUS
    <3>1. x \in 1 .. n /\ y \in 1 .. n
      BY <1>1, <1>4
    <3>2. Composite(r[x], q) >= Composite(r[y], q)
      BY <1>12 DEF InPlace, n
    <3> QED
      BY <2>1, <3>1, <3>2
  <2>5. \A j \in i .. n : s[j] <= s[m]
    <3>1. \A j \in i .. n : j \in 1 .. n
      BY <1>1, <1>4
    <3> QED
      BY <1>7, <1>8, <2>1, <3>1
  <2> HIDE DEF s, t
  <2>6. ASSUME NEW x \in 1 .. i, NEW y \in x + 1 .. n PROVE t[x] >= t[y]
    <3>1. x \in 1 .. n /\ y \in 1 .. n
      BY <1>1, <1>4
    <3>2. CASE x = i
      <4>1. y \in i .. n /\ i \in i .. n
        BY <1>1, <1>4, <3>2
      <4>2. t[y] = s[y] \/ t[y] = s[i] \/ t[y] = s[m]
        BY <2>2, <3>1
      <4> QED
        BY <1>8, <2>2, <2>3, <2>5, <3>1, <3>2, <4>1, <4>2
    <3>3. CASE x # i
      <4>1. x \in 1 .. i - 1 /\ x # m
        BY <1>1, <1>4, <1>7, <3>3
      <4>2. t[x] = s[x]
        BY <2>2, <3>1, <3>3, <4>1
      <4>3. i \in x + 1 .. n /\ m \in x + 1 .. n
        BY <1>1, <1>4, <1>7, <4>1
      <4>4. t[y] = s[y] \/ t[y] = s[i] \/ t[y] = s[m]
        BY <2>2, <3>1
      <4> QED
        BY <2>4, <4>1, <4>2, <4>3, <4>4
    <3> QED
      BY <3>2, <3>3
  <2>7. ASSUME NEW x \in 1 .. i, NEW y \in x + 1 .. Len(d)
        PROVE  Composite(d[x], q) >= Composite(d[y], q)
    <3>1. x \in 1 .. n /\ y \in 1 .. n /\ y \in x + 1 .. n
      BY <1>1, <1>4, <1>10
    <3> QED
      BY <2>1, <2>6, <3>1
  <2> QED
    BY <2>7 DEF InPlace
<1> QED
  BY <1>11, <1>12 DEF d, m

LEMMA RankedFacts ==
  ASSUME DiscoveryAssumption, ShelfStands, NEW q \in Queries
  PROVE  RowsOfAnswer(Ranked(q), q) /\ InPlace(Ranked(q), q, Len(Ranked(q)))
<1> DEFINE c == Candidates(q)
           n == Len(c)
           X == {r \in Seq(FoundAgents) : RowsOfAnswer(r, q)}
           step == [i \in 1 .. n |-> [x \in X |-> Swapped(x, i, BestFrom(x, i, q))]]
<1>1. c \in Seq(FoundAgents) /\ n \in Nat /\ c \in X
  BY CandidatesFacts, SeqFacts DEF RowsOfAnswer
<1>2. \A x \in X : RowsOfAnswer(x, q) /\ Len(x) = n
  BY DEF RowsOfAnswer
<1>3. \A i \in 1 .. n : \A x \in X : step[i][x] = Swapped(x, i, BestFrom(x, i, q))
  OBVIOUS
<1>4. \A x : RowsOfAnswer(x, q) => x \in X
  BY DEF RowsOfAnswer
<1> HIDE DEF c, n, X, step
<1>5. \A i \in 1 .. n : \A x \in X : step[i][x] \in X
  BY <1>2, <1>3, <1>4, RoundPlaces
<1>6. PICK it : Rounds(it, c, n, step) /\ StaysIn(it, n, X)
  BY <1>1, <1>5, LoopExists
<1> DEFINE best == CHOOSE w : w = [i \in 0 .. n |->
                     IF i = 0 THEN c ELSE Swapped(w[i - 1], i, BestFrom(w[i - 1], i, q))]
<1>7. best = [i \in 0 .. n |->
               IF i = 0 THEN c ELSE Swapped(best[i - 1], i, BestFrom(best[i - 1], i, q))]
  <2> DEFINE same == [i \in 0 .. n |->
               IF i = 0 THEN c ELSE Swapped(it[i - 1], i, BestFrom(it[i - 1], i, q))]
  <2>1. \A i \in 0 .. n : it[i] = same[i]
    <3> SUFFICES ASSUME NEW i \in 0 .. n PROVE it[i] = same[i]
      OBVIOUS
    <3>1. it[i] = IF i = 0 THEN c ELSE step[i][it[i - 1]]
      BY <1>6 DEF Rounds
    <3>2. CASE i = 0
      BY <3>1, <3>2
    <3>3. CASE i # 0
      <4>1. i \in 1 .. n /\ i - 1 \in 0 .. n
        BY <1>1, <3>3
      <4>2. it[i - 1] \in X
        BY <1>6, <4>1 DEF StaysIn
      <4> QED
        BY <1>3, <3>1, <3>3, <4>1, <4>2
    <3> QED
      BY <3>2, <3>3
  <2>2. it = same
    BY <1>6, <2>1 DEF Rounds
  <2>3. \E w : w = [i \in 0 .. n |->
                     IF i = 0 THEN c ELSE Swapped(w[i - 1], i, BestFrom(w[i - 1], i, q))]
    BY <2>2
  <2> QED
    BY <2>3
<1>8. Ranked(q) = best[n]
  BY DEF Ranked, c, n
<1> HIDE DEF best
<1>9. /\ best[0] = c
      /\ \A i \in 1 .. n : best[i] = Swapped(best[i - 1], i, BestFrom(best[i - 1], i, q))
  <2>1. 0 \in 0 .. n /\ \A i \in 1 .. n : i \in 0 .. n /\ i # 0
    BY <1>1
  <2> QED
    BY <1>7, <2>1
<1> DEFINE G == {i \in Nat : i <= n => RowsOfAnswer(best[i], q) /\ InPlace(best[i], q, i)}
<1>10. 0 \in G
  <2>1. RowsOfAnswer(best[0], q)
    BY <1>1, <1>2, <1>9
  <2>2. InPlace(best[0], q, 0)
    BY DEF InPlace
  <2> QED
    BY <2>1, <2>2
<1>11. ASSUME NEW i \in Nat, i \in G PROVE i + 1 \in G
  <2> SUFFICES ASSUME i + 1 <= n
               PROVE  RowsOfAnswer(best[i + 1], q) /\ InPlace(best[i + 1], q, i + 1)
    OBVIOUS
  <2>1. PICK r : r = best[i]
    OBVIOUS
  <2>2. RowsOfAnswer(r, q) /\ InPlace(r, q, i)
    BY <1>1, <1>11, <2>1
  <2>3. Len(r) = n
    BY <1>2, <1>4, <2>2
  <2>4. i + 1 \in 1 .. n /\ (i + 1) - 1 = i
    BY <1>1
  <2>5. best[i + 1] = Swapped(r, i + 1, BestFrom(r, i + 1, q))
    BY <1>9, <2>1, <2>4
  <2> QED
    BY <2>2, <2>3, <2>4, <2>5, RoundPlaces
<1> HIDE DEF G
<1>12. n \in G
  BY <1>1, <1>10, <1>11, NatSetInduction
<1>13. RowsOfAnswer(best[n], q) /\ InPlace(best[n], q, n)
  BY <1>1, <1>12 DEF G
<1>14. Len(best[n]) = n
  BY <1>2, <1>4, <1>13
<1> QED
  BY <1>8, <1>13, <1>14

-----------------------------------------------------------------------------
ArrivalsStand ==
  /\ arrivals \in Seq(FoundAgents) /\ Len(arrivals) <= MaxArrivals
  /\ \A a \in FoundAgents : Present(a) => \E i \in 1 .. Len(arrivals) : arrivals[i] = a

\* Who stayed is read already, or registered at an index still to be read.
WalkStands ==
  /\ walk \in [next : Nat, got : SUBSET FoundAgents, stayed : SUBSET FoundAgents,
               state : {"none", "reading", "done"}]
  /\ walk.next <= Len(arrivals)
  /\ walk.state = "reading" =>
       \A a \in walk.stayed :
         /\ Present(a)
         /\ a \in walk.got \/ \E i \in walk.next + 1 .. Len(arrivals) : arrivals[i] = a
  /\ walk.state = "done" => walk.stayed \subseteq walk.got

Offer(x) == \E t, u \in Terms : x = [t EXCEPT !.price = u.price]
OffersStand == \A a \in FoundAgents : Present(a) => Offer(offered[a])
ServingStands ==
  /\ icy \subseteq FoundAgents
  /\ answers \in [Queries -> [kept : BOOLEAN, rows : Seq(FoundAgents)]]
  /\ queriesSeen \in 0 .. MaxServed /\ hits \in 0 .. queriesSeen

DiscoveryIInv == OffersStand /\ ServingStands /\ ShelfStands /\ ArrivalsStand /\ WalkStands

LEMMA DiscoveryStart == DiscoveryAssumption /\ DiscoveryInit => DiscoveryIInv
<1> SUFFICES ASSUME DiscoveryAssumption, DiscoveryInit PROVE DiscoveryIInv
  OBVIOUS
<1>1. <<>> \in Seq(FoundAgents) /\ Len(<<>>) = 0 /\ DOMAIN <<>> = {}
  BY EmptySeq
<1>2. \A a \in FoundAgents : ~Present(a)
  BY DEF DiscoveryInit, Present
<1>3. OffersStand /\ ServingStands
  BY <1>1, <1>2 DEF OffersStand, ServingStands, DiscoveryInit, DiscoveryAssumption, NotKept
<1>4. ShelfStands
  <2>1. Absent \in OfferedRecs
    BY DEF Absent, OfferedRecs
  <2>2. IsInjective(shelf) /\ Range(shelf) = {}
    BY <1>1 DEF DiscoveryInit, IsInjective, Range
  <2> QED
    BY <1>1, <1>2, <2>1, <2>2 DEF ShelfStands, DiscoveryInit
<1>5. ArrivalsStand
  BY <1>1, <1>2 DEF ArrivalsStand, DiscoveryInit, DiscoveryAssumption
<1>6. WalkStands
  BY <1>1 DEF WalkStands, DiscoveryInit, NoWalk
<1> QED
  BY <1>3, <1>4, <1>5, <1>6 DEF DiscoveryIInv

\* Steps of discover_agents and the ledger leave the registrations and the walk alone.
LEMMA ServingStep ==
  ASSUME DiscoveryAssumption, DiscoveryIInv, NEW q \in Queries, Discover(q) \/ DropAnswer(q)
  PROVE  DiscoveryIInv'
<1>1. UNCHANGED <<offered, shelf, arrivals, icy, walk>>
  BY DEF Discover, DropAnswer
<1>2. ShelfStands' /\ ArrivalsStand' /\ WalkStands'
  BY <1>1 DEF DiscoveryIInv, ShelfStands, ArrivalsStand, WalkStands, Present
<1>3. Ranked(q) \in Seq(FoundAgents)
  BY RankedFacts DEF RowsOfAnswer, DiscoveryIInv
<1>4. /\ answers' \in [Queries -> [kept : BOOLEAN, rows : Seq(FoundAgents)]]
      /\ queriesSeen' \in 0 .. MaxServed /\ hits' \in 0 .. queriesSeen'
  <2> DEFINE Answer == Seq(FoundAgents)
  <2>1. answers \in [Queries -> [kept : BOOLEAN, rows : Answer]]
        /\ queriesSeen \in 0 .. MaxServed /\ hits \in 0 .. queriesSeen
    BY DEF DiscoveryIInv, ServingStands
  <2>2. <<>> \in Answer /\ Ranked(q) \in Answer
    BY <1>3, EmptySeq
  <2> HIDE DEF Answer
  <2>3. CASE DropAnswer(q)
    BY <2>1, <2>2, <2>3 DEF DropAnswer, NotKept, Answer
  <2>4. CASE Discover(q)
    <3>1. MaxServed \in Nat /\ queriesSeen' = queriesSeen + 1 /\ queriesSeen < MaxServed
      BY <2>4 DEF DiscoveryAssumption, Discover
    <3>2. CASE hits' = hits + 1 /\ UNCHANGED answers
      BY <2>1, <3>1, <3>2 DEF Answer
    <3>3. CASE /\ answers' = [answers EXCEPT ![q] = [kept |-> TRUE, rows |-> Ranked(q)]]
               /\ UNCHANGED hits
      BY <2>1, <2>2, <3>1, <3>3 DEF Answer
    <3> QED
      BY <2>4, <3>2, <3>3 DEF Discover
  <2> QED
    BY <2>3, <2>4
<1>5. OffersStand' /\ ServingStands'
  BY <1>1, <1>4 DEF DiscoveryIInv, OffersStand, ServingStands, Present
<1> QED
  BY <1>2, <1>5 DEF DiscoveryIInv

LEMMA ArriveStep ==
  ASSUME DiscoveryAssumption, DiscoveryIInv, NEW a \in FoundAgents, NEW t \in Terms, Arrive(a, t)
  PROVE  DiscoveryIInv'
<1>1. /\ offered' = [offered EXCEPT ![a] = t] /\ ~Present(a)
      /\ shelf' = Append(shelf, a) /\ arrivals' = Append(arrivals, a) /\ Len(arrivals) < MaxArrivals
      /\ UNCHANGED <<icy, walk, answers, queriesSeen, hits, answered>>
  BY DEF Arrive, KeepServed
<1>2. /\ offered \in [FoundAgents -> OfferedRecs] /\ shelf \in Seq(FoundAgents)
      /\ IsInjective(shelf) /\ Range(shelf) = {b \in FoundAgents : Present(b)}
      /\ \A b \in FoundAgents : Present(b) => offered[b].price \in Nat
  BY DEF DiscoveryIInv, ShelfStands
<1>3. t \in [price : Nat, rep : Nat, latency : Nat, avail : Nat]
  BY DEF DiscoveryAssumption
<1>4. t \in OfferedRecs /\ t.price \in Nat /\ t # Absent
  BY <1>3 DEF OfferedRecs, Absent
<1>5. /\ offered'[a] = t /\ \A b \in FoundAgents : b # a => offered'[b] = offered[b]
      /\ offered' \in [FoundAgents -> OfferedRecs]
  BY <1>1, <1>2, <1>4
<1>6. Present(a)' /\ \A b \in FoundAgents : b # a => (Present(b)' <=> Present(b))
  BY <1>4, <1>5 DEF Present
<1>7. PICK s : s = shelf'
  OBVIOUS
<1>8. /\ s \in Seq(FoundAgents) /\ Len(s) = Len(shelf) + 1 /\ s[Len(shelf) + 1] = a
      /\ \A j \in 1 .. Len(shelf) : s[j] = shelf[j]
  BY <1>1, <1>2, <1>7, AppendProperties
<1>9. Len(shelf) \in Nat /\ DOMAIN shelf = 1 .. Len(shelf) /\ DOMAIN s = 1 .. Len(shelf) + 1
  BY <1>2, <1>8, SeqFacts
<1>10. \A j \in 1 .. Len(shelf) + 1 : j \in 1 .. Len(shelf) \/ j = Len(shelf) + 1
  BY <1>9
<1>11. Len(shelf) + 1 \in 1 .. Len(shelf) + 1 /\ \A j \in 1 .. Len(shelf) : j \in 1 .. Len(shelf) + 1
  BY <1>9
<1>12. \A j \in 1 .. Len(shelf) : shelf[j] # a
  BY <1>1, <1>2, <1>9 DEF Range
<1>13. IsInjective(s)
  <2>1. \A j, k \in 1 .. Len(shelf) : shelf[j] = shelf[k] => j = k
    BY <1>2, <1>9 DEF IsInjective
  <2> QED
    BY <1>8, <1>9, <1>10, <1>12, <2>1 DEF IsInjective
<1>14. Range(s) = Range(shelf) \cup {a}
  <2>1. Range(s) = {s[j] : j \in 1 .. Len(shelf) + 1} /\ Range(shelf) = {shelf[j] : j \in 1 .. Len(shelf)}
    BY <1>9 DEF Range
  <2>2. ASSUME NEW y \in Range(s) PROVE y \in Range(shelf) \cup {a}
    <3>1. PICK j \in 1 .. Len(shelf) + 1 : y = s[j]
      BY <2>1, <2>2
    <3> QED
      BY <1>8, <1>10, <2>1, <3>1
  <2>3. ASSUME NEW y \in Range(shelf) \cup {a} PROVE y \in Range(s)
    <3>1. CASE y = a
      BY <1>8, <1>11, <2>1, <3>1
    <3>2. CASE y \in Range(shelf)
      <4>1. PICK j \in 1 .. Len(shelf) : y = shelf[j]
        BY <2>1, <3>2
      <4> QED
        BY <1>8, <1>11, <2>1, <4>1
    <3> QED
      BY <2>3, <3>1, <3>2
  <2> QED
    BY <2>2, <2>3
<1>15. ShelfStands'
  <2>1. Range(s) = {b \in FoundAgents : Present(b)'}
    BY <1>2, <1>6, <1>14
  <2>2. \A b \in FoundAgents : Present(b)' => offered'[b].price \in Nat
    BY <1>2, <1>4, <1>5, <1>6
  <2> QED
    BY <1>5, <1>7, <1>8, <1>13, <2>1, <2>2 DEF ShelfStands
<1>16. /\ arrivals' \in Seq(FoundAgents) /\ Len(arrivals') = Len(arrivals) + 1
       /\ arrivals'[Len(arrivals) + 1] = a /\ \A j \in 1 .. Len(arrivals) : arrivals'[j] = arrivals[j]
       /\ Len(arrivals) \in Nat
  BY <1>1, AppendProperties, SeqFacts DEF DiscoveryIInv, ArrivalsStand
<1>17. ArrivalsStand'
  <2>1. MaxArrivals \in Nat
    BY DEF DiscoveryAssumption
  <2>2. ASSUME NEW b \in FoundAgents, Present(b)'
        PROVE  \E i \in 1 .. Len(arrivals') : arrivals'[i] = b
    <3>1. CASE b = a
      <4>1. Len(arrivals) + 1 \in 1 .. Len(arrivals')
        BY <1>16
      <4> QED
        BY <1>16, <3>1, <4>1
    <3>2. CASE b # a
      <4>1. PICK i \in 1 .. Len(arrivals) : arrivals[i] = b
        BY <1>6, <2>2, <3>2 DEF DiscoveryIInv, ArrivalsStand
      <4> QED
        BY <1>16, <4>1
    <3> QED
      BY <3>1, <3>2
  <2> QED
    BY <1>1, <1>16, <2>1, <2>2 DEF ArrivalsStand
<1>18. WalkStands'
  <2>1. WalkStands
    BY DEF DiscoveryIInv
  <2>2. walk.next \in Nat /\ walk.next <= Len(arrivals')
    BY <1>16, <2>1 DEF WalkStands
  <2>3. ASSUME walk.state = "reading", NEW b \in walk.stayed
        PROVE  /\ Present(b)'
               /\ b \in walk.got \/ \E i \in walk.next + 1 .. Len(arrivals') : arrivals'[i] = b
    <3>1. b \in FoundAgents /\ Present(b)
      BY <2>1, <2>3 DEF WalkStands
    <3>2. CASE b \in walk.got
      BY <1>6, <3>1, <3>2
    <3>3. CASE b \notin walk.got
      <4>1. PICK i \in walk.next + 1 .. Len(arrivals) : arrivals[i] = b
        BY <2>1, <2>3, <3>3 DEF WalkStands
      <4>2. i \in 1 .. Len(arrivals) /\ i \in walk.next + 1 .. Len(arrivals')
        BY <1>16, <2>2
      <4> QED
        BY <1>6, <1>16, <3>1, <4>1, <4>2
    <3> QED
      BY <3>2, <3>3
  <2> QED
    BY <1>1, <2>1, <2>2, <2>3 DEF WalkStands
<1>19. OffersStand' /\ ServingStands'
  <2>1. t = [t EXCEPT !.price = t.price]
    BY <1>3
  <2>2. Offer(t)
    BY <2>1 DEF Offer
  <2>3. ASSUME NEW b \in FoundAgents, Present(b)' PROVE Offer(offered'[b])
    <3>1. CASE b = a
      BY <1>5, <2>2, <3>1
    <3>2. CASE b # a
      BY <1>5, <1>6, <2>3, <3>2 DEF DiscoveryIInv, OffersStand
    <3> QED
      BY <3>1, <3>2
  <2> QED
    BY <1>1, <2>3 DEF DiscoveryIInv, OffersStand, ServingStands
<1> QED
  BY <1>15, <1>17, <1>18, <1>19 DEF DiscoveryIInv

LEMMA DepartStep ==
  ASSUME DiscoveryAssumption, DiscoveryIInv, NEW a \in FoundAgents, Depart(a)
  PROVE  DiscoveryIInv'
<1>1. /\ offered' = [offered EXCEPT ![a] = Absent] /\ shelf' = Among(shelf, FoundAgents \ {a})
      /\ walk' = [walk EXCEPT !.stayed = @ \ {a}]
      /\ UNCHANGED <<arrivals, icy, answers, queriesSeen, hits, answered>>
  BY DEF Depart, KeepServed
<1>2. /\ offered \in [FoundAgents -> OfferedRecs] /\ shelf \in Seq(FoundAgents)
      /\ IsInjective(shelf) /\ Range(shelf) = {b \in FoundAgents : Present(b)}
      /\ \A b \in FoundAgents : Present(b) => offered[b].price \in Nat
  BY DEF DiscoveryIInv, ShelfStands
<1>3. Absent \in OfferedRecs
  BY DEF Absent, OfferedRecs
<1>4. /\ offered'[a] = Absent /\ \A b \in FoundAgents : b # a => offered'[b] = offered[b]
      /\ offered' \in [FoundAgents -> OfferedRecs]
  BY <1>1, <1>2, <1>3
<1>5. ~Present(a)' /\ \A b \in FoundAgents : b # a => (Present(b)' <=> Present(b))
  BY <1>4 DEF Present
<1>6. /\ shelf' \in Seq(FoundAgents) /\ IsInjective(shelf')
      /\ Range(shelf') = Range(shelf) \cap (FoundAgents \ {a})
  BY <1>1, <1>2, AmongFacts
<1>7. ShelfStands'
  <2>1. Range(shelf') = {b \in FoundAgents : Present(b)'}
    BY <1>2, <1>5, <1>6
  <2>2. \A b \in FoundAgents : Present(b)' => offered'[b].price \in Nat
    BY <1>2, <1>4, <1>5
  <2> QED
    BY <1>4, <1>6, <2>1, <2>2 DEF ShelfStands
<1>8. ArrivalsStand'
  BY <1>1, <1>5 DEF DiscoveryIInv, ArrivalsStand
<1>9. WalkStands'
  <2>1. WalkStands
    BY DEF DiscoveryIInv
  <2>2. /\ walk'.next = walk.next /\ walk'.got = walk.got /\ walk'.state = walk.state
        /\ walk'.stayed = walk.stayed \ {a}
        /\ walk' \in [next : Nat, got : SUBSET FoundAgents, stayed : SUBSET FoundAgents,
                     state : {"none", "reading", "done"}]
    BY <1>1, <2>1 DEF WalkStands
  <2>3. ASSUME walk'.state = "reading", NEW b \in walk'.stayed
        PROVE  /\ Present(b)'
               /\ b \in walk.got \/ \E i \in walk.next + 1 .. Len(arrivals) : arrivals[i] = b
    <3>1. b \in walk.stayed /\ b # a /\ b \in FoundAgents
      BY <2>1, <2>2, <2>3 DEF WalkStands
    <3> QED
      BY <1>5, <2>1, <2>2, <2>3, <3>1 DEF WalkStands
  <2>4. walk'.state = "done" => walk'.stayed \subseteq walk'.got
    BY <2>1, <2>2 DEF WalkStands
  <2>5. walk'.next <= Len(arrivals')
    BY <1>1, <2>1, <2>2 DEF WalkStands
  <2> QED
    BY <1>1, <2>2, <2>3, <2>4, <2>5 DEF WalkStands
<1>10. OffersStand' /\ ServingStands'
  <2>1. ASSUME NEW b \in FoundAgents, Present(b)' PROVE Offer(offered'[b])
    BY <1>4, <1>5, <2>1 DEF DiscoveryIInv, OffersStand
  <2> QED
    BY <1>1, <2>1 DEF DiscoveryIInv, OffersStand, ServingStands
<1> QED
  BY <1>7, <1>8, <1>9, <1>10 DEF DiscoveryIInv

LEMMA UpdatePricingStep ==
  ASSUME DiscoveryAssumption, DiscoveryIInv, NEW a \in FoundAgents, NEW t \in Terms,
         UpdatePricing(a, t)
  PROVE  DiscoveryIInv'
<1>1. /\ Present(a) /\ offered' = [offered EXCEPT ![a].price = t.price]
      /\ UNCHANGED <<shelf, arrivals, icy, walk, answers, queriesSeen, hits, answered>>
  BY DEF UpdatePricing, KeepServed
<1>2. /\ offered \in [FoundAgents -> OfferedRecs] /\ t.price \in Nat
      /\ \A b \in FoundAgents : Present(b) => offered[b].price \in Nat
  BY DEF DiscoveryIInv, ShelfStands, DiscoveryAssumption
<1>3. PICK r : r = offered'[a]
  OBVIOUS
<1>4. /\ r = [offered[a] EXCEPT !.price = t.price]
      /\ \A b \in FoundAgents : b # a => offered'[b] = offered[b]
  BY <1>1, <1>2, <1>3
<1>5. r \in OfferedRecs /\ r.price = t.price
  BY <1>2, <1>4 DEF OfferedRecs
<1>6. r # Absent
  <2>1. Absent.price = -1
    BY DEF Absent
  <2> QED
    BY <1>2, <1>5, <2>1
<1>7. \A b \in FoundAgents : Present(b)' <=> Present(b)
  BY <1>1, <1>3, <1>4, <1>6 DEF Present
<1>8. ShelfStands'
  <2>1. offered' \in [FoundAgents -> OfferedRecs]
    BY <1>1, <1>2, <1>3, <1>4, <1>5
  <2>2. \A b \in FoundAgents : Present(b)' => offered'[b].price \in Nat
    BY <1>2, <1>3, <1>4, <1>5, <1>7
  <2> QED
    BY <1>1, <1>7, <2>1, <2>2 DEF DiscoveryIInv, ShelfStands
<1>9. ArrivalsStand'
  BY <1>1, <1>7 DEF DiscoveryIInv, ArrivalsStand
<1>10. WalkStands'
  <2>1. walk.stayed \subseteq FoundAgents
    BY DEF DiscoveryIInv, WalkStands
  <2> QED
    BY <1>1, <1>7, <2>1 DEF DiscoveryIInv, WalkStands
<1>11. OffersStand' /\ ServingStands'
  <2>1. ASSUME NEW b \in FoundAgents, Present(b)' PROVE Offer(offered'[b])
    <3>1. Offer(offered[b])
      BY <1>7, <2>1 DEF DiscoveryIInv, OffersStand
    <3>2. CASE b = a
      <4>1. PICK v, u \in Terms : offered[b] = [v EXCEPT !.price = u.price]
        BY <3>1 DEF Offer
      <4>2. v \in [price : Nat, rep : Nat, latency : Nat, avail : Nat]
        BY DEF DiscoveryAssumption
      <4>3. r = [v EXCEPT !.price = t.price]
        BY <1>4, <3>2, <4>1, <4>2
      <4> QED
        BY <1>3, <3>2, <4>3 DEF Offer
    <3>3. CASE b # a
      BY <1>4, <3>1, <3>3
    <3> QED
      BY <3>2, <3>3
  <2> QED
    BY <1>1, <2>1 DEF DiscoveryIInv, OffersStand, ServingStands
<1> QED
  BY <1>8, <1>9, <1>10, <1>11 DEF DiscoveryIInv

LEMMA FreezeStep ==
  ASSUME DiscoveryAssumption, DiscoveryIInv, NEW a \in FoundAgents, Freeze(a)
  PROVE  DiscoveryIInv'
<1>1. /\ icy' \subseteq icy \cup {a}
      /\ UNCHANGED <<offered, shelf, arrivals, walk, answers, queriesSeen, hits, answered>>
  BY DEF Freeze, KeepServed
<1>2. OffersStand' /\ ServingStands'
  BY <1>1 DEF DiscoveryIInv, OffersStand, ServingStands, Present
<1> QED
  BY <1>1, <1>2 DEF DiscoveryIInv, ShelfStands, ArrivalsStand, WalkStands, Present

LEMMA PageEndFacts ==
  ASSUME NEW from \in Nat, Len(arrivals) \in Nat, from <= Len(arrivals)
  PROVE  PageEnd(from) \in from .. Len(arrivals)
<1> DEFINE full == {n \in from .. Len(arrivals) : Filled(from, n) = PageLimit}
<1>1. PageEnd(from) = IF full = {} THEN Len(arrivals) ELSE Min(full)
  BY DEF PageEnd
<1>2. full \subseteq from .. Len(arrivals) /\ full \subseteq Nat
  OBVIOUS
<1> HIDE DEF full
<1>3. CASE full = {}
  BY <1>1, <1>3
<1>4. CASE full # {}
  <2>1. \E i \in full : \A j \in full : i <= j
    BY <1>2, <1>4, LeastExists
  <2>2. Min(full) \in full
    BY <2>1 DEF Min
  <2> QED
    BY <1>1, <1>2, <1>4, <2>2
<1> QED
  BY <1>3, <1>4

LEMMA WalkStep ==
  ASSUME DiscoveryAssumption, DiscoveryIInv, StartWalk \/ GetAgents
  PROVE  DiscoveryIInv'
<1>1. UNCHANGED <<offered, shelf, arrivals, icy, answers, queriesSeen, hits, answered>>
  BY DEF StartWalk, GetAgents, KeepServed
<1>2. ShelfStands' /\ ArrivalsStand'
  BY <1>1 DEF DiscoveryIInv, ShelfStands, ArrivalsStand, Present
<1>3. /\ Len(arrivals) \in Nat /\ Len(arrivals) <= MaxArrivals /\ MaxArrivals \in Nat
      /\ \A i \in 1 .. Len(arrivals) : arrivals[i] \in FoundAgents
  BY SeqFacts DEF DiscoveryIInv, ArrivalsStand, DiscoveryAssumption
<1>4. WalkStands'
  <2>1. CASE StartWalk
    <3> DEFINE w == [next |-> 0, got |-> {}, stayed |-> {a \in FoundAgents : Present(a)},
                     state |-> "reading"]
    <3>1. walk' = w
      BY <2>1 DEF StartWalk
    <3>2. \A a \in FoundAgents : Present(a) => \E i \in 0 + 1 .. Len(arrivals) : arrivals[i] = a
      BY DEF DiscoveryIInv, ArrivalsStand
    <3>3. \A a \in FoundAgents : Present(a)' <=> Present(a)
      BY <1>1 DEF Present
    <3> QED
      BY <1>1, <1>3, <3>1, <3>2, <3>3 DEF WalkStands
  <2>2. CASE GetAgents
    <3> DEFINE end == PageEnd(walk.next)
               rows == {arrivals[i] : i \in {j \in walk.next + 1 .. end : Present(arrivals[j])}}
               state == IF end < Len(arrivals) THEN "reading" ELSE "done"
    <3>1. /\ walk' = [walk EXCEPT !.next = end, !.got = @ \cup rows, !.state = state]
          /\ walk.state = "reading"
      BY <2>2 DEF GetAgents, NextCursor
    <3>2. WalkStands
      BY DEF DiscoveryIInv
    <3>3. walk.next \in Nat /\ end \in walk.next .. Len(arrivals)
      BY <1>3, <3>2, PageEndFacts DEF WalkStands
    <3>4. rows \subseteq FoundAgents
      BY <1>3, <3>3
    <3>5. \A i \in walk.next + 1 .. end : Present(arrivals[i]) => arrivals[i] \in rows
      OBVIOUS
    <3> HIDE DEF end, rows
    <3>10. state \in {"none", "reading", "done"}
      OBVIOUS
    <3> HIDE DEF state
    <3>6. /\ walk'.next = end /\ walk'.got = walk.got \cup rows /\ walk'.stayed = walk.stayed
          /\ walk'.state = state
          /\ walk' \in [next : Nat, got : SUBSET FoundAgents, stayed : SUBSET FoundAgents,
                       state : {"none", "reading", "done"}]
      <4>1. end \in Nat
        BY <3>3
      <4>2. walk \in [next : Nat, got : SUBSET FoundAgents, stayed : SUBSET FoundAgents,
                     state : {"none", "reading", "done"}]
        BY <3>2 DEF WalkStands
      <4> QED
        BY <3>1, <3>4, <3>10, <4>1, <4>2
    <3>7. ASSUME NEW b \in walk.stayed
          PROVE  /\ Present(b)'
                 /\ b \in walk'.got \/ \E i \in end + 1 .. Len(arrivals) : arrivals[i] = b
      <4>1. Present(b) /\ Present(b)'
        BY <1>1, <3>1, <3>2 DEF WalkStands, Present
      <4>2. CASE b \in walk.got
        BY <3>6, <4>1, <4>2
      <4>3. CASE b \notin walk.got
        <5>1. PICK i \in walk.next + 1 .. Len(arrivals) : arrivals[i] = b
          BY <3>1, <3>2, <4>3 DEF WalkStands
        <5>2. CASE i <= end
          <6>1. i \in walk.next + 1 .. end
            BY <3>3, <5>2
          <6> QED
            BY <3>5, <3>6, <4>1, <5>1, <6>1
        <5>3. CASE ~(i <= end)
          <6>1. i \in end + 1 .. Len(arrivals)
            BY <1>3, <3>3, <5>3
          <6> QED
            BY <4>1, <5>1, <6>1
        <5> QED
          BY <5>2, <5>3
      <4> QED
        BY <4>2, <4>3
    <3>8. ASSUME walk'.state = "done" PROVE walk'.stayed \subseteq walk'.got
      <4>1. end = Len(arrivals)
        BY <1>3, <3>3, <3>6, <3>8 DEF state
      <4>2. \A i \in end + 1 .. Len(arrivals) : FALSE
        BY <1>3, <4>1
      <4> QED
        BY <3>6, <3>7, <4>2
    <3>9. walk'.next <= Len(arrivals')
      BY <1>1, <1>3, <3>3, <3>6
    <3> QED
      BY <1>1, <3>6, <3>7, <3>8, <3>9 DEF WalkStands
  <2> QED
    BY <2>1, <2>2
<1>5. OffersStand' /\ ServingStands'
  BY <1>1 DEF DiscoveryIInv, OffersStand, ServingStands, Present
<1> QED
  BY <1>2, <1>4, <1>5 DEF DiscoveryIInv

LEMMA DiscoveryStep ==
  ASSUME DiscoveryAssumption, DiscoveryIInv, [DiscoveryNext]_discoveryVars
  PROVE  DiscoveryIInv'
<1>1. CASE UNCHANGED discoveryVars
  <2>1. UNCHANGED <<offered, shelf, arrivals, icy, answers, queriesSeen, hits, walk>>
    BY <1>1 DEF discoveryVars
  <2>2. OffersStand' /\ ServingStands'
    BY <2>1 DEF DiscoveryIInv, OffersStand, ServingStands, Present
  <2> QED
    BY <2>1, <2>2 DEF DiscoveryIInv, ShelfStands, ArrivalsStand, WalkStands, Present
<1>2. CASE DiscoveryNext
  BY <1>2, ServingStep, ArriveStep, DepartStep, UpdatePricingStep, FreezeStep, WalkStep
     DEF DiscoveryNext
<1> QED
  BY <1>1, <1>2

\* Registrations may come, go and come back between two pages of get_agents: typed states,
\* in which a walk that followed the cursors to the end has met whoever stayed.
THEOREM DiscoveryHolds == DiscoverySpec => []DiscoveryInv
<1>1. DiscoveryInit => DiscoveryIInv
  BY DiscoveryAssumption, DiscoveryStart
<1>2. DiscoveryIInv /\ [DiscoveryNext]_discoveryVars => DiscoveryIInv'
  BY DiscoveryAssumption, DiscoveryStep
<1>3. DiscoveryIInv => DiscoveryInv
  <2> SUFFICES ASSUME DiscoveryIInv PROVE DiscoveryInv
    OBVIOUS
  <2>1. \A a \in FoundAgents : Present(a) => \E t, u \in Terms : offered[a] = [t EXCEPT !.price = u.price]
    <3>1. \A x : Offer(x) => \E t, u \in Terms : x = [t EXCEPT !.price = u.price]
      BY Zenon DEF Offer
    <3> QED
      BY <3>1, Zenon DEF DiscoveryIInv, OffersStand
  <2>2. /\ walk.next \in 0 .. MaxArrivals /\ walk.stayed \subseteq FoundAgents
        /\ walk.got \subseteq FoundAgents /\ walk.state \in {"none", "reading", "done"}
    <3>1. MaxArrivals \in Nat /\ Len(arrivals) \in Nat
      BY DiscoveryAssumption, SeqFacts DEF DiscoveryAssumption, DiscoveryIInv, ArrivalsStand
    <3> QED
      BY <3>1 DEF DiscoveryIInv, ArrivalsStand, WalkStands
  <2>3. /\ shelf \in Seq(FoundAgents) /\ arrivals \in Seq(FoundAgents) /\ icy \subseteq FoundAgents
        /\ answers \in [Queries -> [kept : BOOLEAN, rows : Seq(FoundAgents)]]
        /\ queriesSeen \in 0 .. MaxServed /\ hits \in 0 .. queriesSeen
    BY DEF DiscoveryIInv, ServingStands, ShelfStands, ArrivalsStand
  <2>4. DiscoveryTypeOK
    BY <2>1, <2>2, <2>3, Zenon DEF DiscoveryTypeOK
  <2> QED
    BY <2>4 DEF DiscoveryIInv, DiscoveryInv, WalkStands, WalkMissesNobody
<1> QED
  BY <1>1, <1>2, <1>3, PTL DEF DiscoverySpec

\* What discover_agents computes anew is every agent that passes its filters, once, and its
\* selection sort in place leaves no score below a later one.
THEOREM AnswersAreRanked == DiscoverySpec => FreshAnswersAreRanked
<1>1. DiscoveryInit => DiscoveryIInv
  BY DiscoveryAssumption, DiscoveryStart
<1>2. DiscoveryIInv /\ [DiscoveryNext]_discoveryVars => DiscoveryIInv'
  BY DiscoveryAssumption, DiscoveryStep
<1> DEFINE Good == \A q \in Queries : Discover(q) /\ answered'.fresh =>
             LET rows == answered'.rows IN
             /\ Range(rows) = {a \in FoundAgents : Suits(a, q)} /\ Len(rows) = Cardinality(Range(rows))
             /\ \A i, j \in DOMAIN rows : i < j => Composite(rows[i], q) >= Composite(rows[j], q)
<1>3. DiscoveryIInv => Good
  <2> SUFFICES ASSUME DiscoveryIInv, NEW q \in Queries, Discover(q), answered'.fresh
               PROVE  LET rows == answered'.rows IN
                      /\ Range(rows) = {a \in FoundAgents : Suits(a, q)}
                      /\ Len(rows) = Cardinality(Range(rows))
                      /\ \A i, j \in DOMAIN rows : i < j => Composite(rows[i], q) >= Composite(rows[j], q)
    OBVIOUS
  <2> DEFINE r == Ranked(q)
  <2>1. answered'.rows = r
    BY DEF Discover
  <2>2. ShelfStands
    BY DEF DiscoveryIInv
  <2>3. RowsOfAnswer(r, q) /\ InPlace(r, q, Len(r))
    BY <2>2, DiscoveryAssumption, RankedFacts
  <2> HIDE DEF r
  <2>4. r \in Seq(FoundAgents) /\ IsInjective(r) /\ Range(r) = {a \in FoundAgents : Suits(a, q)}
    BY <2>2, <2>3, CandidatesFacts DEF RowsOfAnswer
  <2>5. Len(r) = Cardinality(Range(r))
    BY <2>4, InjectiveCounts
  <2>6. Len(r) \in Nat /\ DOMAIN r = 1 .. Len(r)
    BY <2>4, SeqFacts
  <2>7. ASSUME NEW i \in DOMAIN r, NEW j \in DOMAIN r, i < j
        PROVE  Composite(r[i], q) >= Composite(r[j], q)
    <3>1. i \in 1 .. Len(r) /\ j \in i + 1 .. Len(r)
      BY <2>6, <2>7
    <3> QED
      BY <2>3, <3>1 DEF InPlace
  <2> QED
    BY <2>1, <2>4, <2>5, <2>7
<1>4. DiscoveryIInv /\ [DiscoveryNext]_discoveryVars => [Good]_discoveryVars
  BY <1>3
<1> QED
  BY <1>1, <1>2, <1>4, PTL DEF DiscoverySpec, FreshAnswersAreRanked

-----------------------------------------------------------------------------
-----------------------------------------------------------------------------
(***************************************************************************)
(* The audit trail: what a page lists, and what a reader has still to read *)
(***************************************************************************)
Descending(r) == \A i \in DOMAIN r : \A j \in DOMAIN r : i < j => r[i] > r[j]

\* r lists what is held from floor up to below, newest first.
NewestFirst(r, floor, below) ==
  /\ r \in Seq(Nat) /\ Descending(r)
  /\ Range(r) = {s \in floor .. below - 1 : Held(s)}

LEMMA OneMoreRead ==
  ASSUME NEW floor \in Nat, NEW below \in Nat, floor < below, NEW r, NewestFirst(r, floor + 1, below)
  PROVE  NewestFirst(IF Held(floor) THEN Append(r, floor) ELSE r, floor, below)
<1> DEFINE n == Len(r)
           d == Append(r, floor)
<1>1. r \in Seq(Nat) /\ n \in Nat /\ DOMAIN r = 1 .. n /\ \A i \in 1 .. n : r[i] \in Nat
  BY SeqFacts DEF NewestFirst
<1>2. \A i \in 1 .. n : r[i] > floor
  <2> SUFFICES ASSUME NEW i \in 1 .. n PROVE r[i] > floor
    OBVIOUS
  <2>1. r[i] \in Range(r)
    BY <1>1 DEF Range
  <2>2. r[i] \in floor + 1 .. below - 1
    BY <2>1 DEF NewestFirst
  <2> QED
    BY <2>2
<1>3. /\ d \in Seq(Nat) /\ Len(d) = n + 1 /\ d[n + 1] = floor
      /\ \A i \in 1 .. n : d[i] = r[i]
  BY <1>1, AppendProperties
<1>4. DOMAIN d = 1 .. n + 1
  BY <1>3, LenProperties
<1> HIDE DEF n, d
<1>5. CASE Held(floor)
  <2>1. Descending(d)
    <3> SUFFICES ASSUME NEW i \in 1 .. n + 1, NEW j \in 1 .. n + 1, i < j PROVE d[i] > d[j]
      BY <1>4 DEF Descending
    <3>1. i \in 1 .. n /\ d[i] = r[i]
      BY <1>1, <1>3
    <3>2. CASE j = n + 1
      BY <1>2, <1>3, <3>1, <3>2
    <3>3. CASE j # n + 1
      <4>1. j \in 1 .. n /\ d[j] = r[j]
        BY <1>1, <1>3, <3>3
      <4> QED
        BY <1>1, <3>1, <4>1 DEF NewestFirst, Descending
    <3> QED
      BY <3>2, <3>3
  <2>2. Range(d) = Range(r) \cup {floor}
    <3>1. \A i \in 1 .. n : i \in 1 .. n + 1
      BY <1>1
    <3>2. n + 1 \in 1 .. n + 1 /\ \A i \in 1 .. n + 1 : i \in 1 .. n \/ i = n + 1
      BY <1>1
    <3> QED
      BY <1>1, <1>3, <1>4, <3>1, <3>2 DEF Range
  <2>3. {s \in floor .. below - 1 : Held(s)} = {s \in floor + 1 .. below - 1 : Held(s)} \cup {floor}
    BY <1>5
  <2>4. Range(d) = {s \in floor .. below - 1 : Held(s)}
    BY <2>2, <2>3 DEF NewestFirst
  <2> QED
    BY <1>3, <1>5, <2>1, <2>4 DEF NewestFirst, d
<1>6. CASE ~Held(floor)
  <2>1. \A s \in floor .. below - 1 : s \in floor + 1 .. below - 1 \/ s = floor
    OBVIOUS
  <2>2. \A s \in floor + 1 .. below - 1 : s \in floor .. below - 1
    OBVIOUS
  <2>3. {s \in floor .. below - 1 : Held(s)} = {s \in floor + 1 .. below - 1 : Held(s)}
    BY <1>6, <2>1, <2>2
  <2> QED
    BY <1>6, <2>3 DEF NewestFirst
<1> QED
  BY <1>5, <1>6

LEMMA PageFacts ==
  ASSUME NEW below \in Nat, NEW floor \in 0 .. below
  PROVE  NewestFirst(PageRows(floor, below), floor, below)
<1> DEFINE n == below - floor
           X == Seq(Nat)
           step == [i \in 1 .. n |-> [r \in X |-> IF Held(below - i) THEN Append(r, below - i) ELSE r]]
           start == <<>>
<1>1. n \in Nat /\ start \in X
  BY EmptySeq
<1>2. \A i \in 1 .. n : below - i \in Nat
  OBVIOUS
<1>3. \A i \in 1 .. n : \A x \in X : step[i][x] = IF Held(below - i) THEN Append(x, below - i) ELSE x
  OBVIOUS
<1>4. \A i \in 1 .. n : \A x \in X : step[i][x] \in X
  BY <1>2, AppendProperties
<1> HIDE DEF n, X, step, start
<1>5. PICK it : Rounds(it, start, n, step) /\ StaysIn(it, n, X)
  BY <1>1, <1>4, LoopExists
<1> DEFINE rows == CHOOSE w : w = [i \in 0 .. n |->
                     IF i = 0 THEN <<>> ELSE IF Held(below - i) THEN Append(w[i - 1], below - i) ELSE w[i - 1]]
<1>6. rows = [i \in 0 .. n |->
               IF i = 0 THEN <<>> ELSE IF Held(below - i) THEN Append(rows[i - 1], below - i) ELSE rows[i - 1]]
  <2> DEFINE same == [i \in 0 .. n |->
               IF i = 0 THEN <<>> ELSE IF Held(below - i) THEN Append(it[i - 1], below - i) ELSE it[i - 1]]
  <2>1. \A i \in 0 .. n : it[i] = same[i]
    <3> SUFFICES ASSUME NEW i \in 0 .. n PROVE it[i] = same[i]
      OBVIOUS
    <3>1. it[i] = IF i = 0 THEN <<>> ELSE step[i][it[i - 1]]
      BY <1>5 DEF Rounds, start
    <3>2. CASE i = 0
      BY <3>1, <3>2
    <3>3. CASE i # 0
      <4>1. i \in 1 .. n /\ i - 1 \in 0 .. n
        BY <1>1, <3>3
      <4>2. it[i - 1] \in X
        BY <1>5, <4>1 DEF StaysIn
      <4> QED
        BY <1>3, <3>1, <3>3, <4>1, <4>2
    <3> QED
      BY <3>2, <3>3
  <2>2. it = same
    BY <1>5, <2>1 DEF Rounds
  <2>3. \E w : w = [i \in 0 .. n |->
                     IF i = 0 THEN <<>> ELSE IF Held(below - i) THEN Append(w[i - 1], below - i) ELSE w[i - 1]]
    BY <2>2
  <2> QED
    BY <2>3
<1>7. PageRows(floor, below) = rows[n]
  BY DEF PageRows, n
<1> HIDE DEF rows
<1>8. /\ rows[0] = <<>>
      /\ \A i \in 1 .. n : rows[i] = IF Held(below - i) THEN Append(rows[i - 1], below - i) ELSE rows[i - 1]
  <2>1. 0 \in 0 .. n /\ \A i \in 1 .. n : i \in 0 .. n /\ i # 0
    BY <1>1
  <2> QED
    BY <1>6, <2>1
<1> DEFINE G == {i \in Nat : i <= n => NewestFirst(rows[i], below - i, below)}
<1>9. 0 \in G
  <2>1. Range(<<>>) = {} /\ Descending(<<>>) /\ <<>> \in Seq(Nat)
    BY EmptySeq DEF Range, Descending
  <2>2. {s \in below - 0 .. below - 1 : Held(s)} = {}
    OBVIOUS
  <2> QED
    BY <1>1, <1>8, <2>1, <2>2 DEF NewestFirst
<1>10. ASSUME NEW i \in Nat, i \in G PROVE i + 1 \in G
  <2> SUFFICES ASSUME i + 1 <= n PROVE NewestFirst(rows[i + 1], below - (i + 1), below)
    OBVIOUS
  <2>1. i + 1 \in 1 .. n /\ (i + 1) - 1 = i /\ below - (i + 1) \in Nat /\ below - (i + 1) < below
        /\ (below - (i + 1)) + 1 = below - i
    BY <1>1, <1>2
  <2>2. NewestFirst(rows[i], (below - (i + 1)) + 1, below)
    BY <1>1, <1>10, <2>1
  <2>3. rows[i + 1] = IF Held(below - (i + 1)) THEN Append(rows[i], below - (i + 1)) ELSE rows[i]
    BY <1>8, <2>1
  <2> HIDE DEF G
  <2> QED
    BY <2>1, <2>2, <2>3, OneMoreRead
<1> HIDE DEF G
<1>11. n \in G
  BY <1>1, <1>9, <1>10, NatSetInduction
<1>12. NewestFirst(rows[n], below - n, below)
  BY <1>1, <1>11 DEF G
<1>13. below - n = floor
  BY DEF n
<1> QED
  BY <1>7, <1>12, <1>13

\* A page ends above where it began.
LEMMA PageFloorFacts ==
  ASSUME NEW below \in Nat \ {0}
  PROVE  PageFloor(below) \in 0 .. below - 1
<1> DEFINE full == {s \in 0 .. below - 1 : Cardinality({t \in s .. below - 1 : Held(t)}) = AuditPageSize}
<1>1. PageFloor(below) = IF full = {} THEN 0 ELSE Max(full)
  BY DEF PageFloor
<1>2. full \subseteq 0 .. below - 1 /\ full \subseteq Int
  OBVIOUS
<1> HIDE DEF full
<1>3. IsFiniteSet(full)
  <2>1. IsFiniteSet(0 .. below - 1)
    BY FS_Interval
  <2> QED
    BY <1>2, <2>1, FS_Subset
<1>4. CASE full = {}
  BY <1>1, <1>4
<1>5. CASE full # {}
  <2>1. Max(full) \in full
    BY <1>2, <1>3, <1>5, FiniteGreatest
  <2> QED
    BY <1>1, <1>2, <1>5, <2>1
<1> QED
  BY <1>4, <1>5

\* What is read together with the next page is still read newest first.
LEMMA ReadOn ==
  ASSUME NEW got \in Seq(Nat), Descending(got), NEW below \in Nat, NEW floor \in Nat,
         \A s \in Range(got) : s >= below,
         NEW r, NewestFirst(r, floor, below)
  PROVE  /\ got \o r \in Seq(Nat) /\ Descending(got \o r)
         /\ Range(got \o r) = Range(got) \cup Range(r)
<1> DEFINE n == Len(got)
           k == Len(r)
           d == got \o r
<1>1. n \in Nat /\ DOMAIN got = 1 .. n /\ \A i \in 1 .. n : got[i] \in Nat
  BY SeqFacts
<1>2. r \in Seq(Nat) /\ k \in Nat /\ DOMAIN r = 1 .. k /\ \A i \in 1 .. k : r[i] \in Nat
  BY SeqFacts DEF NewestFirst
<1>3. /\ d \in Seq(Nat) /\ Len(d) = n + k
      /\ \A i \in 1 .. n + k : d[i] = IF i <= n THEN got[i] ELSE r[i - n]
  BY <1>2, ConcatProperties
<1>4. DOMAIN d = 1 .. n + k
  BY <1>3, LenProperties
<1>5. \A i \in 1 .. n : got[i] >= below
  BY <1>1 DEF Range
<1>6. \A i \in 1 .. k : r[i] < below
  <2> SUFFICES ASSUME NEW i \in 1 .. k PROVE r[i] < below
    OBVIOUS
  <2>1. r[i] \in Range(r)
    BY <1>2 DEF Range
  <2>2. r[i] \in floor .. below - 1
    BY <2>1 DEF NewestFirst
  <2> QED
    BY <2>2
<1> HIDE DEF n, k, d
<1>7. Descending(d)
  <2> SUFFICES ASSUME NEW i \in 1 .. n + k, NEW j \in 1 .. n + k, i < j PROVE d[i] > d[j]
    BY <1>4 DEF Descending
  <2>1. CASE j <= n
    <3>1. i \in 1 .. n /\ j \in 1 .. n
      BY <1>1, <1>2, <2>1
    <3>2. got[i] > got[j]
      BY <1>1, <3>1 DEF Descending
    <3>3. i <= n /\ d[i] = got[i] /\ d[j] = got[j]
      BY <1>1, <1>2, <1>3, <2>1, <3>1
    <3> QED
      BY <3>2, <3>3
  <2>2. CASE i <= n /\ j > n
    <3>1. i \in 1 .. n /\ j - n \in 1 .. k
      BY <1>1, <1>2, <2>2
    <3> QED
      BY <1>1, <1>2, <1>3, <1>5, <1>6, <2>2, <3>1
  <2>3. CASE i > n
    <3>1. i - n \in 1 .. k /\ j - n \in 1 .. k /\ i - n < j - n
      BY <1>1, <1>2, <2>3
    <3>2. r[i - n] > r[j - n]
      BY <1>2, <3>1 DEF NewestFirst, Descending
    <3>3. ~(i <= n) /\ ~(j <= n)
      BY <1>1, <1>2, <2>3
    <3> QED
      BY <1>3, <3>2, <3>3
  <2> QED
    BY <1>1, <2>1, <2>2, <2>3
<1>8. Range(d) = Range(got) \cup Range(r)
  <2>1. ASSUME NEW i \in 1 .. n + k PROVE d[i] \in Range(got) \cup Range(r)
    <3>1. CASE i <= n
      <4>1. i \in 1 .. n /\ d[i] = got[i]
        BY <1>1, <1>3, <3>1
      <4> QED
        BY <1>1, <4>1 DEF Range
    <3>2. CASE ~(i <= n)
      <4>1. i - n \in 1 .. k /\ d[i] = r[i - n]
        BY <1>1, <1>2, <1>3, <3>2
      <4> QED
        BY <1>2, <4>1 DEF Range
    <3> QED
      BY <3>1, <3>2
  <2>2. ASSUME NEW i \in 1 .. n PROVE got[i] \in Range(d)
    <3>1. i \in 1 .. n + k /\ i <= n
      BY <1>1, <1>2
    <3> QED
      BY <1>3, <1>4, <3>1 DEF Range
  <2>3. ASSUME NEW i \in 1 .. k PROVE r[i] \in Range(d)
    <3>1. n + i \in 1 .. n + k /\ ~(n + i <= n) /\ (n + i) - n = i
      BY <1>1, <1>2
    <3>2. d[n + i] = r[i]
      BY <1>3, <3>1
    <3> QED
      BY <1>4, <3>1, <3>2 DEF Range
  <2>4. Range(d) \subseteq Range(got) \cup Range(r)
    BY <1>4, <2>1 DEF Range
  <2>5. Range(got) \subseteq Range(d) /\ Range(r) \subseteq Range(d)
    BY <1>1, <1>2, <2>2, <2>3 DEF Range
  <2> QED
    BY <2>4, <2>5
<1> QED
  BY <1>3, <1>7, <1>8 DEF d

AuditEntries == [caller : Callers \cup {NoCaller}, amount : Nat, at : Nat, until : Nat]
ToRead(s) == s < auditor.below \/ s \in Range(auditor.got)

\* What a reader has is newest first and from below on; what was held when the
\* reader began and still is has been read or is below.
AuditorStands ==
  /\ auditor \in [state : {"none", "reading", "done"}, below : Nat, got : Seq(Nat), kept : SUBSET Nat]
  /\ auditor.below <= Len(trail) /\ Descending(auditor.got)
  /\ \A s \in Range(auditor.got) : s >= auditor.below
  /\ \A s \in auditor.kept : s < Len(trail) /\ Held(s) /\ ToRead(s)
  /\ auditor.state = "reading" => auditor.below # 0
  /\ auditor.state = "done" => auditor.below = 0

AuditIInv == AuditTypeOK /\ errorLife \in Nat /\ AuditorStands

LEMMA TrailFacts ==
  ASSUME AuditTypeOK
  PROVE  /\ Len(trail) \in Nat /\ DOMAIN trail = 1 .. Len(trail) /\ Len(trail) <= MaxEntries
         /\ trail \in Seq(AuditEntries) /\ \A i \in 1 .. Len(trail) : trail[i] \in AuditEntries
<1>1. trail \in Seq(AuditEntries) /\ Len(trail) <= MaxEntries
  BY DEF AuditTypeOK, AuditEntries
<1> QED
  BY <1>1, SeqFacts

LEMMA AuditStart == AuditAssumption /\ AuditInit => AuditIInv
<1> SUFFICES ASSUME AuditAssumption, AuditInit PROVE AuditIInv
  OBVIOUS
<1>1. <<>> \in Seq(AuditEntries) /\ <<>> \in Seq(Nat) /\ Len(<<>>) = 0 /\ DOMAIN <<>> = {}
  BY EmptySeq
<1>2. errorLife \in ErrorLifetimes
  <2>1. ErrorLifetimes \subseteq Int /\ IsFiniteSet(ErrorLifetimes) /\ ErrorLifetimes # {}
    BY DEF AuditAssumption
  <2>2. Max(ErrorLifetimes) \in ErrorLifetimes
    BY <2>1, FiniteGreatest
  <2> QED
    BY <2>2 DEF AuditInit
<1>3. AuditTypeOK
  <2>1. trail \in Seq(AuditEntries) /\ Len(trail) <= MaxEntries
    BY <1>1 DEF AuditInit, AuditAssumption
  <2>2. 0 \in 0 .. TrailEnd /\ 0 \in 0 .. MaxEntries
    BY DEF AuditAssumption
  <2> QED
    BY <2>1, <2>2
    DEF AuditTypeOK, AuditInit, AuditAssumption, Unseen, NoProof, NoError, NoAuditor, AuditEntries
<1>4. AuditorStands
  <2>1. Descending(<<>>) /\ Range(<<>>) = {}
    BY <1>1 DEF Descending, Range
  <2> QED
    BY <1>1, <2>1 DEF AuditorStands, AuditInit, NoAuditor
<1> QED
  BY <1>2, <1>3, <1>4 DEF AuditIInv, AuditAssumption

\* What every audited call does to the trail.
LEMMA AuditKeeps ==
  ASSUME AuditAssumption, AuditIInv, NEW c \in Callers, NEW amount \in Nat, NEW conf \in AuditConfigs,
         Audit(c, amount, conf)
  PROVE  /\ trail' \in Seq(AuditEntries) /\ Len(trail') <= MaxEntries
         /\ activity' \in [Callers -> [count : Nat, start : 0 .. TrailEnd]]
         /\ trailTime' = trailTime /\ auditor' = auditor /\ AuditorStands'
<1>1. /\ Len(trail) \in Nat /\ DOMAIN trail = 1 .. Len(trail)
      /\ trail \in Seq(AuditEntries)
  BY TrailFacts DEF AuditIInv
<1>2. /\ activity \in [Callers -> [count : Nat, start : 0 .. TrailEnd]] /\ trailTime \in 0 .. TrailEnd
      /\ TrailEnd \in Nat /\ MaxEntries \in Nat
  BY DEF AuditIInv, AuditTypeOK, AuditAssumption
<1>3. conf.retention \in Nat
  BY DEF AuditAssumption
<1> DEFINE e == [caller |-> c, amount |-> amount, at |-> trailTime, until |-> trailTime + conf.retention]
<1>4. /\ trail' = Append(trail, e) /\ Len(trail) < MaxEntries
      /\ activity' = [activity EXCEPT ![c] = Bumped(c, conf)]
      /\ trailTime' = trailTime /\ auditor' = auditor
  BY DEF Audit
<1>5. e \in AuditEntries
  BY <1>2, <1>3 DEF AuditEntries
<1>6. Bumped(c, conf) \in [count : Nat, start : 0 .. TrailEnd]
  BY <1>2 DEF Bumped
<1> HIDE DEF e
<1>7. /\ trail' \in Seq(AuditEntries) /\ Len(trail') = Len(trail) + 1
      /\ \A i \in 1 .. Len(trail) : trail'[i] = trail[i]
  BY <1>1, <1>4, <1>5, AppendProperties
<1>8. AuditorStands'
  <2>1. ASSUME NEW s \in auditor.kept PROVE s < Len(trail') /\ Held(s)' /\ ToRead(s)'
    <3>1. s \in Nat /\ s < Len(trail) /\ Held(s) /\ ToRead(s)
      BY <2>1 DEF AuditIInv, AuditorStands
    <3>2. s + 1 \in 1 .. Len(trail)
      BY <1>1, <3>1
    <3> QED
      BY <1>1, <1>4, <1>7, <3>1, <3>2 DEF Held, ToRead
  <2>2. auditor.below <= Len(trail')
    BY <1>1, <1>7 DEF AuditIInv, AuditorStands
  <2> QED
    BY <1>4, <2>1, <2>2 DEF AuditIInv, AuditorStands
<1>9. Len(trail') <= MaxEntries
  BY <1>1, <1>2, <1>4, <1>7
<1> QED
  BY <1>2, <1>4, <1>6, <1>7, <1>8, <1>9

LEMMA AuditedStep ==
  ASSUME AuditAssumption, AuditIInv, NEW c \in Callers, NEW amount \in Nat, NEW conf \in AuditConfigs,
         Audit(c, amount, conf),
         auditConf' \in AuditConfigs, barred' \in BOOLEAN, owner' \in Callers \cup {NoCaller},
         sealed' \in [Chains -> [owner : Callers \cup {NoCaller}, issued : Nat, expiry : Nat]],
         errors' = errors, errorLife' \in Nat
  PROVE  AuditIInv'
<1>1. /\ trail' \in Seq(AuditEntries) /\ Len(trail') <= MaxEntries
      /\ activity' \in [Callers -> [count : Nat, start : 0 .. TrailEnd]]
      /\ trailTime' = trailTime /\ auditor' = auditor /\ AuditorStands'
  BY AuditKeeps
<1>2. AuditTypeOK'
  BY <1>1 DEF AuditIInv, AuditTypeOK, AuditEntries
<1> QED
  BY <1>1, <1>2 DEF AuditIInv

LEMMA TrailStep ==
  ASSUME AuditAssumption, AuditIInv, TrailNext
  PROVE  AuditIInv'
<1> USE DEF AuditAssumption
<1>1. /\ Len(trail) \in Nat /\ DOMAIN trail = 1 .. Len(trail)
      /\ trail \in Seq(AuditEntries) /\ \A i \in 1 .. Len(trail) : trail[i] \in AuditEntries
  BY TrailFacts DEF AuditIInv
<1>2. ASSUME NEW n \in Amounts, Privileged(n) PROVE AuditIInv'
  BY <1>2, AuditedStep DEF Privileged, AuditIInv, AuditTypeOK
<1>3. ASSUME NEW conf \in AuditConfigs, SetAuditConfig(conf) PROVE AuditIInv'
  BY <1>3, AuditedStep DEF SetAuditConfig, AuditIInv, AuditTypeOK
<1>4. ASSUME NEW s \in DOMAIN trail, LapseEntry(s) PROVE AuditIInv'
  <2>1. /\ trail' = [trail EXCEPT ![s] = Lapsed]
        /\ auditor' = [auditor EXCEPT !.kept = @ \ {s - 1}]
        /\ UNCHANGED <<activity, auditConf, alarms, barred, owner, sealed, errors, errorLife, trailTime>>
    BY <1>4 DEF LapseEntry
  <2>2. Lapsed \in AuditEntries
    BY DEF Lapsed, AuditEntries
  <2>3. trail' \in Seq(AuditEntries) /\ Len(trail') = Len(trail)
    BY <1>1, <1>4, <2>1, <2>2, ExceptSeq
  <2>4. \A i \in 1 .. Len(trail) : i # s => trail'[i] = trail[i]
    BY <1>1, <2>1
  <2>5. s \in Nat
    BY <1>1, <1>4
  <2>6. /\ auditor'.state = auditor.state /\ auditor'.below = auditor.below /\ auditor'.got = auditor.got
        /\ auditor'.kept = auditor.kept \ {s - 1}
        /\ auditor' \in [state : {"none", "reading", "done"}, below : Nat, got : Seq(Nat), kept : SUBSET Nat]
    BY <2>1 DEF AuditIInv, AuditorStands
  <2>7. ASSUME NEW k \in auditor'.kept PROVE k < Len(trail') /\ Held(k)' /\ ToRead(k)'
    <3>1. k \in Nat /\ k # s - 1 /\ k < Len(trail) /\ Held(k) /\ ToRead(k)
      BY <2>6, <2>7 DEF AuditIInv, AuditorStands
    <3>2. k + 1 \in 1 .. Len(trail) /\ k + 1 # s
      BY <1>1, <2>5, <3>1
    <3> QED
      BY <2>3, <2>4, <2>6, <3>1, <3>2 DEF Held, ToRead
  <2>8. AuditorStands'
    BY <2>3, <2>6, <2>7 DEF AuditIInv, AuditorStands
  <2>9. AuditTypeOK'
    BY <2>1, <2>3, <2>6 DEF AuditIInv, AuditTypeOK, AuditEntries
  <2> QED
    BY <2>1, <2>8, <2>9 DEF AuditIInv
<1>5. ASSUME NEW c \in Callers, LapseActivity(c) PROVE AuditIInv'
  <2>1. /\ activity' = [activity EXCEPT ![c] = Unseen]
        /\ UNCHANGED <<trail, auditConf, alarms, barred, owner, sealed, errors, errorLife, auditor, trailTime>>
    BY <1>5 DEF LapseActivity
  <2>2. AuditorStands'
    BY <2>1 DEF AuditIInv, AuditorStands, Held, ToRead
  <2>3. AuditTypeOK'
    <3>1. AuditTypeOK /\ Unseen \in [count : Nat, start : 0 .. TrailEnd]
      BY DEF AuditIInv, Unseen
    <3>2. activity' \in [Callers -> [count : Nat, start : 0 .. TrailEnd]]
      BY <2>1, <3>1 DEF AuditTypeOK
    <3> QED
      BY <2>1, <3>1, <3>2 DEF AuditTypeOK
  <2> QED
    BY <2>1, <2>2, <2>3 DEF AuditIInv
<1>6. ASSUME OpenTrail PROVE AuditIInv'
  <2>1. /\ Len(trail) > 0 /\ KeepTrail
        /\ auditor' = [state |-> "reading", below |-> Len(trail), got |-> <<>>,
                       kept |-> {s \in 0 .. Len(trail) - 1 : Held(s)}]
    BY <1>6 DEF OpenTrail
  <2>2. <<>> \in Seq(Nat) /\ Descending(<<>>) /\ Range(<<>>) = {}
    BY EmptySeq DEF Descending, Range
  <2>3. AuditorStands'
    BY <1>1, <2>1, <2>2 DEF AuditorStands, KeepTrail, Held, ToRead
  <2>4. AuditTypeOK'
    <3>1. AuditTypeOK /\ Len(trail) \in 0 .. MaxEntries
      <4>1. AuditTypeOK /\ Len(trail) <= MaxEntries /\ MaxEntries \in Nat
        BY DEF AuditIInv, AuditTypeOK
      <4> QED
        BY <1>1, <4>1
    <3>2. auditor'.state \in {"none", "reading", "done"} /\ auditor'.below \in 0 .. MaxEntries
      BY <2>1, <3>1
    <3> QED
      BY <2>1, <3>1, <3>2 DEF AuditTypeOK, KeepTrail
  <2> QED
    BY <2>1, <2>3, <2>4 DEF AuditIInv, KeepTrail
<1>7. ASSUME GetAuditLog PROVE AuditIInv'
  <2> DEFINE below == auditor.below
             floor == PageFloor(below)
             rows == PageRows(floor, below)
  <2>1. /\ auditor.state = "reading" /\ KeepTrail
        /\ auditor' = [auditor EXCEPT !.below = floor, !.got = @ \o rows,
                         !.state = IF floor = 0 THEN "done" ELSE "reading"]
    BY <1>7 DEF GetAuditLog, Cursor
  <2>2. /\ auditor \in [state : {"none", "reading", "done"}, below : Nat, got : Seq(Nat), kept : SUBSET Nat]
        /\ below \in Nat \ {0} /\ below <= Len(trail) /\ Descending(auditor.got)
        /\ \A s \in Range(auditor.got) : s >= below
    BY <2>1 DEF AuditIInv, AuditorStands
  <2>3. floor \in 0 .. below - 1
    BY <2>2, PageFloorFacts
  <2> HIDE DEF floor
  <2>4. floor \in 0 .. below /\ floor \in Nat
    BY <2>2, <2>3
  <2>5. NewestFirst(rows, floor, below)
    BY <2>2, <2>4, PageFacts
  <2> HIDE DEF rows
  <2> DEFINE read == auditor.got \o rows
  <2>6. read \in Seq(Nat) /\ Descending(read) /\ Range(read) = Range(auditor.got) \cup Range(rows)
    BY <2>2, <2>4, <2>5, ReadOn
  <2> HIDE DEF read
  <2>7. /\ auditor'.below = floor /\ auditor'.got = read /\ auditor'.kept = auditor.kept
        /\ auditor'.state = IF floor = 0 THEN "done" ELSE "reading"
        /\ auditor' \in [state : {"none", "reading", "done"}, below : Nat, got : Seq(Nat), kept : SUBSET Nat]
    BY <2>1, <2>2, <2>4, <2>6 DEF read
  <2>8. ASSUME NEW s \in Range(read) PROVE s >= floor
    <3>1. CASE s \in Range(auditor.got)
      <4>1. s >= below /\ s \in Nat
        <5>1. \A i \in DOMAIN auditor.got : auditor.got[i] \in Nat
          BY <2>2, SeqFacts
        <5> QED
          BY <2>2, <3>1, <5>1 DEF Range
      <4> QED
        BY <2>2, <2>3, <4>1
    <3>2. CASE s \in Range(rows)
      <4>1. s \in floor .. below - 1
        BY <2>5, <3>2 DEF NewestFirst
      <4> QED
        BY <2>4, <4>1
    <3> QED
      BY <2>6, <2>8, <3>1, <3>2
  <2>9. ASSUME NEW s \in auditor'.kept PROVE s < Len(trail) /\ Held(s) /\ ToRead(s)'
    <3>1. s \in Nat /\ s < Len(trail) /\ Held(s) /\ (s < below \/ s \in Range(auditor.got))
      BY <2>2, <2>7, <2>9 DEF AuditIInv, AuditorStands, ToRead
    <3>2. s < floor \/ s \in floor .. below - 1 \/ s \in Range(auditor.got)
      BY <2>2, <2>4, <3>1
    <3>3. s \in floor .. below - 1 => s \in Range(rows)
      BY <2>5, <3>1 DEF NewestFirst
    <3>4. s < floor \/ s \in Range(read)
      BY <2>6, <3>2, <3>3
    <3> QED
      BY <2>7, <3>1, <3>4 DEF ToRead
  <2>10. trail' = trail
    BY <2>1 DEF KeepTrail
  <2>11. AuditorStands'
    <3>1. floor <= Len(trail)
      BY <1>1, <2>2, <2>3
    <3>2. \A s \in auditor'.kept : s < Len(trail') /\ Held(s)' /\ ToRead(s)'
      BY <2>9, <2>10 DEF Held
    <3> QED
      BY <2>6, <2>7, <2>8, <2>10, <3>1, <3>2 DEF AuditorStands
  <2>12. AuditTypeOK'
    <3>1. floor \in 0 .. MaxEntries
      <4>1. below \in 0 .. MaxEntries /\ MaxEntries \in Nat
        BY DEF AuditIInv, AuditTypeOK
      <4> QED
        BY <2>2, <2>3, <4>1
    <3> QED
      BY <2>1, <2>7, <3>1 DEF AuditIInv, AuditTypeOK, KeepTrail
  <2> QED
    BY <2>1, <2>11, <2>12 DEF AuditIInv, KeepTrail
<1> QED
  BY <1>2, <1>3, <1>4, <1>5, <1>6, <1>7 DEF TrailNext

LEMMA BridgeStep ==
  ASSUME AuditAssumption, AuditIInv, BridgeNext
  PROVE  AuditIInv'
<1> DEFINE Proofs == [owner : Callers \cup {NoCaller}, issued : Nat, expiry : Nat]
<1>1. /\ auditConf \in AuditConfigs /\ barred \in BOOLEAN /\ owner \in Callers \cup {NoCaller}
      /\ sealed \in [Chains -> Proofs] /\ errorLife \in Nat /\ trailTime \in Nat
  BY DEF AuditIInv, AuditTypeOK, AuditAssumption
<1>2. Chief \in Callers /\ 0 \in Nat
  BY DEF AuditAssumption
<1>3. ASSUME Bar PROVE AuditIInv'
  BY <1>1, <1>2, <1>3, AuditedStep DEF Bar
<1>4. ASSUME NEW c \in Callers, SetOwner(c) PROVE AuditIInv'
  <2>1. /\ owner' \in Callers \cup {NoCaller}
        /\ UNCHANGED <<trail, activity, auditConf, alarms, barred, sealed, errors, errorLife, auditor, trailTime>>
    BY <1>4 DEF SetOwner
  <2>2. AuditorStands'
    BY <2>1 DEF AuditIInv, AuditorStands, Held, ToRead
  <2>3. AuditTypeOK'
    BY <2>1 DEF AuditIInv, AuditTypeOK
  <2> QED
    BY <2>1, <2>2, <2>3 DEF AuditIInv
<1>5. ASSUME NEW c \in Callers, NEW x \in Chains, RevokeBridgeProof(c, x) PROVE AuditIInv'
  <2>1. /\ sealed' = [sealed EXCEPT ![x] = NoProof] /\ Audit(c, 0, auditConf)
        /\ UNCHANGED <<auditConf, barred, owner, errors, errorLife>>
    BY <1>5 DEF RevokeBridgeProof
  <2>2. sealed' \in [Chains -> Proofs]
    BY <1>1, <2>1 DEF NoProof
  <2> QED
    BY <1>1, <1>2, <2>1, <2>2, AuditedStep
<1>6. ASSUME NEW x \in Chains, NEW ttl \in Lifetimes, BridgeIdentity(x, ttl) PROVE AuditIInv'
  <2>1. /\ owner \in Callers /\ Audit(owner, 0, auditConf)
        /\ sealed' = [sealed EXCEPT ![x] =
             [owner |-> owner, issued |-> trailTime, expiry |-> trailTime + LifetimeOf(ttl)]]
        /\ UNCHANGED <<auditConf, barred, owner, errors, errorLife>>
    BY <1>1, <1>6 DEF BridgeIdentity
  <2>2. LifetimeOf(ttl) \in Nat
    BY DEF LifetimeOf, AuditAssumption
  <2>3. sealed' \in [Chains -> Proofs]
    BY <1>1, <2>1, <2>2
  <2> QED
    BY <1>1, <1>2, <2>1, <2>3, AuditedStep
<1> QED
  BY <1>3, <1>4, <1>5, <1>6 DEF BridgeNext

LEMMA ErrorStep ==
  ASSUME AuditAssumption, AuditIInv, ErrorNext
  PROVE  AuditIInv'
<1> DEFINE Reports == [state : {"none", "open", "resolved"}, until : Nat]
<1>1. /\ auditConf \in AuditConfigs /\ barred \in BOOLEAN /\ owner \in Callers \cup {NoCaller}
      /\ sealed \in [Chains -> [owner : Callers \cup {NoCaller}, issued : Nat, expiry : Nat]]
      /\ errors \in [ErrorIds -> Reports] /\ errorLife \in Nat /\ trailTime \in Nat
  <2>1. AuditTypeOK /\ errorLife \in Nat
    BY DEF AuditIInv
  <2>2. errors \in [ErrorIds -> Reports]
    BY <2>1 DEF AuditTypeOK
  <2>3. trailTime \in Nat
    BY <2>1 DEF AuditTypeOK, AuditAssumption
  <2>4. /\ auditConf \in AuditConfigs /\ barred \in BOOLEAN /\ owner \in Callers \cup {NoCaller}
        /\ sealed \in [Chains -> [owner : Callers \cup {NoCaller}, issued : Nat, expiry : Nat]]
    BY <2>1 DEF AuditTypeOK
  <2> QED
    BY <2>1, <2>2, <2>3, <2>4
<1>2. Chief \in Callers /\ 0 \in Nat
  BY DEF AuditAssumption
<1>3. ASSUME KeepBut, errorLife' = errorLife, errors' \in [ErrorIds -> Reports] PROVE AuditIInv'
  <2>1. AuditorStands'
    BY <1>3 DEF AuditIInv, AuditorStands, Held, ToRead, KeepBut
  <2>2. AuditTypeOK'
    BY <1>3 DEF AuditIInv, AuditTypeOK, KeepBut
  <2> QED
    BY <1>1, <1>3, <2>1, <2>2 DEF AuditIInv
<1>4. ASSUME NEW e \in ErrorIds, ReportError(e) PROVE AuditIInv'
  <2>1. errors' \in [ErrorIds -> Reports]
    BY <1>1, <1>4 DEF ReportError
  <2> QED
    BY <1>3, <1>4, <2>1 DEF ReportError
<1>5. ASSUME NEW E \in SUBSET ErrorIds, ResolveErrors(E) PROVE AuditIInv'
  <2>1. errors' \in [ErrorIds -> Reports]
    BY <1>1, <1>5 DEF ResolveErrors
  <2> QED
    BY <1>3, <1>5, <2>1 DEF ResolveErrors
<1>6. ASSUME NEW E \in SUBSET ErrorIds, CleanupExpiredErrors(E) PROVE AuditIInv'
  <2>1. errors' \in [ErrorIds -> Reports]
    BY <1>1, <1>6 DEF CleanupExpiredErrors, NoError
  <2> QED
    BY <1>3, <1>6, <2>1 DEF CleanupExpiredErrors
<1>7. ASSUME NEW n \in ErrorLifetimes, SetErrorTtl(n) PROVE AuditIInv'
  <2>1. n \in Nat
    BY DEF AuditAssumption
  <2> QED
    BY <1>1, <1>2, <1>7, <2>1, AuditedStep DEF SetErrorTtl
<1> QED
  BY <1>4, <1>5, <1>6, <1>7 DEF ErrorNext

\* Whoever follows the cursors of the audit trail to the end has every entry that is still
\* held, once and newest first, whatever is written and lapses between the pages
\* (audit.rs: record, page).
THEOREM AuditHolds == AuditSpec => []AuditInv
<1> USE AuditAssumption
<1>1. AuditInit => AuditIInv
  BY AuditStart
<1>2. AuditIInv /\ [AuditNext]_auditVars => AuditIInv'
  <2> SUFFICES ASSUME AuditIInv, [AuditNext]_auditVars PROVE AuditIInv'
    OBVIOUS
  <2>1. CASE TrailTick
    <3>1. /\ trailTime' \in 0 .. TrailEnd
          /\ UNCHANGED <<trail, activity, auditConf, alarms, barred, owner, sealed, errors, errorLife, auditor>>
      BY <2>1 DEF TrailTick, AuditIInv, AuditTypeOK, AuditAssumption
    <3>2. AuditorStands'
      BY <3>1 DEF AuditIInv, AuditorStands, Held, ToRead
    <3>3. AuditTypeOK'
      BY <3>1 DEF AuditIInv, AuditTypeOK
    <3> QED
      BY <3>1, <3>2, <3>3 DEF AuditIInv
  <2>2. CASE UNCHANGED auditVars
    <3>1. AuditorStands'
      BY <2>2 DEF AuditIInv, AuditorStands, Held, ToRead, auditVars
    <3>2. AuditTypeOK'
      BY <2>2 DEF AuditIInv, AuditTypeOK, auditVars
    <3> QED
      BY <2>2, <3>1, <3>2 DEF AuditIInv, auditVars
  <2> QED
    BY <2>1, <2>2, TrailStep, BridgeStep, ErrorStep DEF AuditNext
<1>3. AuditIInv => AuditInv
  <2> SUFFICES ASSUME AuditIInv PROVE AuditInv
    OBVIOUS
  <2>1. TrailIsReadOnce
    <3> SUFFICES ASSUME auditor.state = "done"
                 PROVE  /\ auditor.kept \subseteq Range(auditor.got)
                        /\ \A i, j \in DOMAIN auditor.got : i < j => auditor.got[i] > auditor.got[j]
      BY DEF TrailIsReadOnce
    <3>1. auditor.below = 0 /\ Descending(auditor.got) /\ auditor.kept \subseteq Nat
      BY DEF AuditIInv, AuditorStands
    <3>2. \A s \in auditor.kept : s \in Range(auditor.got)
      BY <3>1 DEF AuditIInv, AuditorStands, ToRead
    <3> QED
      BY <3>1, <3>2 DEF Descending
  <2> QED
    BY <2>1 DEF AuditIInv, AuditInv
<1> QED
  BY <1>1, <1>2, <1>3, PTL DEF AuditSpec

-----------------------------------------------------------------------------
USE GovernanceAssumption

LEMMA GovernanceNumbers ==
  /\ VotingPeriod \in Nat /\ ExecutionDelay \in Nat /\ MaxPowerChanges \in Nat
  /\ GovernanceEnd \in Nat /\ NotQueued \in Nat /\ Powers \cup {0} \subseteq Nat
BY DEF NotQueued

Checkpoint == [at : 0 .. GovernanceEnd, power : Powers \cup {0}]

\* What a voter's history says of its power: nothing later than now, and last what it has.
HistoriesStand ==
  /\ checkpoints \in [Electors -> Seq(Checkpoint)]
  /\ \A e \in Electors :
       /\ \A i \in 1 .. Len(checkpoints[e]) : checkpoints[e][i].at <= govTime
       /\ powerOf[e] = IF checkpoints[e] = <<>> THEN 0
                       ELSE checkpoints[e][Len(checkpoints[e])].power

GovernanceIInv ==
  /\ GovernanceTypeOK /\ HistoriesStand
  /\ totalPower = SumFunctionOnSet(powerOf, Electors)
  /\ QueuedHasCarried

-----------------------------------------------------------------------------
LEMMA NewestKeepsLast ==
  ASSUME NEW s \in Seq(Checkpoint), s # <<>>, Len(s) <= MaxCheckpoints + 1
  PROVE  /\ Newest(s) \in Seq(Checkpoint) /\ Newest(s) # <<>>
         /\ Len(Newest(s)) <= MaxCheckpoints
         /\ Newest(s)[Len(Newest(s))] = s[Len(s)]
         /\ \A i \in 1 .. Len(Newest(s)) : \E j \in 1 .. Len(s) : Newest(s)[i] = s[j]
<1>1. Len(s) \in Nat \ {0}
  BY SeqFacts
<1>2. CASE Len(s) > MaxCheckpoints
  <2> DEFINE r == SubSeq(s, 2, Len(s))
  <2>1. /\ r \in Seq(Checkpoint) /\ Len(r) = Len(s) - 1
        /\ \A i \in 1 .. Len(s) - 1 : r[i] = s[i + 1]
    BY WithoutFirst
  <2>2. Newest(s) = r
    BY <1>2 DEF Newest
  <2> HIDE DEF r
  <2>3. Len(s) - 1 = MaxCheckpoints /\ Len(s) - 1 \in 1 .. Len(s) - 1
    BY <1>1, <1>2
  <2>4. r # <<>> /\ r[Len(r)] = s[Len(s)]
    BY <1>1, <2>1, <2>3, SeqFacts
  <2>5. \A i \in 1 .. Len(r) : i + 1 \in 1 .. Len(s) /\ r[i] = s[i + 1]
    BY <1>1, <2>1
  <2> QED
    BY <2>1, <2>2, <2>3, <2>4, <2>5
<1>3. CASE Len(s) <= MaxCheckpoints
  <2> DEFINE r == SubSeq(s, 1, Len(s))
  <2>1. /\ r \in Seq(Checkpoint) /\ Len(r) = Len(s)
        /\ \A i \in 1 .. Len(s) : r[i] = s[i]
    BY Whole
  <2>2. Newest(s) = r
    BY <1>1, <1>3 DEF Newest
  <2> HIDE DEF r
  <2>3. r # <<>> /\ r[Len(r)] = s[Len(s)]
    BY <1>1, <2>1, SeqFacts
  <2> QED
    BY <1>3, <2>1, <2>2, <2>3
<1> QED
  BY <1>1, <1>2, <1>3

\* Writing a checkpoint keeps the history in order.
LEMMA WriteCheckpointKeeps ==
  ASSUME GovernanceTypeOK, HistoriesStand,
         NEW e \in Electors, NEW power \in Powers \cup {0}, WriteCheckpoint(e, power)
  PROVE  /\ checkpoints' \in [Electors -> Seq(Checkpoint)]
         /\ \A d \in Electors : d # e => checkpoints'[d] = checkpoints[d]
         /\ checkpoints'[e] # <<>> /\ Len(checkpoints'[e]) <= MaxCheckpoints
         /\ checkpoints'[e][Len(checkpoints'[e])].power = power
         /\ \A i \in 1 .. Len(checkpoints'[e]) : checkpoints'[e][i].at <= govTime
<1> DEFINE past == checkpoints[e]
           same == past # <<>> /\ past[Len(past)].at = govTime
           kept == IF same THEN SubSeq(past, 1, Len(past) - 1) ELSE past
           new == [at |-> govTime, power |-> power]
           long == Append(kept, new)
<1>1. /\ past \in Seq(Checkpoint) /\ Len(past) \in Nat /\ Len(past) <= MaxCheckpoints
      /\ past # <<>> => Len(past) # 0
      /\ \A i \in 1 .. Len(past) : past[i] \in Checkpoint /\ past[i].at <= govTime
  BY SeqFacts DEF GovernanceTypeOK, HistoriesStand
<1>2. /\ kept \in Seq(Checkpoint) /\ Len(kept) <= MaxCheckpoints
      /\ \A i \in 1 .. Len(kept) : kept[i].at <= govTime
  <2>1. CASE same
    <3>1. /\ kept \in Seq(Checkpoint) /\ Len(kept) = Len(past) - 1
          /\ \A i \in 1 .. Len(past) - 1 : kept[i] = past[i]
      BY <1>1, <2>1, WithoutLast
    <3> HIDE DEF past, kept
    <3> QED
      BY <1>1, <3>1
  <2>2. CASE ~same
    BY <1>1, <2>2
  <2> QED
    BY <2>1, <2>2
<1>3. new \in Checkpoint
  BY DEF GovernanceTypeOK, Checkpoint
<1>4. /\ long \in Seq(Checkpoint) /\ long # <<>> /\ Len(long) = Len(kept) + 1
      /\ \A i \in 1 .. Len(kept) : long[i] = kept[i]
      /\ long[Len(kept) + 1] = new
  <2> HIDE DEF kept, new
  <2> QED
    BY <1>2, <1>3, AppendProperties
<1>5. Len(kept) \in Nat
  BY <1>2, LenProperties
<1>6. new.at = govTime /\ new.power = power /\ govTime \in Nat
  BY DEF GovernanceTypeOK
<1>7. checkpoints' = [checkpoints EXCEPT ![e] = Newest(long)]
  BY DEF WriteCheckpoint
<1> HIDE DEF kept, new, long, past
<1>8. \A i \in 1 .. Len(long) : long[i].at <= govTime
  BY <1>2, <1>4, <1>5, <1>6
<1>9. /\ Newest(long) \in Seq(Checkpoint) /\ Newest(long) # <<>>
      /\ Len(Newest(long)) <= MaxCheckpoints
      /\ Newest(long)[Len(Newest(long))] = long[Len(long)]
      /\ \A i \in 1 .. Len(Newest(long)) : \E j \in 1 .. Len(long) : Newest(long)[i] = long[j]
  BY <1>2, <1>4, <1>5, NewestKeepsLast
<1>10. checkpoints \in [Electors -> Seq(Checkpoint)]
  BY DEF HistoriesStand
<1>11. checkpoints'[e] = Newest(long)
  BY <1>7, <1>10
<1> QED
  BY <1>4, <1>5, <1>6, <1>7, <1>8, <1>9, <1>10, <1>11

\* What a history says of any time is a power the elector had, of now the one it has.
LEMMA PowerAtType ==
  ASSUME HistoriesStand, NEW e \in Electors, NEW at \in Nat
  PROVE  PowerAt(e, at) \in Powers \cup {0}
<1> DEFINE then == {i \in DOMAIN checkpoints[e] : checkpoints[e][i].at <= at}
<1>0. /\ checkpoints[e] \in Seq(Checkpoint) /\ Len(checkpoints[e]) \in Nat
      /\ DOMAIN checkpoints[e] = 1 .. Len(checkpoints[e])
      /\ \A i \in 1 .. Len(checkpoints[e]) : checkpoints[e][i] \in Checkpoint
  BY SeqFacts DEF HistoriesStand
<1>1. \A i \in 1 .. Len(checkpoints[e]) : checkpoints[e][i].power \in Powers \cup {0}
  BY <1>0 DEF Checkpoint
<1>2. CASE then = {}
  BY <1>2 DEF PowerAt
<1>3. CASE then # {}
  <2>1. then \subseteq 1 .. Len(checkpoints[e])
    BY <1>0
  <2> HIDE DEF then
  <2>2. \E i \in then : \A j \in then : j <= i
    BY <1>0, <1>3, <2>1, GreatestExists
  <2> DEFINE last == CHOOSE i \in then : \A j \in then : j <= i
  <2>3. last \in then
    BY <2>2
  <2>4. PowerAt(e, at) = checkpoints[e][last].power
    BY <1>3 DEF PowerAt, then
  <2> HIDE DEF last
  <2> QED
    BY <1>1, <2>1, <2>3, <2>4
<1> QED
  BY <1>2, <1>3

LEMMA PowerAtNow ==
  ASSUME HistoriesStand, NEW e \in Electors
  PROVE  PowerAt(e, govTime) = powerOf[e]
<1> DEFINE s == checkpoints[e]
           then == {i \in DOMAIN s : s[i].at <= govTime}
<1>1. /\ s \in Seq(Checkpoint) /\ Len(s) \in Nat /\ DOMAIN s = 1 .. Len(s)
      /\ s # <<>> <=> Len(s) # 0
  BY SeqFacts DEF HistoriesStand
<1>2. then = 1 .. Len(s)
  BY <1>1 DEF HistoriesStand
<1>3. CASE s = <<>>
  BY <1>1, <1>2, <1>3 DEF PowerAt, HistoriesStand
<1>4. CASE s # <<>>
  <2> DEFINE last == CHOOSE i \in then : \A j \in then : j <= i
  <2>1. Len(s) \in then /\ \A j \in then : j <= Len(s)
    BY <1>1, <1>2, <1>4
  <2>2. last \in then /\ \A j \in then : j <= last
    BY <2>1
  <2>3. PowerAt(e, govTime) = s[last].power
    BY <1>1, <1>2, <1>4 DEF PowerAt
  <2> HIDE DEF last
  <2>4. last = Len(s)
    BY <1>1, <1>2, <2>1, <2>2
  <2> QED
    BY <1>4, <2>3, <2>4 DEF HistoriesStand
<1> QED
  BY <1>3, <1>4

-----------------------------------------------------------------------------
LEMMA GovernanceStarts == GovernanceInit => GovernanceIInv
<1> SUFFICES ASSUME GovernanceInit PROVE GovernanceIInv
  OBVIOUS
<1>1. GovernanceTypeOK
  <2>1. \A e \in Electors : checkpoints[e] = <<>> /\ Len(checkpoints[e]) = 0 /\ DOMAIN checkpoints[e] = {}
    BY EmptySeq DEF GovernanceInit
  <2>2. NoVote \in [choice : VoteChoices \cup {"none"}, weight : Powers \cup {0}]
    BY DEF NoVote
  <2>3. NoProposal \in [status : {"none", "active", "queued", "executed", "failed"},
                        created : 0 .. GovernanceEnd, snapshot : Nat, target : BOOLEAN,
                        votes : [Electors -> [choice : VoteChoices \cup {"none"}, weight : Powers \cup {0}]]]
    BY <2>2 DEF NoProposal
  <2>4. NotQueued \in 0 .. NotQueued
    BY DEF NotQueued
  <2>5. /\ powerOf \in [Electors -> Powers \cup {0}] /\ totalPower \in Nat
        /\ proposal \in [Proposals ->
             [status : {"none", "active", "queued", "executed", "failed"},
              created : 0 .. GovernanceEnd, snapshot : Nat, target : BOOLEAN,
              votes : [Electors -> [choice : VoteChoices \cup {"none"}, weight : Powers \cup {0}]]]]
    BY <2>3 DEF GovernanceInit
  <2>6. execQueue \in [Proposals -> 0 .. NotQueued]
    BY <2>4 DEF GovernanceInit
  <2>7. powerChanges \in 0 .. MaxPowerChanges /\ govTime \in 0 .. GovernanceEnd
    BY GovernanceNumbers DEF GovernanceInit
  <2>8. govPaused \in BOOLEAN
    BY DEF GovernanceInit
  <2> QED
    BY <2>1, <2>5, <2>6, <2>7, <2>8 DEF GovernanceTypeOK
<1>2. HistoriesStand
  <2>1. \A e \in Electors : checkpoints[e] = <<>>
    BY DEF GovernanceInit
  <2>2. <<>> \in Seq(Checkpoint) /\ Len(<<>>) = 0
    BY EmptySeq
  <2> QED
    BY <2>1, <2>2 DEF GovernanceInit, HistoriesStand
<1>3. totalPower = SumFunctionOnSet(powerOf, Electors)
  BY SumZero DEF GovernanceInit
<1>4. QueuedHasCarried
  BY DEF GovernanceInit, QueuedHasCarried, NoProposal
<1> QED
  BY <1>1, <1>2, <1>3, <1>4 DEF GovernanceIInv

\* A change of one elector's power.
LEMMA SetPowerKeeps ==
  ASSUME GovernanceIInv, NEW e \in Electors, NEW power \in Powers \cup {0}, SetPower(e, power)
  PROVE  GovernanceIInv'
<1> USE DEF GovernanceIInv
<1>1. /\ checkpoints' \in [Electors -> Seq(Checkpoint)]
      /\ \A d \in Electors : d # e => checkpoints'[d] = checkpoints[d]
      /\ checkpoints'[e] # <<>> /\ Len(checkpoints'[e]) <= MaxCheckpoints
      /\ checkpoints'[e][Len(checkpoints'[e])].power = power
      /\ \A i \in 1 .. Len(checkpoints'[e]) : checkpoints'[e][i].at <= govTime
  BY WriteCheckpointKeeps DEF SetPower
<1>2. /\ powerOf' \in [Electors -> Powers \cup {0}] /\ powerOf'[e] = power
      /\ \A d \in Electors : d # e => powerOf'[d] = powerOf[d]
      /\ UNCHANGED <<proposal, execQueue, govPaused, govTime>>
  BY DEF SetPower, GovernanceTypeOK
<1>3. totalPower' = SumFunctionOnSet(powerOf', Electors)
  <2>1. \A d \in Electors : powerOf[d] \in Int /\ powerOf'[d] \in Int
    <3>1. Powers \cup {0} \subseteq Int
      OBVIOUS
    <3> QED
      BY <1>2, <3>1 DEF GovernanceTypeOK
  <2>2. SumFunctionOnSet(powerOf', Electors)
          = SumFunctionOnSet(powerOf, Electors) + powerOf'[e] - powerOf[e]
    BY <1>2, <2>1, SumChange
  <2> QED
    BY <1>2, <2>2 DEF SetPower, Restated
<1>4. HistoriesStand'
  BY <1>1, <1>2 DEF HistoriesStand
<1>5. GovernanceTypeOK'
  <2>1. totalPower' \in Nat
    <3>0. Powers \cup {0} \subseteq Nat
      OBVIOUS
    <3>1. \A d \in Electors : powerOf'[d] \in Nat
      BY <1>2, <3>0
    <3> QED
      BY <1>3, <3>1, SumNat
  <2>2. powerChanges' \in 0 .. MaxPowerChanges
    BY DEF SetPower, GovernanceTypeOK
  <2>3. \A d \in Electors :
          /\ Len(checkpoints'[d]) <= MaxCheckpoints
          /\ \A i \in DOMAIN checkpoints'[d] : checkpoints'[d][i] \in Checkpoint
    <3>1. \A d \in Electors : Len(checkpoints'[d]) <= MaxCheckpoints
      BY <1>1 DEF GovernanceTypeOK
    <3>2. \A d \in Electors : checkpoints'[d] \in Seq(Checkpoint)
      BY <1>1
    <3> QED
      BY <3>1, <3>2, SeqFacts
  <2> QED
    BY <1>2, <2>1, <2>2, <2>3 DEF GovernanceTypeOK, Checkpoint
<1>6. QueuedHasCarried'
  BY <1>2 DEF QueuedHasCarried, Quorum, Majority, Cast, Tally
<1> QED
  BY <1>3, <1>4, <1>5, <1>6

-----------------------------------------------------------------------------
ProposalRecord == [status : {"none", "active", "queued", "executed", "failed"},
                   created : 0 .. GovernanceEnd, snapshot : Nat, target : BOOLEAN,
                   votes : [Electors -> [choice : VoteChoices \cup {"none"},
                                         weight : Powers \cup {0}]]]

WaitsIffCarried(p) ==
  /\ proposal[p].status = "queued" <=> execQueue[p] # NotQueued
  /\ proposal[p].status \in {"queued", "executed"} => Quorum(p) /\ Majority(p)

\* Whether a proposal carries is a matter of its ballots and its snapshot.
LEMMA CarriedByItsBallots ==
  ASSUME NEW p \in Proposals, proposal'[p].votes = proposal[p].votes,
         proposal'[p].snapshot = proposal[p].snapshot
  PROVE  Quorum(p)' = Quorum(p) /\ Majority(p)' = Majority(p)
<1>1. \A choice : Tally(p, choice)' = Tally(p, choice)
  BY DEF Tally
<1> QED
  BY <1>1 DEF Quorum, Majority, Cast

\* A step of one proposal, which leaves the electorate and the others alone.
LEMMA ProposalStepKeeps ==
  ASSUME GovernanceIInv, NEW p \in Proposals, Electorate, UNCHANGED <<govPaused, govTime>>,
         NEW q \in ProposalRecord, NEW eta \in 0 .. NotQueued,
         proposal' = [proposal EXCEPT ![p] = q], execQueue' = [execQueue EXCEPT ![p] = eta],
         q.status = "queued" <=> eta # NotQueued,
         q.status \in {"queued", "executed"} =>
           Quorum(p) /\ Majority(p) /\ q.votes = proposal[p].votes /\ q.snapshot = proposal[p].snapshot
  PROVE  GovernanceIInv'
<1> USE DEF GovernanceIInv
<1>1. /\ proposal \in [Proposals -> ProposalRecord] /\ execQueue \in [Proposals -> 0 .. NotQueued]
      /\ proposal'[p] = q /\ execQueue'[p] = eta
      /\ \A r \in Proposals : r # p => proposal'[r] = proposal[r] /\ execQueue'[r] = execQueue[r]
  BY DEF GovernanceTypeOK, ProposalRecord
<1>2. proposal' \in [Proposals -> ProposalRecord] /\ execQueue' \in [Proposals -> 0 .. NotQueued]
  BY <1>1
<1>3. UNCHANGED <<powerOf, checkpoints, totalPower, powerChanges, govPaused, govTime>>
  BY DEF Electorate
<1>4. GovernanceTypeOK'
  BY <1>2, <1>3 DEF GovernanceTypeOK, ProposalRecord
<1>5. HistoriesStand'
  BY <1>3 DEF HistoriesStand
<1>6. totalPower' = SumFunctionOnSet(powerOf', Electors)
  BY <1>3
<1>7. ASSUME NEW r \in Proposals PROVE WaitsIffCarried(r)'
  <2>1. CASE r = p
    <3>1. q.status \in {"queued", "executed"} => Quorum(p)' /\ Majority(p)'
      BY <1>1, CarriedByItsBallots
    <3> QED
      BY <1>1, <2>1, <3>1 DEF WaitsIffCarried, NotQueued
  <2>2. CASE r # p
    <3>1. Quorum(r)' = Quorum(r) /\ Majority(r)' = Majority(r)
      BY <1>1, <2>2, CarriedByItsBallots
    <3> QED
      BY <1>1, <2>2, <3>1 DEF WaitsIffCarried, QueuedHasCarried, NotQueued
  <2> QED
    BY <2>1, <2>2
<1>8. QueuedHasCarried'
  BY <1>7 DEF QueuedHasCarried, WaitsIffCarried
<1> QED
  BY <1>4, <1>5, <1>6, <1>8

LEMMA CreateKeeps ==
  ASSUME GovernanceIInv, NEW p \in Proposals, NEW target \in BOOLEAN, CreateProposal(p, target)
  PROVE  GovernanceIInv'
<1> DEFINE q == [NoProposal EXCEPT !.status = "active", !.created = govTime,
                                   !.snapshot = totalPower, !.target = target]
<1>1. /\ proposal' = [proposal EXCEPT ![p] = q]
      /\ execQueue' = [execQueue EXCEPT ![p] = execQueue[p]]
      /\ execQueue[p] \in 0 .. NotQueued /\ execQueue[p] = NotQueued
      /\ Electorate /\ UNCHANGED <<govPaused, govTime>>
  BY DEF CreateProposal, GovernanceIInv, GovernanceTypeOK, QueuedHasCarried
<1>2. q.status = "active" /\ q \in ProposalRecord
  <2>1. NoVote \in [choice : VoteChoices \cup {"none"}, weight : Powers \cup {0}]
    BY DEF NoVote
  <2>2. govTime \in 0 .. GovernanceEnd /\ totalPower \in Nat
    BY DEF GovernanceIInv, GovernanceTypeOK
  <2> QED
    BY <2>1, <2>2 DEF ProposalRecord, NoProposal
<1> HIDE DEF q
<1> QED
  BY <1>1, <1>2, ProposalStepKeeps

LEMMA VoteKeeps ==
  ASSUME GovernanceIInv, NEW p \in Proposals, NEW e \in Electors, NEW choice \in VoteChoices,
         VoteOnProposal(p, e, choice)
  PROVE  GovernanceIInv'
<1> DEFINE weight == PowerAt(e, proposal[p].created)
           q == [proposal[p] EXCEPT !.votes[e] = [choice |-> choice, weight |-> weight]]
<1>1. /\ proposal[p] \in ProposalRecord /\ proposal[p].status = "active"
      /\ proposal \in [Proposals -> ProposalRecord]
  BY DEF VoteOnProposal, GovernanceIInv, GovernanceTypeOK, ProposalRecord
<1>2. proposal[p].created \in Nat
  BY <1>1, GovernanceNumbers DEF ProposalRecord
<1>3. weight \in Powers \cup {0}
  BY <1>2, PowerAtType DEF GovernanceIInv
<1>4. proposal' = [proposal EXCEPT ![p] = q]
  BY DEF VoteOnProposal
<1>5. /\ execQueue' = [execQueue EXCEPT ![p] = execQueue[p]]
      /\ execQueue[p] \in 0 .. NotQueued /\ execQueue[p] = NotQueued
      /\ Electorate /\ UNCHANGED <<govPaused, govTime>>
  BY <1>1 DEF VoteOnProposal, GovernanceIInv, GovernanceTypeOK, QueuedHasCarried
<1> HIDE DEF weight
<1>6. q.status = "active" /\ q \in ProposalRecord
  BY <1>1, <1>3 DEF ProposalRecord
<1> HIDE DEF q
<1> QED
  BY <1>4, <1>5, <1>6, ProposalStepKeeps

LEMMA QueueKeeps ==
  ASSUME GovernanceIInv, NEW p \in Proposals, QueueProposal(p)
  PROVE  GovernanceIInv'
<1> DEFINE q == [proposal[p] EXCEPT !.status = IF Carried(p) THEN "queued" ELSE "failed"]
           eta == IF Carried(p) THEN govTime + ExecutionDelay ELSE execQueue[p]
<1>1. /\ proposal[p] \in ProposalRecord /\ proposal[p].status = "active"
      /\ execQueue[p] = NotQueued /\ govTime \in 0 .. GovernanceEnd
  BY DEF QueueProposal, GovernanceIInv, GovernanceTypeOK, ProposalRecord, QueuedHasCarried
<1>2. /\ proposal' = [proposal EXCEPT ![p] = q] /\ execQueue' = [execQueue EXCEPT ![p] = eta]
      /\ Electorate /\ UNCHANGED <<govPaused, govTime>>
  BY DEF QueueProposal
<1>3. q \in ProposalRecord /\ q.votes = proposal[p].votes /\ q.snapshot = proposal[p].snapshot
      /\ q.status = IF Carried(p) THEN "queued" ELSE "failed"
  BY <1>1 DEF ProposalRecord
<1>4. eta \in 0 .. NotQueued /\ (Carried(p) <=> eta # NotQueued)
  BY <1>1, GovernanceNumbers DEF NotQueued
<1> HIDE DEF q, eta
<1>5. /\ q.status = "queued" <=> eta # NotQueued
      /\ q.status \in {"queued", "executed"} => Quorum(p) /\ Majority(p)
  BY <1>3, <1>4 DEF Carried
<1> QED
  BY <1>2, <1>3, <1>4, <1>5, ProposalStepKeeps

LEMMA ExecuteKeeps ==
  ASSUME GovernanceIInv, NEW p \in Proposals, ExecuteProposal(p)
  PROVE  GovernanceIInv'
<1>1. PICK status \in {"executed", "failed"} : proposal' = [proposal EXCEPT ![p].status = status]
  BY DEF ExecuteProposal
<1> DEFINE q == [proposal[p] EXCEPT !.status = status]
<1>2. /\ proposal[p] \in ProposalRecord /\ proposal[p].status = "queued"
      /\ Quorum(p) /\ Majority(p) /\ NotQueued \in 0 .. NotQueued
  BY GovernanceNumbers
     DEF ExecuteProposal, GovernanceIInv, GovernanceTypeOK, ProposalRecord, QueuedHasCarried
<1>3. /\ proposal' = [proposal EXCEPT ![p] = q] /\ execQueue' = [execQueue EXCEPT ![p] = NotQueued]
      /\ Electorate /\ UNCHANGED <<govPaused, govTime>>
  BY <1>1 DEF ExecuteProposal
<1>4. q \in ProposalRecord /\ q.votes = proposal[p].votes /\ q.snapshot = proposal[p].snapshot
      /\ q.status # "queued"
  BY <1>2 DEF ProposalRecord
<1> HIDE DEF q
<1> QED
  BY <1>2, <1>3, <1>4, ProposalStepKeeps

LEMMA CancelKeeps ==
  ASSUME GovernanceIInv, NEW p \in Proposals, CancelProposal(p)
  PROVE  GovernanceIInv'
<1> DEFINE q == [proposal[p] EXCEPT !.status = "failed"]
<1>1. proposal[p] \in ProposalRecord /\ NotQueued \in 0 .. NotQueued
  BY GovernanceNumbers DEF GovernanceIInv, GovernanceTypeOK, ProposalRecord
<1>2. /\ proposal' = [proposal EXCEPT ![p] = q] /\ execQueue' = [execQueue EXCEPT ![p] = NotQueued]
      /\ Electorate /\ UNCHANGED <<govPaused, govTime>>
  BY DEF CancelProposal
<1>3. q \in ProposalRecord /\ q.status = "failed"
  BY <1>1 DEF ProposalRecord
<1> HIDE DEF q
<1> QED
  BY <1>1, <1>2, <1>3, ProposalStepKeeps

\* Time and the pause switch.
LEMMA ClockKeeps ==
  ASSUME GovernanceIInv, PauseGovernance \/ GovernanceTick \/ UNCHANGED governanceVars
  PROVE  GovernanceIInv'
<1> USE DEF GovernanceIInv
<1>1. UNCHANGED <<proposal, execQueue, powerOf, checkpoints, totalPower, powerChanges>>
  BY DEF PauseGovernance, GovernanceTick, Electorate, governanceVars
<1>2. govTime' \in 0 .. GovernanceEnd /\ govTime' >= govTime /\ govPaused' \in BOOLEAN
  <2>1. govTime \in 0 .. GovernanceEnd /\ govPaused \in BOOLEAN
    BY DEF GovernanceTypeOK
  <2>2. govPaused' \in BOOLEAN
    BY <2>1 DEF PauseGovernance, GovernanceTick, governanceVars
  <2>3. govTime' = govTime \/ (govTime < GovernanceEnd /\ govTime' = govTime + 1)
    BY DEF PauseGovernance, GovernanceTick, governanceVars
  <2> QED
    BY <2>1, <2>2, <2>3, GovernanceNumbers
<1>3. GovernanceTypeOK'
  BY <1>1, <1>2 DEF GovernanceTypeOK
<1>4. HistoriesStand'
  <2>1. \A e \in Electors : \A i \in 1 .. Len(checkpoints[e]) : checkpoints[e][i].at \in Nat
    <3>1. \A e \in Electors : \A i \in 1 .. Len(checkpoints[e]) : checkpoints[e][i] \in Checkpoint
      BY SeqFacts DEF HistoriesStand
    <3> QED
      BY <3>1 DEF Checkpoint
  <2>2. govTime \in Nat /\ govTime' \in Nat
    BY <1>2 DEF GovernanceTypeOK
  <2> QED
    BY <1>1, <1>2, <2>1, <2>2 DEF HistoriesStand
<1>5. \A p \in Proposals : Quorum(p)' = Quorum(p) /\ Majority(p)' = Majority(p)
  BY <1>1, CarriedByItsBallots
<1>6. QueuedHasCarried'
  BY <1>1, <1>5 DEF QueuedHasCarried, NotQueued
<1> QED
  BY <1>1, <1>3, <1>4, <1>6

LEMMA GovernanceStepKeeps ==
  ASSUME GovernanceIInv, [GovernanceNext]_governanceVars
  PROVE  GovernanceIInv'
<1>1. ASSUME NEW e \in Electors, NEW power \in Powers,
             RegisterElector(e, power) \/ UpdateElector(e, power)
      PROVE  GovernanceIInv'
  BY <1>1, SetPowerKeeps DEF RegisterElector, UpdateElector
<1>2. ASSUME NEW e \in Electors, RemoveElector(e) PROVE GovernanceIInv'
  BY <1>2, SetPowerKeeps DEF RemoveElector
<1>3. ASSUME NEW p \in Proposals, QueueProposal(p) \/ ExecuteProposal(p) \/ CancelProposal(p)
      PROVE  GovernanceIInv'
  BY <1>3, QueueKeeps, ExecuteKeeps, CancelKeeps
<1> QED
  BY <1>1, <1>2, <1>3, CreateKeeps, VoteKeeps, ClockKeeps DEF GovernanceNext

-----------------------------------------------------------------------------
\* For any electors, powers and proposals: the total that register_agent, update_agent and
\* remove_agent adjust by differences is the power of those registered and what the newest
\* checkpoints say, and whatever queue_proposal let wait or execute_proposal carried out had
\* its quorum and majority by its own votes and its own snapshot.
THEOREM GovernanceHolds == GovernanceSpec => []GovernanceInv
<1>1. GovernanceIInv => GovernanceInv
  BY PowerAtNow DEF GovernanceIInv, GovernanceInv, TotalPowerAddsUp
<1> QED
  BY <1>1, GovernanceStarts, GovernanceStepKeeps, PTL DEF GovernanceSpec

-----------------------------------------------------------------------------
USE UpgradeAssumption

UpgradeRecord == [status : {"none", "proposed", "pending_timelock"} \cup Terminal,
                  approvals : SUBSET Members, created : Nat, eta : Nat, validated : BOOLEAN]

\* What the contract stores, and that a rollback leads back to a version it has recorded.
UpgradeRecords ==
  /\ upgrade \in [Upgrades -> UpgradeRecord]
  /\ rollback \in [Upgrades -> [to : Versions, deadline : Nat, usable : BOOLEAN]]
  /\ swaps \in Seq(Upgrades \cup {"original"})
  /\ running \in Versions /\ versionIndex \subseteq {v.version : v \in Versions}
  /\ 0 \in versionIndex
  /\ \A u \in Upgrades : rollback[u].to.version \in versionIndex

UpgradeSettings ==
  /\ multisig \in Multisigs \cup {NoMultisig} /\ upgradeAdmin \in Members
  /\ upgradesPaused \in BOOLEAN /\ upgradeTime \in 0 .. UpgradeEnd

UpgradeIInv == UpgradeRecords /\ UpgradeSettings /\ SwapsAddUp

LEMMA UpgradeNumbers ==
  /\ DefaultDelay \in Nat /\ UpgradeExpiry \in Nat /\ RollbackWindow \in Nat /\ UpgradeEnd \in Nat
OBVIOUS

LEMMA VersionFacts ==
  /\ Original \in Versions /\ Original.version = 0 /\ Original.code = "original"
  /\ \A u \in Upgrades : [version |-> VersionOf[u], code |-> u] \in Versions
  /\ \A v \in Versions : v.version \in Nat /\ v.code \in Upgrades \cup {"original"}
BY DEF Versions, Original

LEMMA StatusFinite ==
  ASSUME NEW s
  PROVE  IsFiniteSet(Status(s)) /\ Cardinality(Status(s)) \in Nat
<1>1. Status(s) \subseteq Upgrades
  BY DEF Status
<1> QED
  BY <1>1, FS_Subset, FS_CardinalityType

LEMMA UpgradeTyped == UpgradeRecords /\ UpgradeSettings => UpgradeTypeOK
BY DEF UpgradeRecords, UpgradeSettings, UpgradeTypeOK, UpgradeRecord

LEMMA TimelockedTyped ==
  ASSUME UpgradeSettings, NEW r \in UpgradeRecord
  PROVE  /\ Timelocked(r) \in UpgradeRecord
         /\ Timelocked(r).status \in {r.status, "pending_timelock"}
<1>1. upgradeTime \in Nat /\ multisig.delay \in Nat
  BY UpgradeNumbers DEF UpgradeSettings, NoMultisig
<1>2. CASE r.eta = 0 /\ Cardinality(r.approvals) >= multisig.threshold
  <2>1. Timelocked(r) = [r EXCEPT !.eta = upgradeTime + multisig.delay, !.status = "pending_timelock"]
    BY <1>2 DEF Timelocked
  <2>2. upgradeTime + multisig.delay \in Nat
    BY <1>1
  <2> QED
    BY <2>1, <2>2 DEF UpgradeRecord
<1>3. CASE ~(r.eta = 0 /\ Cardinality(r.approvals) >= multisig.threshold)
  <2>1. Timelocked(r) = r
    BY <1>3 DEF Timelocked
  <2> QED
    BY <2>1
<1> QED
  BY <1>2, <1>3

-----------------------------------------------------------------------------
LEMMA UpgradeStarts == UpgradeInit => UpgradeIInv
<1> SUFFICES ASSUME UpgradeInit PROVE UpgradeIInv
  OBVIOUS
<1>1. UpgradeRecords
  <2>1. NoUpgrade \in UpgradeRecord
    BY DEF NoUpgrade, UpgradeRecord
  <2>2. NoRollback \in [to : Versions, deadline : Nat, usable : BOOLEAN]
        /\ NoRollback.to.version = 0
    BY VersionFacts DEF NoRollback
  <2>3. <<>> \in Seq(Upgrades \cup {"original"})
    BY EmptySeq
  <2>4. {0} \subseteq {v.version : v \in Versions}
    BY VersionFacts
  <2> QED
    BY <2>1, <2>2, <2>3, <2>4, VersionFacts DEF UpgradeInit, UpgradeRecords
<1>2. UpgradeSettings
  <2>1. upgradeTime \in 0 .. UpgradeEnd
    BY UpgradeNumbers DEF UpgradeInit
  <2>2. upgradesPaused \in BOOLEAN
    BY DEF UpgradeInit
  <2> QED
    BY <2>1, <2>2 DEF UpgradeInit, UpgradeSettings
<1>3. SwapsAddUp
  <2>1. Status("executed") = {} /\ Status("rolled_back") = {}
    BY DEF UpgradeInit, Status, NoUpgrade
  <2>2. swaps = <<>> /\ Len(swaps) = 0 /\ Cardinality({}) = 0
    BY EmptySeq, FS_EmptySet DEF UpgradeInit
  <2>3. running.version \in versionIndex
    BY VersionFacts DEF UpgradeInit
  <2>4. \A u \in Upgrades : rollback[u].usable <=> u \in Status("executed")
    BY <2>1 DEF UpgradeInit, NoRollback
  <2>5. Len(swaps) = Cardinality(Status("executed")) + 2 * Cardinality(Status("rolled_back"))
    <3>1. Cardinality(Status("executed")) = 0 /\ Cardinality(Status("rolled_back")) = 0 /\ Len(swaps) = 0
      BY <2>1, <2>2
    <3> QED
      BY <3>1
  <2> QED
    BY <2>2, <2>3, <2>4, <2>5 DEF SwapsAddUp
<1> QED
  BY <1>1, <1>2, <1>3 DEF UpgradeIInv

\* Steps that execute nothing and roll nothing back.
LEMMA NothingSwapped ==
  ASSUME UpgradeIInv, KeepsRunning, UpgradeSettings',
         upgrade' \in [Upgrades -> UpgradeRecord],
         \A u \in Upgrades : \A s \in {"executed", "rolled_back"} :
           upgrade'[u].status = s <=> upgrade[u].status = s
  PROVE  UpgradeIInv'
<1>1. Status("executed")' = Status("executed") /\ Status("rolled_back")' = Status("rolled_back")
  BY DEF Status
<1>2. UNCHANGED <<rollback, running, swaps, versionIndex>>
  BY DEF KeepsRunning
<1>3. UpgradeRecords'
  BY <1>2 DEF UpgradeIInv, UpgradeRecords
<1>4. SwapsAddUp'
  BY <1>1, <1>2 DEF UpgradeIInv, SwapsAddUp
<1> QED
  BY <1>3, <1>4 DEF UpgradeIInv

LEMMA OneProposalChanges ==
  ASSUME UpgradeIInv, NEW u \in Upgrades, NEW r \in UpgradeRecord, Fixed, KeepsRunning,
         upgrade' = [upgrade EXCEPT ![u] = r],
         \A s \in {"executed", "rolled_back"} : r.status = s <=> upgrade[u].status = s
  PROVE  UpgradeIInv'
<1>1. upgrade \in [Upgrades -> UpgradeRecord] /\ UpgradeSettings
  BY DEF UpgradeIInv, UpgradeRecords
<1>2. upgrade' \in [Upgrades -> UpgradeRecord]
  BY <1>1
<1>3. UpgradeSettings'
  BY <1>1 DEF Fixed, UpgradeSettings, NoMultisig
<1>4. \A x \in Upgrades : \A s \in {"executed", "rolled_back"} :
        upgrade'[x].status = s <=> upgrade[x].status = s
  BY <1>1
<1> QED
  BY <1>2, <1>3, <1>4, NothingSwapped

LEMMA ProposeKeeps ==
  ASSUME UpgradeIInv, NEW m \in Members, NEW u \in Upgrades, ProposeUpgrade(m, u)
  PROVE  UpgradeIInv'
<1> DEFINE r == [NoUpgrade EXCEPT !.status = "proposed", !.approvals = {m}, !.created = upgradeTime]
<1>1. r \in UpgradeRecord /\ r.status = "proposed"
  <2>1. upgradeTime \in Nat
    BY UpgradeNumbers DEF UpgradeIInv, UpgradeSettings
  <2> QED
    BY <2>1 DEF UpgradeRecord, NoUpgrade
<1>2. upgrade' = [upgrade EXCEPT ![u] = Timelocked(r)] /\ Fixed /\ KeepsRunning
      /\ upgrade[u].status = "none"
  BY DEF ProposeUpgrade
<1> HIDE DEF r
<1>3. Timelocked(r) \in UpgradeRecord /\ Timelocked(r).status \in {"proposed", "pending_timelock"}
  BY <1>1, TimelockedTyped DEF UpgradeIInv
<1> QED
  BY <1>2, <1>3, OneProposalChanges

LEMMA ApproveKeeps ==
  ASSUME UpgradeIInv, NEW m \in Members, NEW u \in Upgrades, ApproveUpgrade(m, u)
  PROVE  UpgradeIInv'
<1> DEFINE r == [upgrade[u] EXCEPT !.approvals = @ \cup {m}]
<1>1. upgrade[u] \in UpgradeRecord
  BY DEF UpgradeIInv, UpgradeRecords
<1>2. r \in UpgradeRecord /\ r.status = upgrade[u].status
  BY <1>1 DEF UpgradeRecord
<1>3. upgrade' = [upgrade EXCEPT ![u] = Timelocked(r)] /\ Fixed /\ KeepsRunning
      /\ upgrade[u].status \notin {"none", "executed", "rolled_back"}
  BY DEF ApproveUpgrade
<1> HIDE DEF r
<1>4. Timelocked(r) \in UpgradeRecord /\ Timelocked(r).status \in {upgrade[u].status, "pending_timelock"}
  BY <1>2, TimelockedTyped DEF UpgradeIInv
<1> QED
  BY <1>3, <1>4, OneProposalChanges

LEMMA ValidateKeeps ==
  ASSUME UpgradeIInv, NEW m \in Members, NEW u \in Upgrades, ValidateProposal(m, u)
  PROVE  UpgradeIInv'
<1> DEFINE r == [upgrade[u] EXCEPT !.validated = TRUE]
<1>1. upgrade[u] \in UpgradeRecord
  BY DEF UpgradeIInv, UpgradeRecords
<1>2. r \in UpgradeRecord /\ r.status = upgrade[u].status
  BY <1>1 DEF UpgradeRecord
<1>3. upgrade' = [upgrade EXCEPT ![u] = r] /\ Fixed /\ KeepsRunning
  BY DEF ValidateProposal
<1> HIDE DEF r
<1> QED
  BY <1>2, <1>3, OneProposalChanges

LEMMA SweepKeeps ==
  ASSUME UpgradeIInv, NEW m \in Members, SweepExpiredProposals(m)
  PROVE  UpgradeIInv'
<1> DEFINE late == {u \in Upgrades : /\ upgrade[u].status \in {"proposed", "pending_timelock"}
                                     /\ upgradeTime > ExpiresAt(u)}
<1>1. upgrade \in [Upgrades -> UpgradeRecord] /\ UpgradeSettings
  BY DEF UpgradeIInv, UpgradeRecords
<1>2. /\ upgrade' = [u \in Upgrades |-> IF u \in late THEN [upgrade[u] EXCEPT !.status = "expired"]
                                        ELSE upgrade[u]]
      /\ Fixed /\ KeepsRunning
  BY DEF SweepExpiredProposals
<1>3. \A u \in late : upgrade[u].status \in {"proposed", "pending_timelock"}
  OBVIOUS
<1> HIDE DEF late
<1>4. \A u \in Upgrades : [upgrade[u] EXCEPT !.status = "expired"] \in UpgradeRecord
                          /\ [upgrade[u] EXCEPT !.status = "expired"].status = "expired"
  BY <1>1 DEF UpgradeRecord, Terminal
<1>5. upgrade' \in [Upgrades -> UpgradeRecord]
  BY <1>1, <1>2, <1>4
<1>6. \A x \in Upgrades : \A s \in {"executed", "rolled_back"} :
        upgrade'[x].status = s <=> upgrade[x].status = s
  BY <1>2, <1>3, <1>4
<1>7. UpgradeSettings'
  BY <1>1, <1>2 DEF Fixed, UpgradeSettings, NoMultisig
<1> QED
  BY <1>2, <1>5, <1>6, <1>7, NothingSwapped

\* A swap of the code records one more.
LEMMA SwapAppended ==
  ASSUME UpgradeRecords, NEW next \in Upgrades \cup {"original"}, swaps' = Append(swaps, next)
  PROVE  /\ swaps' \in Seq(Upgrades \cup {"original"})
         /\ Len(swaps') = Len(swaps) + 1 /\ Len(swaps) \in Nat
         /\ swaps'[Len(swaps')] = next
BY AppendProperties, LenProperties DEF UpgradeRecords

LEMMA ExecuteUpgradeKeeps ==
  ASSUME UpgradeIInv, NEW m \in Members, NEW u \in Upgrades, ExecuteUpgrade(m, u)
  PROVE  UpgradeIInv'
<1> DEFINE new == [version |-> VersionOf[u], code |-> u]
           back == [to |-> running, deadline |-> upgradeTime + RollbackWindow, usable |-> TRUE]
<1>1. /\ upgrade \in [Upgrades -> UpgradeRecord] /\ running \in Versions
      /\ running.version \in versionIndex /\ UpgradeRecords /\ UpgradeSettings
      /\ rollback \in [Upgrades -> [to : Versions, deadline : Nat, usable : BOOLEAN]]
  BY DEF UpgradeIInv, UpgradeRecords, SwapsAddUp
<1>2. /\ running' = new /\ swaps' = Append(swaps, u)
      /\ versionIndex' = versionIndex \cup {VersionOf[u]}
      /\ rollback' = [rollback EXCEPT ![u] = back]
      /\ upgrade' = [upgrade EXCEPT ![u].status = "executed"] /\ Fixed
  BY DEF ExecuteUpgrade
<1>3. upgrade[u].status \notin Terminal
  BY DEF ExecuteUpgrade, EffectiveStatus, Terminal
<1>4. new \in Versions /\ new.version = VersionOf[u] /\ new.code = u
  BY VersionFacts
<1>5. back \in [to : Versions, deadline : Nat, usable : BOOLEAN] /\ back.usable /\ back.to = running
  BY <1>1, UpgradeNumbers DEF UpgradeSettings
<1> HIDE DEF new, back
<1>6. /\ upgrade' \in [Upgrades -> UpgradeRecord] /\ upgrade'[u].status = "executed"
      /\ \A x \in Upgrades : x # u => upgrade'[x] = upgrade[x]
  BY <1>1, <1>2 DEF UpgradeRecord, Terminal
<1>7. /\ rollback' \in [Upgrades -> [to : Versions, deadline : Nat, usable : BOOLEAN]]
      /\ rollback'[u] = back /\ \A x \in Upgrades : x # u => rollback'[x] = rollback[x]
  BY <1>1, <1>2, <1>5
<1>8. UpgradeRecords'
  <2>1. swaps' \in Seq(Upgrades \cup {"original"})
    BY <1>1, <1>2, SwapAppended
  <2>2. versionIndex' \subseteq {v.version : v \in Versions} /\ 0 \in versionIndex'
    BY <1>1, <1>2, <1>4 DEF UpgradeRecords
  <2>3. \A x \in Upgrades : rollback'[x].to.version \in versionIndex'
    BY <1>1, <1>2, <1>5, <1>7 DEF UpgradeRecords
  <2> QED
    BY <1>2, <1>4, <1>6, <1>7, <2>1, <2>2, <2>3 DEF UpgradeRecords
<1>9. UpgradeSettings'
  BY <1>1, <1>2 DEF Fixed, UpgradeSettings, NoMultisig
<1>10. SwapsAddUp'
  <2>1. /\ Status("executed")' = Status("executed") \cup {u} /\ u \notin Status("executed")
        /\ Status("rolled_back")' = Status("rolled_back")
    BY <1>3, <1>6 DEF Status, Terminal
  <2>2. Cardinality(Status("executed")') = Cardinality(Status("executed")) + 1
    BY <2>1, StatusFinite, FS_AddElement
  <2>3. /\ Len(swaps') = Len(swaps) + 1 /\ swaps'[Len(swaps')] = u /\ Len(swaps) \in Nat
    BY <1>1, <1>2, SwapAppended
  <2>4. Len(swaps') = Cardinality(Status("executed")') + 2 * Cardinality(Status("rolled_back")')
    BY <2>1, <2>2, <2>3, StatusFinite DEF UpgradeIInv, SwapsAddUp
  <2>5. \A x \in Upgrades : rollback'[x].usable <=> x \in Status("executed")'
    BY <1>5, <1>7, <2>1 DEF UpgradeIInv, SwapsAddUp
  <2> QED
    BY <1>2, <1>4, <2>3, <2>4, <2>5 DEF SwapsAddUp
<1> QED
  BY <1>8, <1>9, <1>10 DEF UpgradeIInv

LEMMA RollbackKeeps ==
  ASSUME UpgradeIInv, NEW m \in Members, NEW u \in Upgrades, RollbackUpgrade(m, u)
  PROVE  UpgradeIInv'
<1>1. /\ upgrade \in [Upgrades -> UpgradeRecord] /\ UpgradeRecords /\ UpgradeSettings
      /\ rollback \in [Upgrades -> [to : Versions, deadline : Nat, usable : BOOLEAN]]
      /\ rollback[u].to \in Versions /\ rollback[u].to.version \in versionIndex
      /\ 0 \in versionIndex
  BY DEF UpgradeIInv, UpgradeRecords
<1>2. /\ running' = rollback[u].to /\ swaps' = Append(swaps, rollback[u].to.code)
      /\ rollback' = [rollback EXCEPT ![u] = NoRollback]
      /\ upgrade' = [upgrade EXCEPT ![u].status = "rolled_back"]
      /\ upgrade[u].status = "executed" /\ versionIndex' = versionIndex /\ Fixed
  BY DEF RollbackUpgrade
<1>3. rollback[u].to.code \in Upgrades \cup {"original"}
  BY <1>1, VersionFacts
<1>4. NoRollback \in [to : Versions, deadline : Nat, usable : BOOLEAN]
      /\ NoRollback.to.version = 0 /\ ~NoRollback.usable
  BY VersionFacts DEF NoRollback
<1>5. /\ upgrade' \in [Upgrades -> UpgradeRecord] /\ upgrade'[u].status = "rolled_back"
      /\ \A x \in Upgrades : x # u => upgrade'[x] = upgrade[x]
  BY <1>1, <1>2 DEF UpgradeRecord, Terminal
<1>6. /\ rollback' \in [Upgrades -> [to : Versions, deadline : Nat, usable : BOOLEAN]]
      /\ rollback'[u] = NoRollback /\ \A x \in Upgrades : x # u => rollback'[x] = rollback[x]
  BY <1>1, <1>2, <1>4
<1>7. UpgradeRecords'
  <2>1. swaps' \in Seq(Upgrades \cup {"original"})
    BY <1>1, <1>2, <1>3, SwapAppended
  <2>2. \A x \in Upgrades : rollback'[x].to.version \in versionIndex
    BY <1>1, <1>4, <1>6 DEF UpgradeRecords
  <2> QED
    BY <1>1, <1>2, <1>5, <1>6, <2>1, <2>2 DEF UpgradeRecords
<1>8. UpgradeSettings'
  BY <1>1, <1>2 DEF Fixed, UpgradeSettings, NoMultisig
<1>9. SwapsAddUp'
  <2>1. /\ Status("executed")' = Status("executed") \ {u} /\ u \in Status("executed")
        /\ Status("rolled_back")' = Status("rolled_back") \cup {u} /\ u \notin Status("rolled_back")
    BY <1>2, <1>5 DEF Status
  <2>2. Cardinality(Status("executed")') = Cardinality(Status("executed")) - 1
    BY <2>1, StatusFinite, FS_RemoveElement
  <2>3. Cardinality(Status("rolled_back")') = Cardinality(Status("rolled_back")) + 1
    BY <2>1, StatusFinite, FS_AddElement
  <2>4. /\ Len(swaps') = Len(swaps) + 1 /\ swaps'[Len(swaps')] = rollback[u].to.code /\ Len(swaps) \in Nat
    BY <1>1, <1>2, <1>3, SwapAppended
  <2>5. Len(swaps') = Cardinality(Status("executed")') + 2 * Cardinality(Status("rolled_back")')
    <3>1. Len(swaps) = Cardinality(Status("executed")) + 2 * Cardinality(Status("rolled_back"))
      BY DEF UpgradeIInv, SwapsAddUp
    <3>2. Cardinality(Status("executed")) \in Nat /\ Cardinality(Status("rolled_back")) \in Nat
      BY StatusFinite
    <3> QED
      BY ONLY <2>2, <2>3, <2>4, <3>1, <3>2
  <2>6. \A x \in Upgrades : rollback'[x].usable <=> x \in Status("executed")'
    BY <1>4, <1>6, <2>1 DEF UpgradeIInv, SwapsAddUp
  <2> QED
    BY <1>1, <1>2, <2>4, <2>5, <2>6 DEF SwapsAddUp
<1> QED
  BY <1>7, <1>8, <1>9 DEF UpgradeIInv

\* The admin's settings, the pause and time.
LEMMA SettingsKeep ==
  ASSUME UpgradeIInv,
         \/ \E m \in Members : SetUpgradeAdmin(m)
         \/ \E config \in Multisigs : SetUpgradeMultisig(config)
         \/ PauseUpgrades \/ UpgradeTick \/ UNCHANGED upgradeVars
  PROVE  UpgradeIInv'
<1>1. UNCHANGED upgrade /\ KeepsRunning
  BY DEF SetUpgradeAdmin, SetUpgradeMultisig, PauseUpgrades, UpgradeTick, KeepsRunning, upgradeVars
<1>2. upgrade' \in [Upgrades -> UpgradeRecord]
  BY <1>1 DEF UpgradeIInv, UpgradeRecords
<1>3. UpgradeSettings'
  <2>1. /\ multisig \in Multisigs \cup {NoMultisig} /\ upgradeAdmin \in Members
        /\ upgradesPaused \in BOOLEAN /\ upgradeTime \in 0 .. UpgradeEnd
    BY DEF UpgradeIInv, UpgradeSettings
  <2>2. multisig' \in Multisigs \cup {NoMultisig} /\ upgradeAdmin' \in Members
    BY <2>1 DEF SetUpgradeAdmin, SetUpgradeMultisig, PauseUpgrades, UpgradeTick, upgradeVars
  <2>3. upgradesPaused' \in BOOLEAN
    BY <2>1 DEF SetUpgradeAdmin, SetUpgradeMultisig, PauseUpgrades, UpgradeTick, upgradeVars
  <2>4. upgradeTime' = upgradeTime \/ (upgradeTime < UpgradeEnd /\ upgradeTime' = upgradeTime + 1)
    BY DEF SetUpgradeAdmin, SetUpgradeMultisig, PauseUpgrades, UpgradeTick, upgradeVars
  <2>5. upgradeTime' \in 0 .. UpgradeEnd
    BY <2>1, <2>4, UpgradeNumbers
  <2> QED
    BY <2>2, <2>3, <2>5 DEF UpgradeSettings, NoMultisig
<1>4. \A x \in Upgrades : \A s \in {"executed", "rolled_back"} :
        upgrade'[x].status = s <=> upgrade[x].status = s
  BY <1>1
<1> QED
  BY <1>1, <1>2, <1>3, <1>4, NothingSwapped

LEMMA UpgradeStepKeeps ==
  ASSUME UpgradeIInv, [UpgradeNext]_upgradeVars
  PROVE  UpgradeIInv'
<1>1. ASSUME NEW m \in Members, NEW u \in Upgrades,
             \/ ProposeUpgrade(m, u) \/ ApproveUpgrade(m, u) \/ ValidateProposal(m, u)
             \/ ExecuteUpgrade(m, u) \/ RollbackUpgrade(m, u)
      PROVE  UpgradeIInv'
  BY <1>1, ProposeKeeps, ApproveKeeps, ValidateKeeps, ExecuteUpgradeKeeps, RollbackKeeps
<1> QED
  BY <1>1, SweepKeeps, SettingsKeep DEF UpgradeNext

-----------------------------------------------------------------------------
\* For any members and proposals: every swap of the code is one execute_upgrade or one
\* rollback_upgrade of one proposal, none twice, what runs is what was swapped in last, at a
\* version the contract has recorded.
THEOREM UpgradesHold == UpgradeSpec => []UpgradeInv
<1>1. UpgradeIInv => UpgradeInv
  BY UpgradeTyped DEF UpgradeIInv, UpgradeInv
<1> QED
  BY <1>1, UpgradeStarts, UpgradeStepKeeps, PTL DEF UpgradeSpec
=============================================================================
