------------------------ MODULE TaskExecutionProofs -------------------------
(***************************************************************************)
(* Proofs about the execution of a task by the coordinator: for any DAG, any*)
(* number of processes and of attempts, as long as no node waits for a slot.*)
(***************************************************************************)
EXTENDS TaskExecution, DataTheorems

LEMMA NodesAre == NodeCount \in Nat /\ IsFiniteSet(Nodes) /\ Cardinality(Nodes) = NodeCount
<1>1. NodeCount \in Nat \ {0}
  BY ExecutionAssumption
<1> QED
  BY <1>1, FS_Interval DEF Nodes

LEMMA NodeSets ==
  ASSUME NEW S \in SUBSET Nodes
  PROVE  IsFiniteSet(S) /\ Cardinality(S) \in Nat
<1>1. IsFiniteSet(S)
  BY NodesAre, FS_Subset
<1> QED
  BY <1>1, FS_CardinalityType

\* Two sets of nodes that have none in common count as much as their union.
LEMMA CountsApart ==
  ASSUME NEW S \in SUBSET Nodes, NEW T \in SUBSET Nodes, S \cap T = {}
  PROVE  Cardinality(S \cup T) = Cardinality(S) + Cardinality(T)
<1>1. IsFiniteSet(S) /\ IsFiniteSet(T) /\ Cardinality(S) \in Nat /\ Cardinality(T) \in Nat
  BY NodeSets
<1>2. Cardinality(S \cup T) = Cardinality(S) + Cardinality(T) - Cardinality(S \cap T)
  BY <1>1, FS_Union
<1>3. Cardinality(S \cap T) = 0
  BY FS_EmptySet
<1> QED
  BY <1>1, <1>2, <1>3

Increasing(s) == \A i, j \in DOMAIN s : i < j => s[i] < s[j]

\* The nodes of a set can be listed in the order of the array.
LEMMA InOrderExists ==
  \A S \in SUBSET Nodes : \E s \in [1 .. Cardinality(S) -> S] : Increasing(s)
<1> DEFINE G == {S \in SUBSET Nodes : \E s \in [1 .. Cardinality(S) -> S] : Increasing(s)}
<1>1. ASSUME NEW S \in SUBSET Nodes, \A U \in SUBSET S : U # S => U \in G
      PROVE  S \in G
  <2>0. PICK c \in Nat : c = Cardinality(S)
    BY NodeSets
  <2>1. CASE S = {}
    <3>1. c = 0
      BY <2>0, <2>1, FS_EmptySet
    <3>2. [i \in 1 .. c |-> 0] \in [1 .. c -> S] /\ Increasing([i \in 1 .. c |-> 0])
      BY <3>1 DEF Increasing
    <3> QED
      BY <2>0, <3>2
  <2>2. CASE S # {}
    <3>1. \E m \in S : \A n \in S : n <= m
      BY <2>2, NodesAre, GreatestExists DEF Nodes
    <3>2. PICK m \in S : \A n \in S : n <= m
      BY <3>1
    <3>3. IsFiniteSet(S)
      BY NodeSets
    <3>4. Cardinality(S \ {m}) = c - 1
      BY <2>0, <3>3, FS_RemoveElement
    <3>5. c - 1 \in Nat
      BY <3>4, NodeSets
    <3>6. S \ {m} \in G
      BY <1>1
    <3>7. PICK t \in [1 .. c - 1 -> S \ {m}] : Increasing(t)
      BY <3>4, <3>6
    <3> DEFINE s == [i \in 1 .. c |-> IF i <= c - 1 THEN t[i] ELSE m]
    <3>8. S \subseteq Nat
      BY DEF Nodes
    <3>9. \A i \in 1 .. c - 1 : t[i] \in S /\ t[i] < m
      <4>1. \A n \in S : n # m => n < m
        BY <3>2, <3>8
      <4>2. \A i \in 1 .. c - 1 : t[i] \in S /\ t[i] # m
        BY <3>7
      <4> QED
        BY <4>1, <4>2
    <3>10. s \in [1 .. c -> S]
      BY <3>5, <3>9
    <3>11. Increasing(s)
      <4>1. \A i, j \in 1 .. c - 1 : i < j => t[i] < t[j]
        BY <3>7 DEF Increasing
      <4> SUFFICES ASSUME NEW i \in 1 .. c, NEW j \in 1 .. c, i < j PROVE s[i] < s[j]
        BY DEF Increasing
      <4>2. i \in 1 .. c - 1
        BY <3>5
      <4>3. CASE j <= c - 1
        BY <3>5, <4>1, <4>2, <4>3
      <4>4. CASE ~(j <= c - 1)
        BY <3>9, <4>2, <4>4
      <4> QED
        BY <4>3, <4>4
    <3> QED
      BY <2>0, <3>10, <3>11
  <2> QED
    BY <2>1, <2>2
<1>2. \A S \in SUBSET Nodes : S \in G
  <2> HIDE DEF G
  <2> QED
    BY <1>1, NodesAre, SubsetInduction
<1> QED
  BY <1>2

\* What the listing of a set has: all of it, once.
LEMMA InOrderLists ==
  ASSUME NEW S \in SUBSET Nodes
  PROVE  /\ InOrder(S) \in [1 .. Cardinality(S) -> S]
         /\ {InOrder(S)[i] : i \in 1 .. Cardinality(S)} = S
<1>0. PICK c \in Nat : c = Cardinality(S)
  BY NodeSets
<1>1. \E s \in [1 .. c -> S] : \A i, j \in DOMAIN s : i < j => s[i] < s[j]
  BY <1>0, InOrderExists DEF Increasing
<1>2. PICK s \in [1 .. c -> S] : s = InOrder(S) /\ \A i, j \in DOMAIN s : i < j => s[i] < s[j]
  BY <1>0, <1>1 DEF InOrder
<1>3. S \subseteq Nat
  BY DEF Nodes
<1>4. s \in Injection(1 .. c, S)
  <2>1. \A i, j \in 1 .. c : i < j => s[i] # s[j]
    <3> SUFFICES ASSUME NEW i \in 1 .. c, NEW j \in 1 .. c, i < j PROVE s[i] # s[j]
      OBVIOUS
    <3>1. s[i] \in Nat /\ s[j] \in Nat
      BY <1>3
    <3>2. s[i] < s[j]
      BY <1>2
    <3> QED
      BY <3>1, <3>2
  <2>2. \A i, j \in 1 .. c : s[i] = s[j] => i = j
    BY <2>1
  <2> QED
    BY <2>2, <1>2 DEF Injection, IsInjective
<1>5. s \in Surjection(1 .. c, S)
  <2>1. IsFiniteSet(S)
    BY NodeSets
  <2>2. Cardinality(1 .. c) = c
    BY FS_Interval
  <2> QED
    BY <1>0, <1>4, <2>1, <2>2, FS_Injection
<1>6. {s[i] : i \in 1 .. c} = S
  BY <1>5 DEF Surjection
<1> QED
  BY <1>0, <1>2, <1>6

\* The nodes that fall in one pass over the array: each for what has failed before it.
IsBlocked(r, deadlocked, B) ==
  \A n \in Nodes : n \in B <=>
    r.status[n] = "pending" /\ Blocks(r, deadlocked, r.failed \cup {m \in B : m < n}, n)

LEMMA BlockedExists ==
  ASSUME NEW r, NEW deadlocked
  PROVE  \E B \in SUBSET Nodes : IsBlocked(r, deadlocked, B)
<1> DEFINE Falls(B, n) ==
      r.status[n] = "pending" /\ Blocks(r, deadlocked, r.failed \cup {m \in B : m < n}, n)
<1> DEFINE G == {k \in Nat : k <= NodeCount =>
      \E B \in SUBSET (1 .. k) : \A n \in 1 .. k : n \in B <=> Falls(B, n)}
<1> HIDE DEF Falls
<1>1. 0 \in G
  <2>1. 1 .. 0 = {}
    OBVIOUS
  <2> QED
    BY <2>1
<1>2. ASSUME NEW k \in Nat, k \in G PROVE k + 1 \in G
  <2> SUFFICES ASSUME k + 1 <= NodeCount
               PROVE  \E B \in SUBSET (1 .. k + 1) : \A n \in 1 .. k + 1 : n \in B <=> Falls(B, n)
    OBVIOUS
  <2>1. PICK B \in SUBSET (1 .. k) : \A n \in 1 .. k : n \in B <=> Falls(B, n)
    BY <1>2, NodesAre
  <2> DEFINE C == IF Falls(B, k + 1) THEN B \cup {k + 1} ELSE B
  <2>2. \A n \in 1 .. k + 1 : {m \in C : m < n} = {m \in B : m < n}
    OBVIOUS
  <2>3. \A n \in 1 .. k + 1 : Falls(C, n) <=> Falls(B, n)
    <3> HIDE DEF C
    <3> QED
      BY <2>2 DEF Falls
  <2>4. C \in SUBSET (1 .. k + 1)
    OBVIOUS
  <2>5. \A n \in 1 .. k + 1 : n \in C <=> Falls(B, n)
    BY <2>1
  <2> HIDE DEF C
  <2> QED
    BY <2>3, <2>4, <2>5
<1>3. NodeCount \in G
  <2> HIDE DEF G
  <2> QED
    BY <1>1, <1>2, NodesAre, NatSetInduction
<1> QED
  BY <1>3, NodesAre DEF IsBlocked, Nodes, Falls

LEMMA BlockedIs ==
  ASSUME NEW r, NEW deadlocked
  PROVE  \E B \in SUBSET Nodes :
           /\ IsBlocked(r, deadlocked, B)
           /\ FailBlocked(r, deadlocked)
                = [r EXCEPT !.status = [n \in Nodes |-> IF n \in B THEN "blocked" ELSE r.status[n]],
                            !.failed = r.failed \cup B]
<1> DEFINE B == CHOOSE B \in SUBSET Nodes : IsBlocked(r, deadlocked, B)
<1>1. B \in SUBSET Nodes /\ IsBlocked(r, deadlocked, B)
  BY BlockedExists
<1>2. FailBlocked(r, deadlocked)
        = [r EXCEPT !.status = [n \in Nodes |-> IF n \in B THEN "blocked" ELSE r.status[n]],
                    !.failed = r.failed \cup B]
  BY DEF FailBlocked, IsBlocked
<1> QED
  BY <1>1, <1>2

-----------------------------------------------------------------------------
-----------------------------------------------------------------------------
(***************************************************************************)
(* The scheduler, while no node has to wait for a slot.                    *)
(***************************************************************************)

\* The nodes that cannot come in any more within a run.
Lost == {"failed", "blocked", "cancelled"}

RunRecord == [stage : Stages, host : Hosts \cup {NoHost}, status : [Nodes -> NodeStatuses],
              completed : SUBSET Nodes, failed : SUBSET Nodes, waiting : {<<>>},
              working : SUBSET Nodes, paying : SUBSET Nodes,
              aborted : BOOLEAN, payFault : BOOLEAN]

\* Lost, not in the DAG, or left running by an attempt that died: this run will not see it come in.
Gone(r, d) == d \notin Nodes \/ r.status[d] \in Lost \/ (r.status[d] = "running" /\ d \notin r.working)

\* What a run between two awaits knows of its nodes.
Sound(r) ==
  /\ \A n \in r.working : r.status[n] = "running" /\ Deps[n] \subseteq r.completed
  /\ \A n \in r.paying : n \notin r.completed /\ Deps[n] \subseteq r.completed
  /\ \A n \in Nodes : r.status[n] = "completed" <=> n \in r.completed \cup r.paying
  /\ \A n \in r.failed : r.status[n] \in Lost
  /\ \A n \in Nodes : r.status[n] = "blocked" => \E d \in Deps[n] : Gone(r, d)

\* What the scheduler leaves of a run: it settles only nodes that are still pending.
Follows(r, q) ==
  /\ q.stage = r.stage /\ q.host = r.host /\ q.aborted = r.aborted /\ q.payFault = r.payFault
  /\ q.completed = r.completed /\ q.paying = r.paying
  /\ \A n \in Nodes : q.status[n] = r.status[n] \/ (r.status[n] = "pending" /\ q.status[n] # "completed")

Keeps(r, q) == q \in RunRecord /\ Sound(q) /\ Follows(r, q)

LEMMA KeepsIsTransitive ==
  ASSUME NEW r, NEW q, NEW p, Keeps(r, q), Keeps(q, p)
  PROVE  Keeps(r, p)
BY DEF Keeps, Follows

LEMMA KeepsItself ==
  ASSUME NEW r \in RunRecord, Sound(r)
  PROVE  Keeps(r, r)
BY DEF Keeps, Follows

\* The nodes that work, are being paid or could start stand side by side.
LEMMA SideBySide ==
  ASSUME LimitSuffices, NEW r \in RunRecord, Sound(r),
         NEW R \in SUBSET Nodes, \A n \in R : r.status[n] = "pending" /\ Deps[n] \subseteq r.completed
  PROVE  /\ Cardinality(R) \in Nat /\ Cardinality(Active(r)) \in Nat
         /\ Cardinality(Active(r)) + Cardinality(R) <= Concurrency
<1>1. r.working \subseteq Nodes /\ r.paying \subseteq Nodes /\ r.completed \subseteq Nodes
  BY DEF RunRecord
<1>2. Active(r) \in SUBSET Nodes
  BY <1>1 DEF Active
<1>3. \A n \in R : n \notin r.working /\ n \notin r.paying /\ n \notin r.completed
  BY DEF Sound
<1>4. \A n \in Active(r) : n \notin r.completed /\ Deps[n] \subseteq r.completed
  BY <1>1 DEF Active, Sound
<1>5. Cardinality(Active(r) \cup R) <= Concurrency
  <2>1. \A m, n \in Active(r) \cup R : m \notin Deps[n]
    BY <1>3, <1>4
  <2>2. Active(r) \cup R \in SUBSET Nodes
    BY <1>2
  <2> QED
    BY <2>1, <2>2 DEF LimitSuffices
<1>6. Active(r) \cap R = {}
  BY <1>3 DEF Active
<1>7. Cardinality(Active(r) \cup R) = Cardinality(Active(r)) + Cardinality(R)
  BY <1>2, <1>6, CountsApart
<1> QED
  BY <1>2, <1>5, <1>7, NodeSets

\* A listing of a set of nodes, as a sequence.
LEMMA ListingIs ==
  ASSUME NEW R \in SUBSET Nodes
  PROVE  /\ InOrder(R) \in Seq(Nodes) /\ Len(InOrder(R)) = Cardinality(R)
         /\ <<>> \o InOrder(R) = InOrder(R)
         /\ SubSeq(InOrder(R), Cardinality(R) + 1, Cardinality(R)) = <<>>
<1>0. PICK c \in Nat : c = Cardinality(R)
  BY NodeSets
<1>1. PICK s \in [1 .. c -> Nodes] : s = InOrder(R)
  BY <1>0, InOrderLists
<1>2. s \in Seq(Nodes) /\ Len(s) = c
  BY <1>1, IsASeq
<1>3. <<>> \o s = s
  BY <1>2, ConcatEmptySeq
<1>4. SubSeq(s, c + 1, c) = <<>>
  <2>1. \A i \in c + 1 .. c : s[i] \in Nodes
    OBVIOUS
  <2>2. SubSeq(s, c + 1, c) \in Seq(Nodes) /\ Len(SubSeq(s, c + 1, c)) = 0
    BY <2>1, SubSeqProperties
  <2> QED
    BY <2>2, EmptySeq
<1> QED
  BY <1>0, <1>1, <1>2, <1>3, <1>4

\* Nodes that are ready start all at once.
LEMMA AdmitStarts ==
  ASSUME LimitSuffices, NEW r \in RunRecord, Sound(r),
         NEW R \in SUBSET Nodes, \A n \in R : r.status[n] = "pending" /\ Deps[n] \subseteq r.completed
  PROVE  Admit([r EXCEPT !.waiting = InOrder(R)])
           = [r EXCEPT !.working = r.working \cup R,
                       !.status = [n \in Nodes |-> IF n \in R THEN "running" ELSE r.status[n]]]
<1>1. PICK s, c : s = InOrder(R) /\ c = Cardinality(R)
  OBVIOUS
<1>2. PICK a \in Nat : a = Cardinality(Active(r))
  BY SideBySide
<1>3. c \in Nat /\ a + c <= Concurrency /\ Concurrency \in Nat
  BY <1>1, <1>2, SideBySide, ExecutionAssumption
<1>4. PICK w : w = [r EXCEPT !.waiting = s]
  OBVIOUS
<1>5. /\ w.waiting = s /\ w.working = r.working /\ w.paying = r.paying /\ w.status = r.status
      /\ Active(w) = Active(r)
  BY <1>4 DEF RunRecord, Active
<1>6. Len(s) = c /\ SubSeq(s, c + 1, c) = <<>> /\ {s[i] : i \in 1 .. c} = R
  BY <1>1, ListingIs, InOrderLists
<1>7. (IF Len(w.waiting) < Concurrency - Cardinality(Active(w)) THEN Len(w.waiting)
       ELSE Concurrency - Cardinality(Active(w))) = c
  BY <1>2, <1>3, <1>5, <1>6
<1>8. PICK U, v : U = {w.waiting[i] : i \in 1 .. c} /\ v = SubSeq(w.waiting, c + 1, Len(w.waiting))
  OBVIOUS
<1>11. Admit(w) = [w EXCEPT !.waiting = v, !.working = w.working \cup U,
                            !.status  = [n \in Nodes |-> IF n \in U THEN "running" ELSE w.status[n]]]
  BY <1>7, <1>8 DEF Admit
<1>12. U = R /\ v = <<>>
  BY <1>5, <1>6, <1>8
<1>9. Admit(w) = [w EXCEPT !.waiting = <<>>, !.working = r.working \cup R,
                           !.status = [n \in Nodes |-> IF n \in R THEN "running" ELSE r.status[n]]]
  BY <1>5, <1>11, <1>12
<1>10. r.waiting = <<>>
  BY DEF RunRecord
<1> QED
  BY <1>1, <1>4, <1>9, <1>10 DEF RunRecord

-----------------------------------------------------------------------------
LEMMA RunFields ==
  ASSUME NEW r \in RunRecord
  PROVE  /\ r.stage \in Stages /\ r.host \in Hosts \cup {NoHost} /\ r.status \in [Nodes -> NodeStatuses]
         /\ r.completed \in SUBSET Nodes /\ r.failed \in SUBSET Nodes /\ r.waiting = <<>>
         /\ r.working \in SUBSET Nodes /\ r.paying \in SUBSET Nodes
         /\ r.aborted \in BOOLEAN /\ r.payFault \in BOOLEAN
BY DEF RunRecord

\* Nobody waits, so what is in flight is with an agent or with the payment service.
LEMMA NobodyWaits ==
  ASSUME NEW r \in RunRecord
  PROVE  /\ Waiting(r) = {} /\ InFlight(r) = Active(r)
         /\ \A n : Ready(r, n) <=> r.status[n] = "pending" /\ Deps[n] \subseteq r.completed
<1>1. r.waiting = <<>>
  BY RunFields
<1>2. DOMAIN r.waiting = {}
  BY <1>1
<1>3. Waiting(r) = {}
  BY <1>2 DEF Waiting
<1> QED
  BY <1>3 DEF InFlight, Ready

LEMMA Starting ==
  ASSUME NEW r \in RunRecord, Sound(r),
         NEW R \in SUBSET Nodes, \A n \in R : r.status[n] = "pending" /\ Deps[n] \subseteq r.completed
  PROVE  Keeps(r, [r EXCEPT !.working = r.working \cup R,
                            !.status = [n \in Nodes |-> IF n \in R THEN "running" ELSE r.status[n]]])
<1>1. PICK st : st = [n \in Nodes |-> IF n \in R THEN "running" ELSE r.status[n]]
  OBVIOUS
<1>2. PICK W : W = r.working \cup R
  OBVIOUS
<1>3. PICK q : q = [r EXCEPT !.working = W, !.status = st]
  OBVIOUS
<1>4. st \in [Nodes -> NodeStatuses] /\ W \in SUBSET Nodes
  BY <1>1, <1>2, RunFields DEF NodeStatuses
<1>6. /\ q \in RunRecord
      /\ q.status = st /\ q.failed = r.failed /\ q.working = W
      /\ q.paying = r.paying /\ q.completed = r.completed
      /\ q.stage = r.stage /\ q.host = r.host /\ q.aborted = r.aborted /\ q.payFault = r.payFault
  <2>1. r.failed \in SUBSET Nodes /\ r.paying \in SUBSET Nodes /\ r.completed \in SUBSET Nodes
    BY RunFields
  <2> QED
    BY <1>3, <1>4, <2>1 DEF RunRecord
<1>7. \A n \in Nodes : n \in R => st[n] = "running"
  BY <1>1
<1>8. \A n \in Nodes : n \notin R => st[n] = r.status[n]
  BY <1>1
<1>9. Follows(r, q)
  BY <1>6, <1>7, <1>8 DEF Follows
<1>10. Sound(q)
  <2>1. \A n \in q.working : q.status[n] = "running" /\ Deps[n] \subseteq q.completed
    BY <1>2, <1>6, <1>7, <1>8, RunFields DEF Sound
  <2>2. \A n \in q.paying : n \notin q.completed /\ Deps[n] \subseteq q.completed
    BY <1>6 DEF Sound
  <2>3. \A n \in Nodes : q.status[n] = "completed" <=> n \in q.completed \cup q.paying
    BY <1>6, <1>7, <1>8 DEF Sound
  <2>4. \A n \in q.failed : q.status[n] \in Lost
    BY <1>6, <1>8, RunFields DEF Sound, Lost
  <2>5. ASSUME NEW d, Gone(r, d) PROVE Gone(q, d)
    BY <1>2, <1>6, <1>8, <2>5 DEF Gone, Lost
  <2>6. \A n \in Nodes : q.status[n] = "blocked" => \E d \in Deps[n] : Gone(q, d)
    BY <1>6, <1>7, <1>8, <2>5 DEF Sound
  <2> QED
    BY <2>1, <2>2, <2>3, <2>4, <2>6 DEF Sound
<1> QED
  BY <1>1, <1>2, <1>3, <1>6, <1>9, <1>10 DEF Keeps

\* Nodes that are given up before they started.
LEMMA GivingUp ==
  ASSUME NEW r \in RunRecord, Sound(r), NEW B \in SUBSET Nodes, \A n \in B : r.status[n] = "pending",
         NEW how \in Lost,
         how = "blocked" => \A n \in B : \E d \in Deps[n] : Gone(r, d) \/ d \in B
  PROVE  Keeps(r, [r EXCEPT !.status = [n \in Nodes |-> IF n \in B THEN how ELSE r.status[n]],
                            !.failed = r.failed \cup B])
<1>1. PICK st : st = [n \in Nodes |-> IF n \in B THEN how ELSE r.status[n]]
  OBVIOUS
<1>2. PICK F : F = r.failed \cup B
  OBVIOUS
<1>3. PICK q : q = [r EXCEPT !.status = st, !.failed = F]
  OBVIOUS
<1>4. st \in [Nodes -> NodeStatuses] /\ F \in SUBSET Nodes
  BY <1>1, <1>2, RunFields DEF NodeStatuses, Lost
<1>6. /\ q \in RunRecord
      /\ q.status = st /\ q.failed = F /\ q.working = r.working
      /\ q.paying = r.paying /\ q.completed = r.completed
      /\ q.stage = r.stage /\ q.host = r.host /\ q.aborted = r.aborted /\ q.payFault = r.payFault
  <2>1. r.working \in SUBSET Nodes /\ r.paying \in SUBSET Nodes /\ r.completed \in SUBSET Nodes
    BY RunFields
  <2> QED
    BY <1>3, <1>4, <2>1 DEF RunRecord
<1>7. \A n \in Nodes : n \in B => st[n] = how
  BY <1>1
<1>8. \A n \in Nodes : n \notin B => st[n] = r.status[n]
  BY <1>1
<1>11. how # "completed" /\ how # "pending" /\ how # "running"
  BY DEF Lost
<1>9. Follows(r, q)
  BY <1>6, <1>7, <1>8, <1>11 DEF Follows
<1>10. Sound(q)
  <2>1. \A n \in q.working : q.status[n] = "running" /\ Deps[n] \subseteq q.completed
    BY <1>6, <1>8, RunFields DEF Sound
  <2>2. \A n \in q.paying : n \notin q.completed /\ Deps[n] \subseteq q.completed
    BY <1>6 DEF Sound
  <2>3. \A n \in Nodes : q.status[n] = "completed" <=> n \in q.completed \cup q.paying
    BY <1>6, <1>7, <1>8, <1>11 DEF Sound
  <2>4. \A n \in q.failed : q.status[n] \in Lost
    BY <1>2, <1>6, <1>7, <1>8, RunFields DEF Sound
  <2>5. ASSUME NEW d, Gone(r, d) PROVE Gone(q, d)
    BY <1>6, <1>7, <1>8, <2>5 DEF Gone
  <2>6. ASSUME NEW n \in Nodes, q.status[n] = "blocked" PROVE \E d \in Deps[n] : Gone(q, d)
    <3>1. CASE n \in B
      <4>1. PICK d \in Deps[n] : Gone(r, d) \/ d \in B
        BY <1>6, <1>7, <2>6, <3>1
      <4>2. CASE d \in B
        BY <1>6, <1>7, <4>2 DEF Gone
      <4> QED
        BY <2>5, <4>1, <4>2
    <3>2. CASE n \notin B
      BY <1>6, <1>8, <2>5, <2>6, <3>2 DEF Sound
    <3> QED
      BY <3>1, <3>2
  <2> QED
    BY <2>1, <2>2, <2>3, <2>4, <2>6 DEF Sound
<1> QED
  BY <1>1, <1>2, <1>3, <1>6, <1>9, <1>10 DEF Keeps

LEMMA Cancelling ==
  ASSUME NEW r \in RunRecord, Sound(r)
  PROVE  Keeps(r, CancelPending(r))
<1>1. PICK B \in SUBSET Nodes : B = {n \in Nodes : r.status[n] = "pending"}
  OBVIOUS
<1>2. CancelPending(r) = [r EXCEPT !.status = [n \in Nodes |-> IF n \in B THEN "cancelled" ELSE r.status[n]],
                                   !.failed = r.failed \cup B]
  BY <1>1 DEF CancelPending
<1>3. "cancelled" \in Lost /\ "cancelled" # "blocked"
  BY DEF Lost
<1>4. \A n \in B : r.status[n] = "pending"
  BY <1>1
<1>5. Keeps(r, [r EXCEPT !.status = [n \in Nodes |-> IF n \in B THEN "cancelled" ELSE r.status[n]],
                         !.failed = r.failed \cup B])
  BY <1>3, <1>4, GivingUp
<1> QED
  BY <1>2, <1>5

\* A pass that blocks: a deadlock is called only when no node could start.
LEMMA Blocking ==
  ASSUME NEW r \in RunRecord, Sound(r), NEW deadlocked \in BOOLEAN,
         deadlocked /\ InFlight(r) = {} => \A n \in Nodes : ~Ready(r, n)
  PROVE  Keeps(r, FailBlocked(r, deadlocked))
<1>1. PICK B \in SUBSET Nodes :
           /\ IsBlocked(r, deadlocked, B)
           /\ FailBlocked(r, deadlocked)
                = [r EXCEPT !.status = [n \in Nodes |-> IF n \in B THEN "blocked" ELSE r.status[n]],
                            !.failed = r.failed \cup B]
  BY BlockedIs
<1>2. \A n \in B : r.status[n] = "pending"
  BY <1>1 DEF IsBlocked
<1>3. ASSUME NEW n \in B PROVE \E d \in Deps[n] : Gone(r, d) \/ d \in B
  <2>1. Blocks(r, deadlocked, r.failed \cup {m \in B : m < n}, n)
    BY <1>1 DEF IsBlocked
  <2>2. CASE Deps[n] \cap (r.failed \cup {m \in B : m < n}) # {}
    BY <2>2 DEF Gone, Sound
  <2>3. CASE ~(Deps[n] \subseteq Nodes)
    BY <2>3 DEF Gone
  <2>4. CASE deadlocked /\ InFlight(r) = {} /\ ~(Deps[n] \subseteq r.completed)
    <3>1. PICK d \in Deps[n] : d \notin r.completed
      BY <2>4
    <3>2. r.working = {} /\ r.paying = {}
      BY <2>4 DEF InFlight, Active
    <3>3. CASE d \notin Nodes
      BY <3>3 DEF Gone
    <3>4. CASE d \in Nodes /\ r.status[d] = "pending"
      <4>1. ~Ready(r, d)
        BY <2>4, <3>4
      <4>2. ~(Deps[d] \subseteq r.completed)
        BY <3>4, <4>1, NobodyWaits
      <4>3. d \in B
        BY <1>1, <2>4, <3>4, <4>2 DEF IsBlocked, Blocks
      <4> QED
        BY <4>3
    <3>5. CASE d \in Nodes /\ r.status[d] # "pending"
      <4>1. r.status[d] \in NodeStatuses
        BY <3>5, RunFields
      <4>2. r.status[d] # "completed"
        BY <3>1, <3>2, <3>5 DEF Sound
      <4> QED
        BY <3>2, <3>5, <4>1, <4>2 DEF Gone, NodeStatuses, Lost
    <3> QED
      BY <3>3, <3>4, <3>5
  <2> QED
    BY <2>1, <2>2, <2>3, <2>4 DEF Blocks
<1>4. "blocked" \in Lost
  BY DEF Lost
<1>5. Keeps(r, [r EXCEPT !.status = [n \in Nodes |-> IF n \in B THEN "blocked" ELSE r.status[n]],
                         !.failed = r.failed \cup B])
  BY <1>2, <1>3, <1>4, GivingUp
<1> QED
  BY <1>1, <1>5

LEMMA Scheduling ==
  ASSUME LimitSuffices, NEW r \in RunRecord, Sound(r)
  PROVE  Keeps(r, ScheduleReady(r))
<1>1. PICK R \in SUBSET Nodes : R = {n \in Nodes : Ready(r, n)}
  OBVIOUS
<1>2. \A n \in R : r.status[n] = "pending" /\ Deps[n] \subseteq r.completed
  BY <1>1, NobodyWaits
<1>3. PICK ready : ready = InOrder(R)
  OBVIOUS
<1>4. ScheduleReady(r) = IF r.aborted THEN CancelPending(r)
                         ELSE IF ready = <<>> /\ InFlight(r) = {} THEN FailBlocked(r, TRUE)
                         ELSE Admit([r EXCEPT !.waiting = r.waiting \o ready])
  BY <1>1, <1>3 DEF ScheduleReady
<1>5. CASE r.aborted
  BY <1>4, <1>5, Cancelling
<1>6. CASE ~r.aborted /\ ready = <<>> /\ InFlight(r) = {}
  <2>1. Cardinality(R) = 0
    <3>1. Len(<<>>) = 0
      BY EmptySeq
    <3> QED
      BY <1>3, <1>6, <3>1, ListingIs
  <2>2. IsFiniteSet(R)
    BY NodeSets
  <2>3. R = {}
    BY <2>1, <2>2, FS_EmptySet
  <2>4. \A n \in Nodes : ~Ready(r, n)
    BY <1>1, <2>3
  <2> QED
    BY <1>4, <1>6, <2>4, Blocking
<1>7. CASE ~r.aborted /\ ~(ready = <<>> /\ InFlight(r) = {})
  <2>1. r.waiting \o ready = ready
    BY <1>3, ListingIs, RunFields
  <2>2. ScheduleReady(r) = Admit([r EXCEPT !.waiting = InOrder(R)])
    BY <1>3, <1>4, <1>7, <2>1
  <2>3. Admit([r EXCEPT !.waiting = InOrder(R)])
          = [r EXCEPT !.working = r.working \cup R,
                      !.status = [n \in Nodes |-> IF n \in R THEN "running" ELSE r.status[n]]]
    BY <1>2, AdmitStarts
  <2>4. Keeps(r, [r EXCEPT !.working = r.working \cup R,
                           !.status = [n \in Nodes |-> IF n \in R THEN "running" ELSE r.status[n]]])
    BY <1>2, Starting
  <2> QED
    BY <2>2, <2>3, <2>4
<1> QED
  BY <1>5, <1>6, <1>7

\* A slot that falls free has nobody to go to.
LEMMA AdmitNothing ==
  ASSUME LimitSuffices, NEW r \in RunRecord, Sound(r)
  PROVE  Keeps(r, Admit(r))
<1>1. {} \in SUBSET Nodes
  OBVIOUS
<1>2. InOrder({}) = <<>>
  <2>1. InOrder({}) \in Seq(Nodes) /\ Len(InOrder({})) = 0
    BY <1>1, ListingIs, FS_EmptySet
  <2> QED
    BY <2>1, EmptySeq
<1>3. r = [r EXCEPT !.waiting = InOrder({})]
  BY <1>2 DEF RunRecord
<1>4. Admit([r EXCEPT !.waiting = InOrder({})])
        = [r EXCEPT !.working = r.working \cup {},
                    !.status = [n \in Nodes |-> IF n \in {} THEN "running" ELSE r.status[n]]]
  BY <1>1, AdmitStarts
<1>5. Keeps(r, [r EXCEPT !.working = r.working \cup {},
                         !.status = [n \in Nodes |-> IF n \in {} THEN "running" ELSE r.status[n]]])
  BY <1>1, Starting
<1> QED
  BY <1>3, <1>4, <1>5

-----------------------------------------------------------------------------
\* What every step of a run keeps: the run stays sound, and what has come in stays in.
Continues(r, q) ==
  /\ q \in RunRecord /\ Sound(q)
  /\ q.stage = r.stage /\ q.host = r.host /\ (r.aborted => q.aborted)
  /\ \A n \in Nodes : r.status[n] = "completed" => q.status[n] = "completed"

\* And every step but the abort leaves it as aborted as it was.
GoesAhead(r, q) == Continues(r, q) /\ q.aborted = r.aborted

LEMMA ContinuesThenKeeps ==
  ASSUME NEW r, NEW q, NEW p, Continues(r, q), Keeps(q, p)
  PROVE  Continues(r, p) /\ p.aborted = q.aborted
BY DEF Continues, Keeps, Follows

LEMMA Accounting ==
  ASSUME LimitSuffices, NEW r \in RunRecord, Sound(r)
  PROVE  Keeps(r, FailBlocked(ScheduleReady(Admit(r)), FALSE))
<1>1. PICK a : a = Admit(r)
  OBVIOUS
<1>2. PICK b : b = ScheduleReady(a)
  OBVIOUS
<1>3. PICK c : c = FailBlocked(b, FALSE)
  OBVIOUS
<1>4. Keeps(r, a)
  BY <1>1, AdmitNothing
<1>5. a \in RunRecord /\ Sound(a)
  BY <1>4 DEF Keeps
<1>6. Keeps(a, b)
  BY <1>2, <1>5, Scheduling
<1>7. b \in RunRecord /\ Sound(b)
  BY <1>6 DEF Keeps
<1>8. Keeps(b, c)
  BY <1>3, <1>7, Blocking
<1>9. Keeps(r, c)
  BY <1>4, <1>6, <1>8, KeepsIsTransitive
<1> QED
  BY <1>1, <1>2, <1>3, <1>9

\* The agent of node n answered.
LEMMA NodeAnswers ==
  ASSUME NEW r \in RunRecord, Sound(r), NEW n \in r.working
  PROVE  Continues(r, [r EXCEPT !.status[n] = "completed", !.working = r.working \ {n},
                                !.paying = r.paying \cup {n}])
<1>1. PICK q : q = [r EXCEPT !.status[n] = "completed", !.working = r.working \ {n},
                             !.paying = r.paying \cup {n}]
  OBVIOUS
<1>2. /\ n \in Nodes /\ r.status[n] = "running" /\ n \notin r.completed /\ Deps[n] \subseteq r.completed
      /\ n \notin r.paying
  BY RunFields DEF Sound
<1>3. /\ q \in RunRecord
      /\ q.failed = r.failed /\ q.completed = r.completed
      /\ q.working = r.working \ {n} /\ q.paying = r.paying \cup {n}
      /\ q.stage = r.stage /\ q.host = r.host /\ q.aborted = r.aborted
      /\ q.status[n] = "completed" /\ \A m \in Nodes : m # n => q.status[m] = r.status[m]
  <2>1. [r.status EXCEPT ![n] = "completed"] \in [Nodes -> NodeStatuses]
    BY RunFields DEF NodeStatuses
  <2> QED
    BY <1>1, <1>2, <2>1 DEF RunRecord
<1>4. Sound(q)
  <2>1. \A m \in q.working : q.status[m] = "running" /\ Deps[m] \subseteq q.completed
    BY <1>3, RunFields DEF Sound
  <2>2. \A m \in q.paying : m \notin q.completed /\ Deps[m] \subseteq q.completed
    BY <1>2, <1>3 DEF Sound
  <2>3. \A m \in Nodes : q.status[m] = "completed" <=> m \in q.completed \cup q.paying
    BY <1>2, <1>3 DEF Sound
  <2>4. \A m \in q.failed : q.status[m] \in Lost
    BY <1>2, <1>3, RunFields DEF Sound, Lost
  <2>5. ASSUME NEW d, Gone(r, d) PROVE Gone(q, d)
    <3>1. d # n
      BY <1>2, <2>5 DEF Gone, Lost
    <3> QED
      BY <1>3, <2>5, <3>1 DEF Gone
  <2>6. \A m \in Nodes : q.status[m] = "blocked" => \E d \in Deps[m] : Gone(q, d)
    BY <1>3, <2>5 DEF Sound
  <2> QED
    BY <2>1, <2>2, <2>3, <2>4, <2>6 DEF Sound
<1> QED
  BY <1>1, <1>3, <1>4 DEF Continues

\* Node n failed; its failure is counted and blocks what depends on it.
LEMMA NodeFails ==
  ASSUME LimitSuffices, NEW r \in RunRecord, Sound(r), NEW n \in r.working
  PROVE  GoesAhead(r, Account([r EXCEPT !.status[n] = "failed"], n, "failed"))
<1>1. PICK q : q = [r EXCEPT !.status[n] = "failed", !.failed = r.failed \cup {n},
                             !.working = r.working \ {n}, !.paying = r.paying \ {n}]
  OBVIOUS
<1>2. /\ n \in Nodes /\ r.status[n] = "running" /\ n \notin r.completed /\ n \notin r.paying
  BY RunFields DEF Sound
<1>3. /\ q \in RunRecord
      /\ q.failed = r.failed \cup {n} /\ q.completed = r.completed
      /\ q.working = r.working \ {n} /\ q.paying = r.paying
      /\ q.stage = r.stage /\ q.host = r.host /\ q.aborted = r.aborted
      /\ q.status[n] = "failed" /\ \A m \in Nodes : m # n => q.status[m] = r.status[m]
  <2>1. [r.status EXCEPT ![n] = "failed"] \in [Nodes -> NodeStatuses]
    BY RunFields DEF NodeStatuses
  <2>2. r.paying \ {n} = r.paying
    BY <1>2
  <2> QED
    BY <1>1, <1>2, <2>1, <2>2 DEF RunRecord
<1>4. Sound(q)
  <2>1. \A m \in q.working : q.status[m] = "running" /\ Deps[m] \subseteq q.completed
    BY <1>3, RunFields DEF Sound
  <2>2. \A m \in q.paying : m \notin q.completed /\ Deps[m] \subseteq q.completed
    BY <1>2, <1>3 DEF Sound
  <2>3. \A m \in Nodes : q.status[m] = "completed" <=> m \in q.completed \cup q.paying
    BY <1>2, <1>3 DEF Sound
  <2>4. \A m \in q.failed : q.status[m] \in Lost
    BY <1>2, <1>3, RunFields DEF Sound, Lost
  <2>5. ASSUME NEW d, Gone(r, d) PROVE Gone(q, d)
    BY <1>2, <1>3, <2>5 DEF Gone, Lost
  <2>6. \A m \in Nodes : q.status[m] = "blocked" => \E d \in Deps[m] : Gone(q, d)
    BY <1>3, <2>5 DEF Sound
  <2> QED
    BY <2>1, <2>2, <2>3, <2>4, <2>6 DEF Sound
<1>5. GoesAhead(r, q)
  BY <1>2, <1>3, <1>4 DEF Continues, GoesAhead
<1>6. Account([r EXCEPT !.status[n] = "failed"], n, "failed")
        = FailBlocked(ScheduleReady(Admit(q)), FALSE)
  <2>1. PICK s : s = [r EXCEPT !.status[n] = "failed"]
    OBVIOUS
  <2>2. [[s EXCEPT !.failed = s.failed \cup {n}] EXCEPT !.working = r.working \ {n}, !.paying = r.paying \ {n}] = q
    BY <1>1, <2>1 DEF RunRecord
  <2>3. s.working = r.working /\ s.paying = r.paying
    BY <2>1 DEF RunRecord
  <2>4. PICK counted : counted = [s EXCEPT !.failed = s.failed \cup {n}]
    OBVIOUS
  <2>5. counted.working = r.working /\ counted.paying = r.paying
    BY <2>1, <2>3, <2>4 DEF RunRecord
  <2>6. Account(s, n, "failed") = FailBlocked(ScheduleReady(Admit(
          [counted EXCEPT !.working = counted.working \ {n}, !.paying = counted.paying \ {n}])), FALSE)
    BY <2>4 DEF Account
  <2> QED
    BY <2>1, <2>2, <2>4, <2>5, <2>6
<1>7. Keeps(q, FailBlocked(ScheduleReady(Admit(q)), FALSE))
  BY <1>3, <1>4, Accounting
<1>8. PICK p : p = FailBlocked(ScheduleReady(Admit(q)), FALSE)
  OBVIOUS
<1>9. Continues(r, q) /\ Keeps(q, p)
  BY <1>5, <1>7, <1>8 DEF GoesAhead
<1>10. Continues(r, p) /\ p.aborted = q.aborted
  BY <1>9, ContinuesThenKeeps
<1> QED
  BY <1>5, <1>6, <1>8, <1>10 DEF GoesAhead

\* The payment of node n is through, or failed and noted; only now the node counts.
LEMMA NodeCounts ==
  ASSUME LimitSuffices, NEW r \in RunRecord, Sound(r), NEW n \in r.paying
  PROVE  GoesAhead(r, Account(r, n, "completed"))
<1>1. PICK q : q = [r EXCEPT !.completed = r.completed \cup {n},
                             !.working = r.working \ {n}, !.paying = r.paying \ {n}]
  OBVIOUS
<1>2. /\ n \in Nodes /\ r.status[n] = "completed" /\ n \notin r.working
  BY RunFields DEF Sound
<1>3. /\ q \in RunRecord
      /\ q.failed = r.failed /\ q.completed = r.completed \cup {n}
      /\ q.working = r.working /\ q.paying = r.paying \ {n}
      /\ q.stage = r.stage /\ q.host = r.host /\ q.aborted = r.aborted /\ q.status = r.status
  <2>1. r.working \ {n} = r.working
    BY <1>2
  <2> QED
    BY <1>1, <1>2, <2>1 DEF RunRecord
<1>4. Sound(q)
  <2>1. \A m \in q.working : q.status[m] = "running" /\ Deps[m] \subseteq q.completed
    BY <1>3 DEF Sound
  <2>2. \A m \in q.paying : m \notin q.completed /\ Deps[m] \subseteq q.completed
    BY <1>2, <1>3 DEF Sound
  <2>3. \A m \in Nodes : q.status[m] = "completed" <=> m \in q.completed \cup q.paying
    BY <1>2, <1>3 DEF Sound
  <2>4. \A m \in q.failed : q.status[m] \in Lost
    BY <1>3 DEF Sound
  <2>6. \A m \in Nodes : q.status[m] = "blocked" => \E d \in Deps[m] : Gone(q, d)
    BY <1>3 DEF Sound, Gone
  <2> QED
    BY <2>1, <2>2, <2>3, <2>4, <2>6 DEF Sound
<1>5. GoesAhead(r, q)
  BY <1>2, <1>3, <1>4 DEF Continues, GoesAhead
<1>6. Account(r, n, "completed") = FailBlocked(ScheduleReady(Admit(q)), FALSE)
  <2>1. PICK counted : counted = [r EXCEPT !.completed = r.completed \cup {n}]
    OBVIOUS
  <2>2. counted.working = r.working /\ counted.paying = r.paying
    BY <2>1 DEF RunRecord
  <2>3. [counted EXCEPT !.working = r.working \ {n}, !.paying = r.paying \ {n}] = q
    BY <1>1, <2>1 DEF RunRecord
  <2>4. Account(r, n, "completed") = FailBlocked(ScheduleReady(Admit(
          [counted EXCEPT !.working = counted.working \ {n}, !.paying = counted.paying \ {n}])), FALSE)
    BY <2>1 DEF Account
  <2> QED
    BY <2>2, <2>3, <2>4
<1>7. Keeps(q, FailBlocked(ScheduleReady(Admit(q)), FALSE))
  BY <1>3, <1>4, Accounting
<1>8. PICK p : p = FailBlocked(ScheduleReady(Admit(q)), FALSE)
  OBVIOUS
<1>9. Continues(r, q) /\ Keeps(q, p)
  BY <1>5, <1>7, <1>8 DEF GoesAhead
<1>10. Continues(r, p) /\ p.aborted = q.aborted
  BY <1>9, ContinuesThenKeeps
<1> QED
  BY <1>5, <1>6, <1>8, <1>10 DEF GoesAhead

\* Noting a payment fault changes nothing else of the run.
LEMMA FaultNoted ==
  ASSUME NEW r \in RunRecord, Sound(r)
  PROVE  GoesAhead(r, [r EXCEPT !.payFault = TRUE]) /\ [r EXCEPT !.payFault = TRUE].paying = r.paying
<1>1. PICK q : q = [r EXCEPT !.payFault = TRUE]
  OBVIOUS
<1>2. /\ q \in RunRecord
      /\ q.failed = r.failed /\ q.completed = r.completed /\ q.working = r.working /\ q.paying = r.paying
      /\ q.stage = r.stage /\ q.host = r.host /\ q.aborted = r.aborted /\ q.status = r.status
  BY <1>1 DEF RunRecord
<1>3. Sound(q)
  BY <1>2 DEF Sound, Gone
<1> QED
  BY <1>1, <1>2, <1>3 DEF Continues, GoesAhead

LEMMA GoesAheadTwice ==
  ASSUME NEW r, NEW q, NEW p, GoesAhead(r, q), GoesAhead(q, p)
  PROVE  GoesAhead(r, p)
BY DEF Continues, GoesAhead

LEMMA NodeCountsUnpaid ==
  ASSUME LimitSuffices, NEW r \in RunRecord, Sound(r), NEW n \in r.paying
  PROVE  GoesAhead(r, Account([r EXCEPT !.payFault = TRUE], n, "completed"))
<1>1. PICK q : q = [r EXCEPT !.payFault = TRUE]
  OBVIOUS
<1>2. GoesAhead(r, q) /\ n \in q.paying
  BY <1>1, FaultNoted
<1>3. q \in RunRecord /\ Sound(q)
  BY <1>2 DEF Continues, GoesAhead
<1>4. GoesAhead(q, Account(q, n, "completed"))
  BY <1>2, <1>3, NodeCounts
<1> QED
  BY <1>1, <1>2, <1>4, GoesAheadTwice

\* The abort listener: what is pending is cancelled.
LEMMA RunAborts ==
  ASSUME NEW r \in RunRecord, Sound(r)
  PROVE  /\ Continues(r, CancelPending([r EXCEPT !.aborted = TRUE]))
         /\ CancelPending([r EXCEPT !.aborted = TRUE]).aborted
<1>1. PICK q : q = [r EXCEPT !.aborted = TRUE]
  OBVIOUS
<1>2. /\ q \in RunRecord /\ q.aborted
      /\ q.failed = r.failed /\ q.completed = r.completed /\ q.working = r.working /\ q.paying = r.paying
      /\ q.stage = r.stage /\ q.host = r.host /\ q.status = r.status
  BY <1>1 DEF RunRecord
<1>3. Sound(q)
  BY <1>2 DEF Sound, Gone
<1>4. Keeps(q, CancelPending(q))
  BY <1>2, <1>3, Cancelling
<1>5. Continues(r, q)
  BY <1>2, <1>3 DEF Continues
<1>6. Continues(r, CancelPending(q)) /\ CancelPending(q).aborted
  BY <1>2, <1>4, <1>5, ContinuesThenKeeps DEF Keeps, Follows
<1> QED
  BY <1>1, <1>6

\* executeDAG resolves with nothing in flight, and says what all nodes say.
LEMMA Resolves ==
  ASSUME NEW r \in RunRecord, Sound(r), Outcome(r) # "running"
  PROVE  /\ InFlight(r) = {}
         /\ Outcome(r) \in {"completed", "failed", "cancelled", "payment_failed"}
         /\ r.aborted => Outcome(r) = "cancelled"
         /\ Outcome(r) \in {"completed", "payment_failed"} =>
              \A n \in Nodes : r.status[n] = "completed"
<1>1. CASE r.aborted /\ InFlight(r) = {}
  BY <1>1 DEF Outcome
<1>2. CASE ~(r.aborted /\ InFlight(r) = {})
  <2>1. /\ Cardinality(r.completed) + Cardinality(r.failed) = NodeCount
        /\ Outcome(r) = IF r.failed # {} THEN "failed" ELSE IF r.payFault THEN "payment_failed" ELSE "completed"
    BY <1>2 DEF Outcome
  <2>2. r.completed \in SUBSET Nodes /\ r.failed \in SUBSET Nodes /\ r.working \in SUBSET Nodes /\ r.paying \in SUBSET Nodes
    BY RunFields
  <2>3. \A n \in r.completed : r.status[n] = "completed"
    BY <2>2 DEF Sound
  <2>4. r.completed \cap r.failed = {}
    BY <2>3 DEF Sound, Lost
  <2>5. Cardinality(r.completed \cup r.failed) = Cardinality(Nodes)
    BY <2>1, <2>2, <2>4, CountsApart, NodesAre
  <2>6. r.completed \cup r.failed = Nodes
    <3>1. r.completed \cup r.failed \in SUBSET Nodes
      BY <2>2
    <3> QED
      BY <2>5, <3>1, NodesAre, FS_Subset
  <2>7. \A n \in r.working : n \notin r.completed /\ n \notin r.failed
    BY <2>3 DEF Sound, Lost
  <2>8. \A n \in r.paying : n \notin r.completed /\ n \notin r.failed
    BY <2>2 DEF Sound, Lost
  <2>9. Active(r) = {}
    BY <2>2, <2>6, <2>7, <2>8 DEF Active
  <2>10. InFlight(r) = {}
    BY <2>9, NobodyWaits
  <2>11. ~r.aborted
    BY <1>2, <2>10
  <2>12. r.failed = {} => \A n \in Nodes : r.status[n] = "completed"
    BY <2>3, <2>6
  <2> QED
    BY <2>1, <2>10, <2>11, <2>12
<1> QED
  BY <1>1, <1>2

-----------------------------------------------------------------------------
-----------------------------------------------------------------------------
(***************************************************************************)
(* The inductive invariant.                                                *)
(***************************************************************************)
TaskRecord == [status : TaskStatuses, nodes : [Nodes -> NodeStatuses]]

\* The row knows what the running copy knows, but for what a shutdown elsewhere wrote into it.
RowFits(nodes, r) ==
  \A n \in Nodes : /\ nodes[n] = "completed" <=> r.status[n] = "completed"
                   /\ nodes[n] = "blocked" => r.status[n] = "blocked"

Ended == {"completed", "payment_failed"}

\* Work that is recorded as blocked, or as a success, is told of a row as it is.
RowTells(row) ==
  /\ \A n \in Nodes : row.nodes[n] = "blocked" =>
       ~(Deps[n] \subseteq {d \in Nodes : row.nodes[d] = "completed"})
  /\ row.status \in Ended => \A n \in Nodes : row.nodes[n] = "completed"

RunStands(x) ==
  \/ run[x] = NoRun
  \/ \E h \in Hosts : run[x] = [NoRun EXCEPT !.stage = "claimed", !.host = h]
  \/ /\ run[x].stage = "executing"
     /\ Sound(run[x]) /\ RowFits(task.nodes, run[x])
     /\ run[x].aborted => task.status = "cancelled"

TaskIInv ==
  /\ task \in TaskRecord /\ paid \subseteq Nodes
  /\ phase \in [{Job} -> Queue!Phases] /\ failures \in [{Job} -> 0 .. MaxAttempts]
  /\ disruptions \in 0 .. MaxDisruptions
  /\ run \in [Runs -> RunRecord]
  /\ \A x \in Runs : RunStands(x)
  /\ \A x, y \in Runs : run[x] # NoRun /\ run[y] # NoRun => x = y
  /\ (\E x \in Runs : run[x] # NoRun) <=> phase[Job] = "running"
  /\ PaidWorkIsRecorded
  /\ RowTells(task)
  /\ phase[Job] = "completed" => task.status \in {"completed", "payment_failed", "cancelled"}
  /\ phase[Job] = "parked" => task.status = "failed"

\* What a step may not do to the row, when the invariant holds.
RowKept == FinishedNodesStay /\ AbortSticks

LEMMA Numbers == MaxAttempts \in Nat /\ MaxAttempts # 0 /\ MaxDisruptions \in Nat /\ NoHost \notin Hosts
BY ExecutionAssumption

LEMMA NoRunIs ==
  /\ NoRun \in RunRecord /\ NoRun.stage = "none" /\ NoRun.host = NoHost /\ NoRun.aborted = FALSE
  /\ \A h \in Hosts \cup {NoHost} :
       LET r == [NoRun EXCEPT !.stage = "claimed", !.host = h] IN
       /\ r \in RunRecord /\ r.stage = "claimed" /\ r.host = h /\ r # NoRun
       /\ r.aborted = FALSE /\ r.status = [n \in Nodes |-> "pending"] /\ r.failed = {}
       /\ r.working = {} /\ r.paying = {} /\ r.waiting = <<>> /\ r.payFault = FALSE
BY DEF NoRun, RunRecord, Stages, NodeStatuses

\* The job moves, and with it one run comes or goes.
LEMMA PhaseMoves ==
  ASSUME phase \in [{Job} -> Queue!Phases], NEW from, NEW to \in Queue!Phases, Queue!Move(Job, from, to)
  PROVE  phase[Job] = from /\ phase'[Job] = to /\ phase' \in [{Job} -> Queue!Phases]
BY DEF Queue!Move

LEMMA PhasesAre ==
  Queue!Phases = {"unsubmitted", "queued", "running", "stranded", "completed", "parked", "purged"}
BY DEF Queue!Phases

\* The queue takes the verdict of a run.
LEMMA VerdictMoves ==
  ASSUME phase \in [{Job} -> Queue!Phases], failures \in [{Job} -> 0 .. MaxAttempts],
         NEW outcome, Verdict(outcome)
  PROVE  /\ phase[Job] = "running"
         /\ phase' \in [{Job} -> Queue!Phases] /\ failures' \in [{Job} -> 0 .. MaxAttempts]
         /\ phase'[Job] \in {"queued", "parked", "completed"}
         /\ phase'[Job] = "completed" => outcome # "failed"
         /\ phase'[Job] = "parked" => outcome = "failed"
<1>1. CASE outcome = "failed"
  <2>1. Queue!Fail(Job)
    BY <1>1 DEF Verdict
  <2>2. PICK to \in {"queued", "parked"} : Queue!Move(Job, "running", to)
    BY <2>1 DEF Queue!Fail
  <2>3. phase[Job] = "running" /\ phase'[Job] = to /\ phase' \in [{Job} -> Queue!Phases]
    BY <2>2, PhaseMoves, PhasesAre
  <2>4. PICK f \in 0 .. MaxAttempts : f = failures[Job]
    OBVIOUS
  <2>5. f + 1 <= MaxAttempts /\ failures' = [failures EXCEPT ![Job] = f + 1]
    BY <2>1, <2>4, Numbers DEF Queue!Fail
  <2>6. failures' \in [{Job} -> 0 .. MaxAttempts]
    BY <2>4, <2>5, Numbers
  <2> QED
    BY <1>1, <2>3, <2>6
<1>2. CASE outcome # "failed"
  <2>1. Queue!Move(Job, "running", "completed") /\ failures' = failures
    BY <1>2 DEF Verdict, Queue!Succeed
  <2>2. "completed" \in Queue!Phases
    BY PhasesAre
  <2>3. phase[Job] = "running" /\ phase'[Job] = "completed" /\ phase' \in [{Job} -> Queue!Phases]
    BY <2>1, <2>2, PhaseMoves
  <2> QED
    BY <1>2, <2>1, <2>3
<1> QED
  BY <1>1, <1>2

-----------------------------------------------------------------------------
\* What a run has given up as blocked is blocked in the row for a reason.
LEMMA BlockedHasReason ==
  ASSUME NEW r \in RunRecord, Sound(r), NEW nodes, RowFits(nodes, r),
         NEW n \in Nodes, nodes[n] = "blocked"
  PROVE  ~(Deps[n] \subseteq {d \in Nodes : nodes[d] = "completed"})
<1>1. PICK d \in Deps[n] : Gone(r, d)
  BY DEF Sound, RowFits
<1>2. d \in Nodes => r.status[d] # "completed"
  BY <1>1 DEF Gone, Lost
<1> QED
  BY <1>2 DEF RowFits

\* updateNode leaves the row fitting the run.
LEMMA StoredFits ==
  ASSUME NEW old, NEW new \in RunRecord, NEW nodes \in [Nodes -> NodeStatuses], RowFits(nodes, old)
  PROVE  Stored(nodes, old, new) \in [Nodes -> NodeStatuses] /\ RowFits(Stored(nodes, old, new), new)
<1>1. PICK st : st = Stored(nodes, old, new)
  OBVIOUS
<1>2. new.status \in [Nodes -> NodeStatuses]
  BY RunFields
<1>3. ASSUME NEW n \in Nodes
      PROVE  /\ st[n] \in NodeStatuses
             /\ st[n] = "completed" <=> new.status[n] = "completed"
             /\ st[n] = "blocked" => new.status[n] = "blocked"
  <2>1. st[n] = IF new.status[n] = old.status[n] THEN nodes[n]
                ELSE IF new.status[n] = "cancelled" THEN "failed" ELSE new.status[n]
    BY <1>1 DEF Stored
  <2>2. CASE new.status[n] = old.status[n]
    BY <2>1, <2>2 DEF RowFits
  <2>3. CASE new.status[n] # old.status[n] /\ new.status[n] = "cancelled"
    BY <2>1, <2>3 DEF NodeStatuses
  <2>4. CASE new.status[n] # old.status[n] /\ new.status[n] # "cancelled"
    BY <1>2, <2>1, <2>4
  <2> QED
    BY <2>2, <2>3, <2>4
<1>4. st \in [Nodes -> NodeStatuses]
  BY <1>1, <1>3 DEF Stored
<1> QED
  BY <1>1, <1>3, <1>4 DEF RowFits

\* The only run there is: the others are none.
LEMMA OneRunOnly ==
  ASSUME TaskIInv, NEW x \in Runs, run[x] # NoRun
  PROVE  /\ \A y \in Runs : y # x => run[y] = NoRun
         /\ phase[Job] = "running"
         /\ run[x] \in RunRecord /\ RunStands(x)
         /\ (\E y \in Runs : run[y].aborted) => run[x].aborted
<1>1. \A y \in Runs : y # x => run[y] = NoRun
  BY DEF TaskIInv
<1>2. ~NoRun.aborted
  BY NoRunIs
<1> QED
  BY <1>1, <1>2 DEF TaskIInv

\* A step of a run, whatever it is, once the run it leaves is sound.
LEMMA StepKeeps ==
  ASSUME TaskIInv, NEW x \in Runs, run[x] # NoRun,
         NEW row \in TaskRecord, NEW old \in RunRecord, RowFits(row.nodes, old),
         NEW new, Continues(old, new), new.stage = "executing",
         run[x].aborted => new.aborted,
         new.aborted => row.status = "cancelled",
         row.status \in Ended => \A n \in Nodes : row.nodes[n] = "completed",
         \A n \in Nodes : task.nodes[n] = "completed" => row.nodes[n] = "completed",
         paid' \subseteq Nodes, \A n \in paid' : n \in paid \/ new.status[n] = "completed",
         Step(x, row, old, new)
  PROVE  TaskIInv' /\ RowKept
<1>1. new \in RunRecord /\ Sound(new)
  BY DEF Continues
<1>2. /\ \A y \in Runs : y # x => run[y] = NoRun
      /\ phase[Job] = "running"
      /\ (\E y \in Runs : run[y].aborted) => run[x].aborted
  BY OneRunOnly
<1>3. /\ phase \in [{Job} -> Queue!Phases] /\ failures \in [{Job} -> 0 .. MaxAttempts]
      /\ disruptions \in 0 .. MaxDisruptions /\ run \in [Runs -> RunRecord]
      /\ \A n \in paid : task.nodes[n] = "completed"
      /\ paid \subseteq Nodes
  BY DEF TaskIInv, PaidWorkIsRecorded
<1>4. row.nodes \in [Nodes -> NodeStatuses] /\ row.status \in TaskStatuses
  BY DEF TaskRecord
\* From the row that fits the new run, all that is asked of the row.
<1>5. ASSUME NEW nodes, RowFits(nodes, new)
      PROVE  /\ \A n \in Nodes : task.nodes[n] = "completed" => nodes[n] = "completed"
             /\ \A n \in paid' : nodes[n] = "completed"
             /\ \A n \in Nodes : nodes[n] = "blocked" =>
                  ~(Deps[n] \subseteq {d \in Nodes : nodes[d] = "completed"})
  <2>1. \A n \in Nodes : row.nodes[n] = "completed" => new.status[n] = "completed"
    BY DEF RowFits, Continues
  <2>2. \A n \in Nodes : new.status[n] = "completed" => nodes[n] = "completed"
    BY <1>5 DEF RowFits
  <2>3. \A n \in Nodes : task.nodes[n] = "completed" => nodes[n] = "completed"
    BY <2>1, <2>2
  <2>4. \A n \in paid' : nodes[n] = "completed"
    BY <1>3, <2>2, <2>3
  <2>5. \A n \in Nodes : nodes[n] = "blocked" =>
          ~(Deps[n] \subseteq {d \in Nodes : nodes[d] = "completed"})
    BY <1>1, <1>5, BlockedHasReason
  <2> QED
    BY <2>3, <2>4, <2>5
<1>6. CASE GoesOn(x, row, old, new)
  <2>1. PICK st : st = Stored(row.nodes, old, new)
    OBVIOUS
  <2>2. st \in [Nodes -> NodeStatuses] /\ RowFits(st, new)
    BY <1>1, <1>4, <2>1, StoredFits
  <2>3. Vacated(new) = new
    BY DEF Vacated
  <2>4. /\ run' = [run EXCEPT ![x] = new]
        /\ task' = [row EXCEPT !.nodes = st]
        /\ phase' = phase /\ failures' = failures /\ disruptions' = disruptions
    BY <1>6, <2>1, <2>3 DEF GoesOn, Undisturbed
  <2>5. task' \in TaskRecord /\ task'.nodes = st /\ task'.status = row.status
    BY <2>2, <2>4 DEF TaskRecord
  <2>6. /\ \A n \in Nodes : task.nodes[n] = "completed" => st[n] = "completed"
        /\ \A n \in paid' : st[n] = "completed"
        /\ \A n \in Nodes : st[n] = "blocked" =>
             ~(Deps[n] \subseteq {d \in Nodes : st[d] = "completed"})
    BY <1>5, <2>2
  <2>7. /\ run' \in [Runs -> RunRecord] /\ run'[x] = new
        /\ \A y \in Runs : y # x => run'[y] = NoRun
    BY <1>1, <1>2, <1>3, <2>4
  <2>8. new # NoRun
    BY NoRunIs
  <2>9. \A y \in Runs : RunStands(y)'
    <3>1. RowFits(task'.nodes, new) /\ (new.aborted => task'.status = "cancelled")
      BY <2>2, <2>5
    <3>2. RunStands(x)'
      BY <1>1, <2>7, <3>1 DEF RunStands
    <3>3. ASSUME NEW y \in Runs, y # x PROVE RunStands(y)'
      BY <2>7, <3>3 DEF RunStands
    <3> QED
      BY <3>2, <3>3
  <2>10. PaidWorkIsRecorded'
    BY <2>5, <2>6 DEF PaidWorkIsRecorded
  <2>11. row.status \in Ended => \A n \in Nodes : st[n] = "completed"
    <3>1. ASSUME NEW n \in Nodes, row.nodes[n] = "completed" PROVE st[n] = "completed"
      BY <2>2, <3>1 DEF RowFits, Continues
    <3> QED
      BY <3>1
  <2>12. RowTells(task)'
    <3>1. PICK t : t = task'
      OBVIOUS
    <3>2. t.nodes = st /\ t.status = row.status
      BY <2>5, <3>1
    <3>3. RowTells(t)
      BY <2>6, <2>11, <3>2 DEF RowTells
    <3> QED
      BY <3>1, <3>3 DEF RowTells
  <2>13. phase'[Job] = "running"
    BY <1>2, <2>4
  <2>14. TaskIInv'
    BY <1>3, <2>4, <2>5, <2>7, <2>8, <2>9, <2>10, <2>12, <2>13 DEF TaskIInv
  <2>15. FinishedNodesStay
    BY <2>5, <2>6 DEF FinishedNodesStay
  <2>16. AbortSticks
    BY <1>2, <2>5 DEF AbortSticks
  <2> QED
    BY <2>14, <2>15, <2>16 DEF RowKept
<1>7. CASE Settles(x, new)
  <2>1. Outcome(new) # "running"
    BY <1>7 DEF Settles
  <2>2. PICK o : o = Outcome(new)
    OBVIOUS
  <2>3. /\ InFlight(new) = {} /\ o \in {"completed", "failed", "cancelled", "payment_failed"}
        /\ new.aborted => o = "cancelled"
        /\ o \in Ended => \A n \in Nodes : new.status[n] = "completed"
    BY <1>1, <2>1, <2>2, Resolves DEF Ended
  <2>4. Vacated([new EXCEPT !.stage = "settled"]) = NoRun
    <3>1. PICK q : q = [new EXCEPT !.stage = "settled"]
      OBVIOUS
    <3>2. q.stage = "settled" /\ q.working = new.working /\ q.paying = new.paying /\ q.waiting = new.waiting
      BY <1>1, <3>1 DEF RunRecord
    <3>3. InFlight(q) = InFlight(new)
      BY <3>2 DEF InFlight, Active, Waiting
    <3> QED
      BY <2>3, <3>1, <3>2, <3>3 DEF Vacated
  <2>5. /\ run' = [run EXCEPT ![x] = NoRun]
        /\ task' = [status |-> o, nodes |-> new.status]
    BY <1>7, <2>2, <2>4 DEF Settles
  <2>6. /\ task' \in TaskRecord /\ task'.nodes = new.status /\ task'.status = o
    BY <1>1, <2>3, <2>5, RunFields DEF TaskRecord, TaskStatuses
  <2>7. RowFits(new.status, new)
    BY DEF RowFits
  <2>8. /\ \A n \in Nodes : task.nodes[n] = "completed" => new.status[n] = "completed"
        /\ \A n \in paid' : new.status[n] = "completed"
        /\ \A n \in Nodes : new.status[n] = "blocked" =>
             ~(Deps[n] \subseteq {d \in Nodes : new.status[d] = "completed"})
    BY <1>5, <2>7
  <2>9. run' \in [Runs -> RunRecord] /\ \A y \in Runs : run'[y] = NoRun
    BY <1>2, <1>3, <2>5, NoRunIs
  <2>10. /\ phase' \in [{Job} -> Queue!Phases] /\ failures' \in [{Job} -> 0 .. MaxAttempts]
         /\ disruptions' \in 0 .. MaxDisruptions
         /\ phase'[Job] \in {"queued", "parked", "completed", "stranded"}
         /\ phase'[Job] = "completed" => o # "failed"
         /\ phase'[Job] = "parked" => o = "failed"
    <3>1. CASE Verdict(o) /\ Undisturbed
      BY <1>3, <3>1, VerdictMoves DEF Undisturbed
    <3>2. CASE Queue!Move(Job, "running", "stranded") /\ UNCHANGED failures /\ Disturb
      <4>1. "stranded" \in Queue!Phases
        BY PhasesAre
      <4>2. phase'[Job] = "stranded" /\ phase' \in [{Job} -> Queue!Phases]
        BY <1>3, <3>2, <4>1, PhaseMoves
      <4>3. disruptions' \in 0 .. MaxDisruptions
        BY <1>3, <3>2, Numbers DEF Disturb
      <4> QED
        BY <1>3, <3>2, <4>2, <4>3
    <3> QED
      BY <1>7, <2>2, <3>1, <3>2 DEF Settles
  <2>11. PaidWorkIsRecorded'
    BY <2>6, <2>8 DEF PaidWorkIsRecorded
  <2>12. RowTells(task)'
    <3>1. PICK t : t = task'
      OBVIOUS
    <3>2. t.nodes = new.status /\ t.status = o
      BY <2>6, <3>1
    <3>3. RowTells(t)
      BY <2>3, <2>8, <3>2 DEF RowTells
    <3> QED
      BY <3>1, <3>3 DEF RowTells
  <2>13. \A y \in Runs : RunStands(y)'
    BY <2>9 DEF RunStands
  <2>14. /\ phase'[Job] = "completed" => task'.status \in {"completed", "payment_failed", "cancelled"}
         /\ phase'[Job] = "parked" => task'.status = "failed"
    BY <2>3, <2>6, <2>10
  <2>15. TaskIInv'
    BY <2>6, <2>9, <2>10, <2>11, <2>12, <2>13, <2>14 DEF TaskIInv
  <2>16. FinishedNodesStay
    BY <2>6, <2>8 DEF FinishedNodesStay
  <2>17. AbortSticks
    BY <1>2, <2>3, <2>6 DEF AbortSticks
  <2> QED
    BY <2>15, <2>16, <2>17 DEF RowKept
<1> QED
  BY <1>6, <1>7 DEF Step

-----------------------------------------------------------------------------
\* A run that is executing, as the invariant has it.
LEMMA Executing ==
  ASSUME TaskIInv, NEW x \in Runs, run[x].working # {} \/ run[x].paying # {} \/ run[x].stage = "executing"
  PROVE  /\ run[x] # NoRun /\ run[x] \in RunRecord /\ run[x].stage = "executing"
         /\ Sound(run[x]) /\ RowFits(task.nodes, run[x])
         /\ run[x].aborted => task.status = "cancelled"
<1>1. run[x] # NoRun
  <2>1. NoRun.working = {} /\ NoRun.paying = {} /\ NoRun.stage = "none"
    BY DEF NoRun
  <2> QED
    BY <2>1
<1>2. run[x] \in RunRecord /\ RunStands(x)
  BY DEF TaskIInv
<1>3. ASSUME NEW h \in Hosts, run[x] = [NoRun EXCEPT !.stage = "claimed", !.host = h] PROVE FALSE
  <2>1. run[x].working = {} /\ run[x].paying = {} /\ run[x].stage = "claimed"
    BY <1>3, NoRunIs
  <2> QED
    BY <2>1
<1> QED
  BY <1>1, <1>2, <1>3 DEF RunStands

\* A step of an executing run on the row it found, `row` being the row or the row cancelled.
LEMMA RunSteps ==
  ASSUME TaskIInv, NEW x \in Runs, run[x].stage = "executing",
         NEW new, Continues(run[x], new),
         NEW row \in {task, [task EXCEPT !.status = "cancelled"]},
         new.aborted => run[x].aborted \/ row.status = "cancelled",
         paid' \subseteq Nodes, \A n \in paid' : n \in paid \/ new.status[n] = "completed",
         Step(x, row, run[x], new)
  PROVE  TaskIInv' /\ RowKept
<1>1. /\ run[x] # NoRun /\ run[x] \in RunRecord
      /\ Sound(run[x]) /\ RowFits(task.nodes, run[x])
      /\ run[x].aborted => task.status = "cancelled"
  BY Executing
<1>2. task \in TaskRecord /\ RowTells(task)
  BY DEF TaskIInv
<1>3. /\ row \in TaskRecord /\ row.nodes = task.nodes
      /\ row.status = task.status \/ row.status = "cancelled"
  BY <1>2 DEF TaskRecord, TaskStatuses
<1>4. row.status \in Ended => \A n \in Nodes : row.nodes[n] = "completed"
  BY <1>2, <1>3 DEF RowTells, Ended
<1>5. RowFits(row.nodes, run[x])
  BY <1>1, <1>3
<1>6. new.stage = "executing" /\ (run[x].aborted => new.aborted)
  BY DEF Continues
<1>7. new.aborted => row.status = "cancelled"
  BY <1>1, <1>3
<1>8. \A n \in Nodes : task.nodes[n] = "completed" => row.nodes[n] = "completed"
  BY <1>3
<1> QED
  BY <1>1, <1>3, <1>4, <1>5, <1>6, <1>7, <1>8, StepKeeps

LEMMA ResultKeeps ==
  ASSUME TaskIInv, NEW x \in Runs, NEW n \in Nodes, Result(x, n)
  PROVE  TaskIInv' /\ RowKept
<1>1. n \in run[x].working /\ paid' = paid
  BY DEF Result
<1>2. run[x].stage = "executing" /\ run[x] \in RunRecord /\ Sound(run[x])
  BY <1>1, Executing
<1>3. PICK new : new = [run[x] EXCEPT !.status[n] = "completed", !.working = run[x].working \ {n},
                                       !.paying = run[x].paying \cup {n}]
  OBVIOUS
<1>4. Continues(run[x], new)
  BY <1>1, <1>2, <1>3, NodeAnswers
<1>5. new.aborted = run[x].aborted
  BY <1>2, <1>3 DEF RunRecord
<1>6. Step(x, task, run[x], new)
  BY <1>3 DEF Result
<1>7. paid' \subseteq Nodes /\ \A m \in paid' : m \in paid
  BY <1>1 DEF TaskIInv
<1> QED
  BY <1>2, <1>4, <1>5, <1>6, <1>7, RunSteps

LEMMA ResultFailedKeeps ==
  ASSUME LimitSuffices, TaskIInv, NEW x \in Runs, NEW n \in Nodes, ResultFailed(x, n)
  PROVE  TaskIInv' /\ RowKept
<1>1. n \in run[x].working /\ paid' = paid
  BY DEF ResultFailed
<1>2. run[x].stage = "executing" /\ run[x] \in RunRecord /\ Sound(run[x])
  BY <1>1, Executing
<1>3. PICK new : new = Account([run[x] EXCEPT !.status[n] = "failed"], n, "failed")
  OBVIOUS
<1>4. Continues(run[x], new) /\ new.aborted = run[x].aborted
  BY <1>1, <1>2, <1>3, NodeFails DEF GoesAhead
<1>6. Step(x, task, run[x], new)
  BY <1>3 DEF ResultFailed
<1>7. paid' \subseteq Nodes /\ \A m \in paid' : m \in paid
  BY <1>1 DEF TaskIInv
<1> QED
  BY <1>2, <1>4, <1>6, <1>7, RunSteps

LEMMA ReleasedKeeps ==
  ASSUME LimitSuffices, TaskIInv, NEW x \in Runs, NEW n \in Nodes, Released(x, n)
  PROVE  TaskIInv' /\ RowKept
<1>1. n \in run[x].paying /\ paid' = paid \cup {n}
  BY DEF Released
<1>2. run[x].stage = "executing" /\ run[x] \in RunRecord /\ Sound(run[x])
  BY <1>1, Executing
<1>3. PICK new : new = Account(run[x], n, "completed")
  OBVIOUS
<1>4. Continues(run[x], new) /\ new.aborted = run[x].aborted
  BY <1>1, <1>2, <1>3, NodeCounts DEF GoesAhead
<1>5. run[x].status[n] = "completed"
  BY <1>1, <1>2 DEF Sound
<1>6. Step(x, task, run[x], new)
  BY <1>3 DEF Released
<1>7. paid' \subseteq Nodes /\ \A m \in paid' : m \in paid \/ new.status[m] = "completed"
  BY <1>1, <1>4, <1>5 DEF TaskIInv, Continues
<1> QED
  BY <1>2, <1>4, <1>6, <1>7, RunSteps

LEMMA ReleaseFailedKeeps ==
  ASSUME LimitSuffices, TaskIInv, NEW x \in Runs, NEW n \in Nodes, ReleaseFailed(x, n)
  PROVE  TaskIInv' /\ RowKept
<1>1. n \in run[x].paying /\ paid' = paid
  BY DEF ReleaseFailed
<1>2. run[x].stage = "executing" /\ run[x] \in RunRecord /\ Sound(run[x])
  BY <1>1, Executing
<1>3. PICK new : new = Account([run[x] EXCEPT !.payFault = TRUE], n, "completed")
  OBVIOUS
<1>4. Continues(run[x], new) /\ new.aborted = run[x].aborted
  BY <1>1, <1>2, <1>3, NodeCountsUnpaid DEF GoesAhead
<1>6. Step(x, task, run[x], new)
  BY <1>3 DEF ReleaseFailed
<1>7. paid' \subseteq Nodes /\ \A m \in paid' : m \in paid
  BY <1>1 DEF TaskIInv
<1> QED
  BY <1>2, <1>4, <1>6, <1>7, RunSteps

LEMMA AbortKeeps ==
  ASSUME TaskIInv, NEW h \in Hosts, Abort(h)
  PROVE  TaskIInv' /\ RowKept
<1>1. PICK x \in Controlled(h) :
        Step(x, [task EXCEPT !.status = "cancelled"], run[x], CancelPending([run[x] EXCEPT !.aborted = TRUE]))
  BY DEF Abort
<1>2. x \in Runs /\ run[x].stage = "executing" /\ run[x] \in RunRecord /\ Sound(run[x])
  BY <1>1, Executing DEF Controlled
<1>3. PICK new : new = CancelPending([run[x] EXCEPT !.aborted = TRUE])
  OBVIOUS
<1>4. Continues(run[x], new)
  BY <1>2, <1>3, RunAborts
<1>5. PICK row : row = [task EXCEPT !.status = "cancelled"]
  OBVIOUS
<1>6. row.status = "cancelled"
  BY <1>5 DEF TaskIInv, TaskRecord
<1>7. paid' \subseteq Nodes /\ \A m \in paid' : m \in paid
  BY DEF TaskIInv, Abort
<1> QED
  BY <1>1, <1>2, <1>3, <1>4, <1>5, <1>6, <1>7, RunSteps

\* The handler enters executeDAG with a copy that is sound from the start.
LEMMA EnterKeeps ==
  ASSUME LimitSuffices, TaskIInv, NEW x \in Runs, Enter(x)
  PROVE  TaskIInv' /\ RowKept
<1>1. run[x].stage = "claimed" /\ paid' = paid
  BY DEF Enter
<1>2. run[x] # NoRun
  BY <1>1, NoRunIs
<1>3. /\ run[x] \in RunRecord /\ run[x].failed = {} /\ run[x].working = {} /\ run[x].paying = {}
      /\ run[x].aborted = FALSE
  <2>1. RunStands(x)
    BY DEF TaskIInv
  <2>2. PICK h \in Hosts : run[x] = [NoRun EXCEPT !.stage = "claimed", !.host = h]
    BY <1>1, <1>2, <2>1 DEF RunStands
  <2>3. PICK r : r = [NoRun EXCEPT !.stage = "claimed", !.host = h]
    OBVIOUS
  <2>4. r \in RunRecord /\ r.failed = {} /\ r.working = {} /\ r.paying = {} /\ r.aborted = FALSE
    BY <2>3, NoRunIs
  <2> QED
    BY <2>2, <2>3, <2>4
<1>4. PICK nodes : nodes = Reset(task.nodes)
  OBVIOUS
<1>5. task.nodes \in [Nodes -> NodeStatuses]
  BY DEF TaskIInv, TaskRecord
<1>6. /\ nodes \in [Nodes -> NodeStatuses]
      /\ \A n \in Nodes : nodes[n] # "blocked" /\ (task.nodes[n] = "completed" => nodes[n] = "completed")
  BY <1>4, <1>5 DEF Reset, NodeStatuses
<1>7. PICK start : start = [run[x] EXCEPT !.stage = "executing", !.status = nodes,
                                          !.completed = {n \in Nodes : nodes[n] = "completed"}]
  OBVIOUS
<1>8. /\ start \in RunRecord /\ start.stage = "executing" /\ start.status = nodes
      /\ start.failed = {} /\ start.working = {} /\ start.paying = {} /\ start.aborted = FALSE
      /\ start.completed = {n \in Nodes : nodes[n] = "completed"}
  BY <1>3, <1>6, <1>7 DEF RunRecord, Stages
<1>9. Sound(start)
  BY <1>6, <1>8 DEF Sound
<1>10. PICK new : new = ScheduleReady(start)
  OBVIOUS
<1>11. Keeps(start, new)
  BY <1>8, <1>9, <1>10, Scheduling
<1>12. Continues(start, new) /\ new.stage = "executing" /\ ~new.aborted
  BY <1>8, <1>11 DEF Continues, Keeps, Follows
<1>13. PICK row : row = [status |-> "running", nodes |-> nodes]
  OBVIOUS
<1>14. row \in TaskRecord /\ row.nodes = nodes /\ row.status = "running"
  BY <1>6, <1>13 DEF TaskRecord, TaskStatuses
<1>15. Step(x, row, start, new)
  BY <1>4, <1>7, <1>10, <1>13 DEF Enter
<1>16. RowFits(row.nodes, start)
  BY <1>8, <1>14 DEF RowFits
<1>17. paid' \subseteq Nodes /\ \A m \in paid' : m \in paid
  BY <1>1 DEF TaskIInv
<1>18. row.status \notin Ended
  BY <1>14 DEF Ended
<1>19. \A n \in Nodes : task.nodes[n] = "completed" => row.nodes[n] = "completed"
  BY <1>6, <1>14
<1> QED
  BY <1>2, <1>3, <1>8, <1>12, <1>14, <1>15, <1>16, <1>17, <1>18, <1>19, StepKeeps

\* A row that only its status changed in, or that lost nodes that had not come in.
LEMMA RowWritten ==
  ASSUME TaskIInv, NEW row \in TaskRecord, task' = row,
         \A n \in Nodes : row.nodes[n] = task.nodes[n]
                          \/ (task.nodes[n] \in {"running", "pending"} /\ row.nodes[n] = "failed"),
         row.status \in {"cancelled", "failed"} \/ row.status = task.status,
         task.status = "cancelled" => row.status = "cancelled",
         paid' = paid, run' = run, phase' = phase, failures' = failures, disruptions' \in 0 .. MaxDisruptions,
         phase[Job] = "completed" => row.status \in {"completed", "payment_failed", "cancelled"},
         phase[Job] = "parked" => row.status = "failed",
         row.status = task.status => row.nodes = task.nodes
  PROVE  TaskIInv' /\ RowKept
<1>1. \A n \in Nodes : /\ row.nodes[n] = "completed" <=> task.nodes[n] = "completed"
                       /\ row.nodes[n] = "blocked" => task.nodes[n] = "blocked"
  OBVIOUS
<1>2. RowTells(row)
  <2>1. RowTells(task)
    BY DEF TaskIInv
  <2>2. {d \in Nodes : row.nodes[d] = "completed"} = {d \in Nodes : task.nodes[d] = "completed"}
    BY <1>1
  <2>3. row.status \in Ended => row.status = task.status
    BY DEF Ended
  <2> QED
    BY <1>1, <2>1, <2>2, <2>3 DEF RowTells
<1>3. ASSUME NEW y \in Runs PROVE RunStands(y)'
  <2>1. RunStands(y)
    BY DEF TaskIInv
  <2>2. RowFits(task.nodes, run[y]) => RowFits(row.nodes, run[y])
    BY <1>1 DEF RowFits
  <2> QED
    BY <2>1, <2>2 DEF RunStands
<1>4. PaidWorkIsRecorded'
  BY <1>1 DEF TaskIInv, PaidWorkIsRecorded
<1>5. RowTells(task)'
  BY <1>2 DEF RowTells
<1>6. TaskIInv'
  BY <1>3, <1>4, <1>5 DEF TaskIInv
<1>7. FinishedNodesStay
  BY <1>1 DEF FinishedNodesStay
<1>8. AbortSticks
  <2>1. ASSUME NEW y \in Runs, run[y].aborted PROVE task.status = "cancelled"
    <3>1. RunStands(y)
      BY DEF TaskIInv
    <3>2. ~NoRun.aborted
      BY NoRunIs
    <3>3. \A h \in Hosts : ~[NoRun EXCEPT !.stage = "claimed", !.host = h].aborted
      BY NoRunIs
    <3> QED
      BY <2>1, <3>1, <3>2, <3>3 DEF RunStands
  <2> QED
    BY <2>1 DEF AbortSticks
<1> QED
  BY <1>6, <1>7, <1>8 DEF RowKept

-----------------------------------------------------------------------------
LEMMA CancelRowKeeps ==
  ASSUME TaskIInv, NEW h \in Hosts, CancelRow(h)
  PROVE  TaskIInv' /\ RowKept
<1>1. PICK row : row = [task EXCEPT !.status = "cancelled"]
  OBVIOUS
<1>2. task \in TaskRecord
  BY DEF TaskIInv
<1>3. row \in TaskRecord /\ row.nodes = task.nodes /\ row.status = "cancelled"
  BY <1>1, <1>2 DEF TaskRecord, TaskStatuses
<1>4. /\ task' = row /\ task.status \in {"queued", "running"}
      /\ paid' = paid /\ run' = run /\ phase' = phase /\ failures' = failures /\ disruptions' = disruptions
  BY <1>1 DEF CancelRow, Undisturbed
<1>5. phase[Job] # "parked"
  BY <1>4 DEF TaskIInv
<1>6. disruptions' \in 0 .. MaxDisruptions
  BY <1>4 DEF TaskIInv
<1> QED
  BY <1>3, <1>4, <1>5, <1>6, RowWritten

\* A host that handles no run has none: what it has would be in flight for nobody.
LEMMA NoneIdle ==
  ASSUME TaskIInv, NEW h \in Hosts, NEW x \in OnHost(h)
  PROVE  x \in Handling(h) /\ run[x] # NoRun
<1>1. x \in Runs /\ run[x].host = h
  BY DEF OnHost
<1>2. run[x] # NoRun
  BY <1>1, NoRunIs, Numbers
<1>3. RunStands(x)
  BY <1>1 DEF TaskIInv
<1>4. run[x].stage \in {"claimed", "executing"}
  <2>1. CASE run[x].stage = "executing"
    BY <2>1
  <2>2. ASSUME NEW g \in Hosts, run[x] = [NoRun EXCEPT !.stage = "claimed", !.host = g]
        PROVE  run[x].stage = "claimed"
    <3>1. PICK r : r = [NoRun EXCEPT !.stage = "claimed", !.host = g]
      OBVIOUS
    <3>2. r.stage = "claimed"
      BY <3>1, NoRunIs
    <3> QED
      BY <2>2, <3>1, <3>2
  <2> QED
    BY <1>2, <1>3, <2>1, <2>2 DEF RunStands
<1> QED
  BY <1>1, <1>2, <1>4 DEF Handling

LEMMA ShutdownKeeps ==
  ASSUME TaskIInv, NEW h \in Hosts, Shutdown(h)
  PROVE  TaskIInv' /\ RowKept
<1>1. OnHost(h) = {}
  BY NoneIdle DEF Shutdown
<1>2. run \in [Runs -> RunRecord] /\ task \in TaskRecord /\ disruptions \in 0 .. MaxDisruptions
  BY DEF TaskIInv
<1>3. run' = run
  BY <1>1, <1>2 DEF Shutdown
<1>4. task.status = "running" /\ paid' = paid /\ phase' = phase /\ failures' = failures
  BY <1>1 DEF Shutdown
<1>5. disruptions' \in 0 .. MaxDisruptions
  BY <1>2, Numbers DEF Shutdown, Disturb
<1>6. PICK nodes : nodes = [n \in Nodes |-> IF task.nodes[n] \in {"running", "pending"}
                                            THEN "failed" ELSE task.nodes[n]]
  OBVIOUS
<1>7. PICK row : row = [status |-> "failed", nodes |-> nodes]
  OBVIOUS
<1>8. task' = row
  BY <1>4, <1>6, <1>7 DEF Shutdown, FailRunningTasks
<1>9. task.nodes \in [Nodes -> NodeStatuses]
  BY <1>2 DEF TaskRecord
<1>10. nodes \in [Nodes -> NodeStatuses]
  BY <1>6, <1>9 DEF NodeStatuses
<1>11. row \in TaskRecord /\ row.status = "failed" /\ row.nodes = nodes
  BY <1>7, <1>10 DEF TaskRecord, TaskStatuses
<1>12. \A n \in Nodes : row.nodes[n] = task.nodes[n]
                        \/ (task.nodes[n] \in {"running", "pending"} /\ row.nodes[n] = "failed")
  BY <1>6, <1>11
<1>13. phase[Job] # "completed"
  BY <1>4 DEF TaskIInv
<1> QED
  BY <1>3, <1>4, <1>5, <1>8, <1>11, <1>12, <1>13, RowWritten

\* The row stays as it is, and the job moves; the runs that are left are none, or one that was claimed.
LEMMA RowUnread ==
  ASSUME TaskIInv, task' = task, paid' = paid,
         phase' \in [{Job} -> Queue!Phases], failures' \in [{Job} -> 0 .. MaxAttempts],
         disruptions' \in 0 .. MaxDisruptions,
         run' \in [Runs -> RunRecord],
         \A x \in Runs : run'[x] = run[x] \/ run'[x] = NoRun
                         \/ \E h \in Hosts : run'[x] = [NoRun EXCEPT !.stage = "claimed", !.host = h],
         \A x, y \in Runs : run'[x] # NoRun /\ run'[y] # NoRun => x = y,
         (\E x \in Runs : run'[x] # NoRun) <=> phase'[Job] = "running",
         phase'[Job] = "completed" => task.status \in {"completed", "payment_failed", "cancelled"},
         phase'[Job] = "parked" => task.status = "failed"
  PROVE  TaskIInv' /\ RowKept
<1>1. ASSUME NEW x \in Runs PROVE RunStands(x)'
  <2>1. RunStands(x)
    BY DEF TaskIInv
  <2>2. CASE run'[x] = run[x]
    BY <2>1, <2>2 DEF RunStands
  <2>3. CASE run'[x] # run[x]
    BY <2>3 DEF RunStands
  <2> QED
    BY <2>2, <2>3
<1>2. PaidWorkIsRecorded' /\ RowTells(task)'
  BY DEF TaskIInv, PaidWorkIsRecorded, RowTells
<1>3. TaskIInv'
  BY <1>1, <1>2 DEF TaskIInv
<1>4. FinishedNodesStay
  BY DEF FinishedNodesStay
<1>5. AbortSticks
  <2>1. ASSUME NEW y \in Runs, run[y].aborted PROVE task.status = "cancelled"
    <3>1. RunStands(y)
      BY DEF TaskIInv
    <3>2. ~NoRun.aborted
      BY NoRunIs
    <3>3. \A h \in Hosts : ~[NoRun EXCEPT !.stage = "claimed", !.host = h].aborted
      BY NoRunIs
    <3> QED
      BY <2>1, <3>1, <3>2, <3>3 DEF RunStands
  <2> QED
    BY <2>1 DEF AbortSticks
<1> QED
  BY <1>3, <1>4, <1>5 DEF RowKept

\* Steps of the queue alone.
LEMMA QueueSteps ==
  ASSUME TaskIInv, NEW from, NEW to \in {"queued"}, from # "running",
         Queue!Move(Job, from, to), task' = task, paid' = paid, run' = run,
         failures' \in [{Job} -> 0 .. MaxAttempts], disruptions' \in 0 .. MaxDisruptions
  PROVE  TaskIInv' /\ RowKept
<1>1. phase \in [{Job} -> Queue!Phases] /\ run \in [Runs -> RunRecord]
  BY DEF TaskIInv
<1>2. phase[Job] = from /\ phase'[Job] = "queued" /\ phase' \in [{Job} -> Queue!Phases]
  BY <1>1, PhaseMoves, PhasesAre
<1>3. \A x \in Runs : run'[x] = NoRun
  BY <1>2 DEF TaskIInv
<1> QED
  BY <1>1, <1>2, <1>3, RowUnread

LEMMA SubmitKeeps ==
  ASSUME TaskIInv, Submit \/ Resume \/ Replay
  PROVE  TaskIInv' /\ RowKept
<1>1. failures \in [{Job} -> 0 .. MaxAttempts] /\ disruptions \in 0 .. MaxDisruptions
  BY DEF TaskIInv
<1>2. CASE Submit
  <2>1. /\ Queue!Move(Job, "unsubmitted", "queued") /\ task' = task /\ paid' = paid /\ run' = run
        /\ failures' = failures /\ disruptions' = disruptions
    BY <1>2 DEF Submit, Queue!Submit, Undisturbed
  <2> QED
    BY <1>1, <2>1, QueueSteps
<1>3. CASE Resume
  <2>1. /\ Queue!Move(Job, "stranded", "queued") /\ task' = task /\ paid' = paid /\ run' = run
        /\ failures' = failures /\ disruptions' = disruptions
    BY <1>3 DEF Resume, Undisturbed
  <2> QED
    BY <1>1, <2>1, QueueSteps
<1>4. CASE Replay
  <2>1. /\ Queue!Move(Job, "parked", "queued") /\ task' = task /\ paid' = paid /\ run' = run
        /\ failures' = [failures EXCEPT ![Job] = 0]
    BY <1>4 DEF Replay, Queue!Replay
  <2>2. disruptions' \in 0 .. MaxDisruptions
    BY <1>1, <1>4, Numbers DEF Replay, Disturb
  <2>3. failures' \in [{Job} -> 0 .. MaxAttempts]
    BY <1>1, <2>1, Numbers
  <2> QED
    BY <2>1, <2>2, <2>3, QueueSteps
<1> QED
  BY <1>2, <1>3, <1>4

LEMMA ClaimKeeps ==
  ASSUME TaskIInv, NEW x \in Runs, NEW h \in Hosts, Claim(x, h)
  PROVE  TaskIInv' /\ RowKept
<1>1. PICK r : r = [NoRun EXCEPT !.stage = "claimed", !.host = h]
  OBVIOUS
<1>2. r \in RunRecord /\ r # NoRun
  BY <1>1, NoRunIs
<1>3. /\ Queue!Move(Job, "queued", "running") /\ failures' = failures /\ disruptions' = disruptions
      /\ task' = task /\ paid' = paid /\ run' = [run EXCEPT ![x] = r]
  BY <1>1 DEF Claim, Queue!Start, Undisturbed
<1>4. /\ phase \in [{Job} -> Queue!Phases] /\ run \in [Runs -> RunRecord]
      /\ failures \in [{Job} -> 0 .. MaxAttempts] /\ disruptions \in 0 .. MaxDisruptions
  BY DEF TaskIInv
<1>5. phase[Job] = "queued" /\ phase'[Job] = "running" /\ phase' \in [{Job} -> Queue!Phases]
  <2>1. "running" \in Queue!Phases
    BY PhasesAre
  <2> QED
    BY <1>3, <1>4, <2>1, PhaseMoves
<1>6. \A y \in Runs : run[y] = NoRun
  BY <1>5 DEF TaskIInv
<1>7. run' \in [Runs -> RunRecord] /\ run'[x] = r /\ \A y \in Runs : y # x => run'[y] = NoRun
  BY <1>2, <1>3, <1>4, <1>6
<1>8. \A y \in Runs : run'[y] = run[y] \/ run'[y] = NoRun
                         \/ \E g \in Hosts : run'[y] = [NoRun EXCEPT !.stage = "claimed", !.host = g]
  BY <1>1, <1>7
<1> QED
  BY <1>2, <1>3, <1>4, <1>5, <1>7, <1>8, RowUnread

\* A run goes, and the job is left to others.
LEMMA RunGoes ==
  ASSUME TaskIInv, task' = task, paid' = paid,
         NEW to \in {"completed", "stranded"}, Queue!Move(Job, "running", to),
         to = "completed" => task.status = "cancelled",
         failures' = failures, disruptions' \in 0 .. MaxDisruptions,
         run' \in [Runs -> RunRecord], \A x \in Runs : run'[x] = NoRun
  PROVE  TaskIInv' /\ RowKept
<1>1. phase \in [{Job} -> Queue!Phases] /\ failures \in [{Job} -> 0 .. MaxAttempts]
  BY DEF TaskIInv
<1>2. phase'[Job] = to /\ phase' \in [{Job} -> Queue!Phases]
  <2>1. to \in Queue!Phases
    BY PhasesAre
  <2> QED
    BY <1>1, <2>1, PhaseMoves
<1> QED
  BY <1>1, <1>2, RowUnread

LEMMA SkipKeeps ==
  ASSUME TaskIInv, NEW x \in Runs, Skip(x)
  PROVE  TaskIInv' /\ RowKept
<1>1. /\ run[x].stage = "claimed" /\ task.status = "cancelled" /\ task' = task /\ paid' = paid
      /\ run' = [run EXCEPT ![x] = NoRun] /\ disruptions' = disruptions
      /\ Queue!Move(Job, "running", "completed") /\ failures' = failures
  BY DEF Skip, Queue!Succeed, Undisturbed
<1>2. run[x] # NoRun
  BY <1>1, NoRunIs
<1>3. \A y \in Runs : y # x => run[y] = NoRun
  BY <1>2, OneRunOnly
<1>4. run \in [Runs -> RunRecord] /\ disruptions \in 0 .. MaxDisruptions
  BY DEF TaskIInv
<1>5. run' \in [Runs -> RunRecord] /\ \A y \in Runs : run'[y] = NoRun
  BY <1>1, <1>3, <1>4, NoRunIs
<1> QED
  BY <1>1, <1>4, <1>5, RunGoes

LEMMA CrashKeeps ==
  ASSUME TaskIInv, NEW h \in Hosts, Crash(h)
  PROVE  TaskIInv' /\ RowKept
<1>1. PICK x \in OnHost(h) : TRUE
  BY DEF Crash
<1>2. x \in Runs /\ x \in Handling(h) /\ run[x] # NoRun
  BY NoneIdle DEF OnHost
<1>3. \A y \in Runs : y # x => run[y] = NoRun
  BY <1>2, OneRunOnly
<1>4. /\ Queue!Move(Job, "running", "stranded") /\ task' = task /\ paid' = paid /\ failures' = failures
      /\ run' = [y \in Runs |-> IF y \in OnHost(h) THEN NoRun ELSE run[y]]
  BY <1>2 DEF Crash
<1>5. run \in [Runs -> RunRecord] /\ disruptions \in 0 .. MaxDisruptions
  BY DEF TaskIInv
<1>6. disruptions' \in 0 .. MaxDisruptions
  BY <1>5, Numbers DEF Crash, Disturb
<1>7. run' \in [Runs -> RunRecord] /\ \A y \in Runs : run'[y] = NoRun
  BY <1>1, <1>3, <1>4, <1>5, NoRunIs
<1> QED
  BY <1>4, <1>6, <1>7, RunGoes

LEMMA TaskInitially == Init => TaskIInv
<1> SUFFICES ASSUME Init PROVE TaskIInv
  OBVIOUS
<1>1. PICK nodes : nodes = [n \in Nodes |-> "pending"]
  OBVIOUS
<1>2. nodes \in [Nodes -> NodeStatuses] /\ \A n \in Nodes : nodes[n] = "pending"
  BY <1>1 DEF NodeStatuses
<1>3. task \in TaskRecord /\ task.nodes = nodes /\ task.status = "queued"
  BY <1>1, <1>2 DEF Init, TaskRecord, TaskStatuses
<1>4. run \in [Runs -> RunRecord] /\ \A x \in Runs : run[x] = NoRun
  BY NoRunIs DEF Init
<1>5. /\ phase \in [{Job} -> Queue!Phases] /\ phase[Job] = "unsubmitted"
      /\ failures \in [{Job} -> 0 .. MaxAttempts] /\ disruptions \in 0 .. MaxDisruptions
  BY PhasesAre, Numbers DEF Init, Queue!Init
<1>6. paid = {} /\ RowTells(task)
  BY <1>2, <1>3 DEF Init, RowTells, Ended
<1> QED
  BY <1>3, <1>4, <1>5, <1>6 DEF TaskIInv, RunStands, PaidWorkIsRecorded

LEMMA TaskNextKeeps ==
  ASSUME LimitSuffices, TaskIInv, [Next]_vars
  PROVE  TaskIInv' /\ RowKept
<1>1. CASE UNCHANGED vars
  <2>1. /\ task' = task /\ paid' = paid /\ run' = run /\ phase' = phase
        /\ failures' = failures /\ disruptions' = disruptions
    BY <1>1 DEF vars
  <2> QED
    BY <2>1, RowUnread DEF TaskIInv
<1>2. CASE Submit \/ Resume \/ Replay
  BY <1>2, SubmitKeeps
<1>3. ASSUME NEW h \in Hosts, Abort(h) \/ CancelRow(h) \/ Crash(h) \/ Shutdown(h)
      PROVE  TaskIInv' /\ RowKept
  BY <1>3, AbortKeeps, CancelRowKeeps, CrashKeeps, ShutdownKeeps
<1>4. ASSUME NEW x \in Runs, NEW h \in Hosts, Claim(x, h) PROVE TaskIInv' /\ RowKept
  BY <1>4, ClaimKeeps
<1>5. ASSUME NEW x \in Runs, Skip(x) \/ Enter(x) PROVE TaskIInv' /\ RowKept
  BY <1>5, SkipKeeps, EnterKeeps
<1>6. ASSUME NEW x \in Runs, NEW n \in Nodes, Finish(x, n) PROVE TaskIInv' /\ RowKept
  BY <1>6, ResultKeeps, ResultFailedKeeps, ReleasedKeeps, ReleaseFailedKeeps DEF Finish
<1> QED
  BY <1>1, <1>2, <1>3, <1>4, <1>5, <1>6 DEF Next

LEMMA TaskImplies ==
  ASSUME LimitSuffices, TaskIInv
  PROVE  TaskInv /\ RunIsSound /\ WorkIsSound
<1>1. ASSUME NEW x \in Runs
      PROVE  /\ run[x] \in RunRecord /\ run[x].stage # "settled"
             /\ Cardinality(Active(run[x])) <= Concurrency
             /\ \A n \in run[x].working : \A d \in Deps[n] : task.nodes[d] = "completed"
  <2>1. run[x] \in RunRecord /\ RunStands(x)
    BY DEF TaskIInv
  <2>2. CASE run[x].stage = "executing"
    <3>1. Sound(run[x]) /\ RowFits(task.nodes, run[x])
      BY <2>2, Executing
    <3>2. \A n \in {} : run[x].status[n] = "pending" /\ Deps[n] \subseteq run[x].completed
      OBVIOUS
    <3>3. {} \in SUBSET Nodes /\ Cardinality({}) = 0
      BY FS_EmptySet
    <3>4. /\ Cardinality(Active(run[x])) \in Nat
          /\ Cardinality(Active(run[x])) + Cardinality({}) <= Concurrency
      BY <2>1, <3>1, <3>2, <3>3, SideBySide
    <3>5. \A n \in run[x].working : \A d \in Deps[n] : task.nodes[d] = "completed"
      <4>1. \A d \in run[x].completed : d \in Nodes /\ run[x].status[d] = "completed"
        BY <2>1, <3>1, RunFields DEF Sound
      <4>2. \A d \in run[x].completed : task.nodes[d] = "completed"
        BY <3>1, <4>1 DEF RowFits
      <4>3. \A n \in run[x].working : Deps[n] \subseteq run[x].completed
        BY <3>1 DEF Sound
      <4> QED
        BY <4>2, <4>3
    <3> QED
      BY <2>1, <2>2, <3>3, <3>4, <3>5
  <2>3. CASE run[x].stage # "executing"
    <3>1. run[x].working = {} /\ run[x].paying = {}
      BY <2>3, Executing
    <3>2. Active(run[x]) = {}
      BY <3>1 DEF Active
    <3>3. Cardinality(Active(run[x])) <= Concurrency
      BY <3>2, FS_EmptySet, ExecutionAssumption
    <3>4. run[x].stage # "settled"
      <4>1. ASSUME NEW h \in Hosts, run[x] = [NoRun EXCEPT !.stage = "claimed", !.host = h]
            PROVE  run[x].stage = "claimed"
        <5>1. PICK r : r = [NoRun EXCEPT !.stage = "claimed", !.host = h]
          OBVIOUS
        <5>2. r.stage = "claimed"
          BY <5>1, NoRunIs
        <5> QED
          BY <4>1, <5>1, <5>2
      <4> QED
        BY <2>1, <2>3, <4>1, NoRunIs DEF RunStands
    <3> QED
      BY <2>1, <3>1, <3>3, <3>4
  <2> QED
    BY <2>2, <2>3
<1>2. TypeOK
  <2>1. ASSUME NEW x \in Runs
        PROVE  LET r == run[x] IN
               /\ r.stage \in Stages
               /\ r.host \in Hosts \cup {NoHost}
               /\ r.status \in [Nodes -> NodeStatuses]
               /\ r.completed \subseteq Nodes /\ r.failed \subseteq Nodes
               /\ r.working \subseteq Nodes /\ r.paying \subseteq Nodes
               /\ r.waiting \in Seq(Nodes) /\ Len(r.waiting) = Cardinality(Waiting(r))
               /\ Cardinality(Active(r)) <= Concurrency
               /\ r.aborted \in BOOLEAN /\ r.payFault \in BOOLEAN
    <3>1. Waiting(run[x]) = {} /\ run[x].waiting = <<>>
      BY <1>1, NobodyWaits, RunFields
    <3>2. run[x].waiting \in Seq(Nodes) /\ Len(run[x].waiting) = Cardinality(Waiting(run[x]))
      BY <3>1, EmptySeq, FS_EmptySet
    <3> QED
      BY <1>1, <3>2, RunFields
  <2>2. task \in [status : TaskStatuses, nodes : [Nodes -> NodeStatuses]]
    BY DEF TaskIInv, TaskRecord
  <2> QED
    BY <2>1, <2>2 DEF TypeOK, TaskIInv
<1>3. OneRunPerNode
  <2> SUFFICES ASSUME NEW x \in Runs, NEW y \in Runs, x # y
               PROVE  Active(run[x]) \cap Active(run[y]) = {}
    BY DEF OneRunPerNode
  <2>1. run[x] = NoRun \/ run[y] = NoRun
    BY DEF TaskIInv
  <2>2. Active(NoRun) = {}
    BY DEF Active, NoRun
  <2> QED
    BY <2>1, <2>2
<1>4. NoStragglers
  BY <1>1 DEF NoStragglers
<1>5. JobFollowsTask
  BY DEF TaskIInv, RowTells, JobFollowsTask, Ended
<1>6. BlockedForGood
  BY DEF TaskIInv, RowTells, BlockedForGood
<1>7. PaidWorkIsRecorded
  BY DEF TaskIInv
<1>8. WorkFollowsInputs
  BY <1>1 DEF WorkFollowsInputs
<1> QED
  BY <1>2, <1>3, <1>4, <1>5, <1>6, <1>7, <1>8 DEF TaskInv, RunIsSound, WorkIsSound

LEMMA TaskInvariance == ASSUME LimitSuffices PROVE Spec => []TaskIInv
<1>1. TaskIInv /\ [Next]_vars => TaskIInv'
  BY TaskNextKeeps
<1> QED
  BY <1>1, TaskInitially, PTL DEF Spec

\* What the coordinator (coordinator.ts, executeDAG and runNode) pays for is in the task row, and no
\* agent is sent a node whose inputs are not there: for any DAG, any number of processes and of
\* attempts, whatever crashes, retries, cancellations and shutdowns come between.
THEOREM WorkHolds == ASSUME LimitSuffices PROVE Spec => []WorkIsSound
<1>1. TaskIInv => WorkIsSound
  BY TaskImplies
<1> QED
  BY <1>1, TaskInvariance, PTL

\* executeDAG resolves with no node in flight, the job ends as its task did, and a node given up as
\* blocked could not have run.
THEOREM RunHolds == ASSUME LimitSuffices PROVE Spec => []RunIsSound
<1>1. TaskIInv => RunIsSound
  BY TaskImplies
<1> QED
  BY <1>1, TaskInvariance, PTL

\* The state is well typed, the limiter's slots included, and no node has two runs at work on it.
THEOREM TaskHolds == ASSUME LimitSuffices PROVE Spec => []TaskInv
<1>1. TaskIInv => TaskInv
  BY TaskImplies
<1> QED
  BY <1>1, TaskInvariance, PTL

\* What the row records of finished work, and of a cancellation by the process that ran the task, is
\* never taken back by whoever writes the row next (updateNode, updateTask, failRunningTasks).
THEOREM RecordHolds == ASSUME LimitSuffices PROVE Spec => RecordStands
<1>1. TaskIInv /\ [Next]_vars => [FinishedNodesStay /\ AbortSticks]_vars
  BY TaskNextKeeps DEF RowKept
<1> QED
  BY <1>1, TaskInvariance, PTL DEF Spec, RecordStands
=============================================================================
