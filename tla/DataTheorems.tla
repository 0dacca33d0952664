---------------------------- MODULE DataTheorems ----------------------------
(***************************************************************************)
(* Sums over finite sets, sequences and loops: what the folds, the sequence*)
(* operators and the loops of the specifications come to, for every finite *)
(* set and any number of rounds.  Stated first-order, by well-founded      *)
(* induction over a least counterexample.                                  *)
(***************************************************************************)
EXTENDS Integers, FiniteSets, Sequences, Functions, SequenceTheorems,
        FiniteSetTheorems, WellFoundedInduction, TLAPS

\* Induction over the natural numbers.
LEMMA NatSetInduction ==
  ASSUME NEW G, 0 \in G, \A n \in Nat : n \in G => n + 1 \in G
  PROVE  \A n \in Nat : n \in G
<1> DEFINE bad == {n \in Nat : n \notin G}
<1> SUFFICES ASSUME bad # {} PROVE FALSE
  OBVIOUS
<1>0. \E n \in bad : \A m \in bad : <<m, n>> \notin OpToRel(<, Nat)
  <2>1. bad \subseteq Nat
    OBVIOUS
  <2> HIDE DEF bad
  <2> QED
    BY <2>1, NatLessThanWellFounded, WFMin
<1>1. PICK n \in bad : \A m \in bad : <<m, n>> \notin OpToRel(<, Nat)
  BY <1>0
<1>2. n # 0
  OBVIOUS
<1>3. n - 1 \in Nat /\ n - 1 < n
  BY <1>2
<1>4. n - 1 \notin bad
  BY <1>1, <1>3 DEF OpToRel
<1> QED
  BY <1>3, <1>4

\* A set of numbers below a bound has a greatest.
LEMMA GreatestExists ==
  ASSUME NEW n \in Nat, NEW T, T \subseteq 1 .. n, T # {}
  PROVE  \E i \in T : \A j \in T : j <= i
<1> DEFINE G == {k \in Nat : \A U \in SUBSET (1 .. k) :
                   U # {} => \E i \in U : \A j \in U : j <= i}
<1>1. 0 \in G
  <2>1. \A U \in SUBSET (1 .. 0) : U = {}
    OBVIOUS
  <2> QED
    BY <2>1
<1>2. ASSUME NEW k \in Nat, k \in G PROVE k + 1 \in G
  <2> SUFFICES ASSUME NEW U \in SUBSET (1 .. k + 1), U # {}
               PROVE  \E i \in U : \A j \in U : j <= i
    OBVIOUS
  <2>1. CASE k + 1 \in U
    BY <2>1
  <2>2. CASE k + 1 \notin U
    <3>1. U \in SUBSET (1 .. k)
      BY <2>2
    <3> QED
      BY <1>2, <3>1
  <2> QED
    BY <2>1, <2>2
<1>3. n \in G
  <2> HIDE DEF G
  <2> QED
    BY <1>1, <1>2, NatSetInduction
<1> QED
  BY <1>3

\* Induction over the subsets of a finite set.
LEMMA SubsetInduction ==
  ASSUME NEW S, IsFiniteSet(S), NEW G,
         \A T \in SUBSET S : (\A U \in SUBSET T : U # T => U \in G) => T \in G
  PROVE  \A T \in SUBSET S : T \in G
<1> DEFINE bad == {T \in SUBSET S : T \notin G}
<1> SUFFICES ASSUME bad # {} PROVE FALSE
  OBVIOUS
<1>1. IsWellFoundedOn(StrictSubsetOrdering(S), SUBSET S)
  <2>1. FiniteSubsetsOf(S) = SUBSET S
    BY FS_FiniteSubsetsOfFinite
  <2>2. IsWellFoundedOn(StrictSubsetOrdering(S), FiniteSubsetsOf(S))
    BY FS_StrictSubsetOrderingWellFounded
  <2> QED
    BY <2>1, <2>2
<1>2. \E T \in bad : \A U \in bad : <<U, T>> \notin StrictSubsetOrdering(S)
  <2>1. bad \subseteq SUBSET S
    OBVIOUS
  <2> HIDE DEF bad
  <2> QED
    BY <1>1, <2>1, WFMin
<1>22. PICK T \in bad : \A U \in bad : <<U, T>> \notin StrictSubsetOrdering(S)
  BY <1>2
<1>3. \A U \in SUBSET T : U # T => U \in G
  BY <1>22 DEF StrictSubsetOrdering
<1> QED
  BY <1>3

-----------------------------------------------------------------------------
\* The recursion that the fold over the subsets of S stands for.
Summed(f, D, it) ==
  it = [T \in D |-> IF T = {} THEN 0
                    ELSE LET x == CHOOSE x \in T : TRUE IN f[x] + it[T \ {x}]]

LEMMA SumIsSummed ==
  ASSUME NEW f, NEW S
  PROVE  SumFunctionOnSet(f, S) = (CHOOSE it : Summed(f, SUBSET S, it))[S]
BY DEF SumFunctionOnSet, FoldFunctionOnSet, MapThenFoldSet, Summed

\* There is a function that satisfies it.
LEMMA SummedExists ==
  ASSUME NEW f, NEW S, IsFiniteSet(S)
  PROVE  \E it : Summed(f, SUBSET S, it)
<1> DEFINE upTo(n) == {T \in SUBSET S : Cardinality(T) <= n}
           G == {n \in Nat : \E it : Summed(f, upTo(n), it)}
<1>0. \A T \in SUBSET S : IsFiniteSet(T) /\ Cardinality(T) \in Nat
  BY FS_Subset, FS_CardinalityType
<1>1. 0 \in G
  <2>1. upTo(0) = {{}}
    BY <1>0, FS_EmptySet
  <2>2. Summed(f, upTo(0), [T \in upTo(0) |-> 0])
    BY <2>1 DEF Summed
  <2> QED
    BY <2>2
<1>2. ASSUME NEW n \in Nat, n \in G PROVE n + 1 \in G
  <2>1. PICK old : Summed(f, upTo(n), old)
    BY <1>2
  <2> DEFINE choice(T) == CHOOSE x \in T : TRUE
             new == [T \in upTo(n + 1) |-> IF T = {} THEN 0 ELSE f[choice(T)] + old[T \ {choice(T)}]]
  <2>2. ASSUME NEW T \in upTo(n + 1), T # {} PROVE T \ {choice(T)} \in upTo(n)
    <3>1. choice(T) \in T
      BY <2>2
    <3>2. Cardinality(T \ {choice(T)}) = Cardinality(T) - 1
      BY <3>1, <1>0, FS_RemoveElement
    <3> QED
      BY <3>2, <1>0
  <2>3. ASSUME NEW T \in upTo(n) PROVE T \in upTo(n + 1) /\ new[T] = old[T]
    BY <2>1, <1>0 DEF Summed
  <2>4. \A T \in upTo(n + 1) : T # {} => old[T \ {choice(T)}] = new[T \ {choice(T)}]
    <3> HIDE DEF new
    <3> QED BY <2>2, <2>3
  <2>5. Summed(f, upTo(n + 1), new)
    <3>1. new = [T \in upTo(n + 1) |-> new[T]]
      OBVIOUS
    <3>2. \A T \in upTo(n + 1) :
            new[T] = IF T = {} THEN 0 ELSE f[choice(T)] + old[T \ {choice(T)}]
      OBVIOUS
    <3> HIDE DEF new, upTo
    <3>3. \A T \in upTo(n + 1) :
            new[T] = IF T = {} THEN 0 ELSE f[choice(T)] + new[T \ {choice(T)}]
      BY <2>4, <3>2
    <3> QED
      BY <3>1, <3>3, Zenon DEF Summed
  <2> QED
    <3> HIDE DEF new
    <3> QED
      BY <2>5
<1>3. Cardinality(S) \in G
  <2> HIDE DEF G
  <2>1. \A n \in Nat : n \in G
    BY <1>1, <1>2, NatSetInduction
  <2> QED
    BY <2>1, FS_CardinalityType
<1>4. upTo(Cardinality(S)) = SUBSET S
  BY FS_Subset
<1> QED
  BY <1>3, <1>4

\* The sum over nothing, and over a set without the element that CHOOSE takes first.
LEMMA SumStep ==
  ASSUME NEW f, NEW S, IsFiniteSet(S)
  PROVE  /\ S = {} => SumFunctionOnSet(f, S) = 0
         /\ S # {} => LET x == CHOOSE x \in S : TRUE IN
                      SumFunctionOnSet(f, S) = f[x] + SumFunctionOnSet(f, S \ {x})
<1> DEFINE x == CHOOSE x \in S : TRUE
           big == CHOOSE it : Summed(f, SUBSET S, it)
           small == CHOOSE it : Summed(f, SUBSET (S \ {x}), it)
<1>1. Summed(f, SUBSET S, big)
  BY SummedExists
<1>2. Summed(f, SUBSET (S \ {x}), small)
  BY SummedExists, FS_Subset, S \ {x} \subseteq S
<1>3. SumFunctionOnSet(f, S) = big[S] /\ SumFunctionOnSet(f, S \ {x}) = small[S \ {x}]
  BY SumIsSummed
<1>4. small[S \ {x}] = big[S \ {x}]
  <2> DEFINE R == S \ {x}
             choice(T) == CHOOSE y \in T : TRUE
             G == {T \in SUBSET R : small[T] = big[T]}
  <2>1. IsFiniteSet(R) /\ R \in SUBSET S
    BY FS_Subset, S \ {x} \subseteq S
  <2>2. ASSUME NEW T \in SUBSET R, \A U \in SUBSET T : U # T => U \in G
        PROVE  T \in G
    <3> HIDE DEF small, big, x
    <3>1. small[T] = IF T = {} THEN 0 ELSE f[choice(T)] + small[T \ {choice(T)}]
      BY <1>2 DEF Summed
    <3>2. big[T] = IF T = {} THEN 0 ELSE f[choice(T)] + big[T \ {choice(T)}]
      BY <1>1 DEF Summed
    <3>3. T # {} => T \ {choice(T)} \in SUBSET T /\ T \ {choice(T)} # T
      OBVIOUS
    <3> QED
      BY <2>2, <3>1, <3>2, <3>3
  <2>3. \A T \in SUBSET R : T \in G
    <3> HIDE DEF G, R
    <3> QED
      BY <2>1, <2>2, SubsetInduction
  <2>4. R \in SUBSET R
    OBVIOUS
  <2> QED
    BY <2>3, <2>4
<1>5. big[S] = IF S = {} THEN 0 ELSE f[x] + big[S \ {x}]
  <2> HIDE DEF big
  <2> QED BY <1>1 DEF Summed
<1> QED
  BY <1>3, <1>4, <1>5

LEMMA SumEmpty == ASSUME NEW f PROVE SumFunctionOnSet(f, {}) = 0
BY SumStep, FS_EmptySet

\* Sums of integers are integers, of natural numbers natural, and depend on the summands only.
LEMMA SumType ==
  ASSUME NEW f, NEW S, IsFiniteSet(S), \A x \in S : f[x] \in Int
  PROVE  SumFunctionOnSet(f, S) \in Int
<1> DEFINE G == {T \in SUBSET S : SumFunctionOnSet(f, T) \in Int}
<1>1. ASSUME NEW T \in SUBSET S, \A U \in SUBSET T : U # T => U \in G
      PROVE  T \in G
  <2> DEFINE x == CHOOSE x \in T : TRUE
  <2>1. IsFiniteSet(T)
    BY FS_Subset
  <2>2. CASE T = {}
    BY <2>2, SumEmpty
  <2>3. CASE T # {}
    <3>1. SumFunctionOnSet(f, T) = f[x] + SumFunctionOnSet(f, T \ {x})
      BY <2>1, <2>3, SumStep
    <3>2. x \in S /\ T \ {x} \in G
      BY <1>1, <2>3
    <3> QED
      BY <3>1, <3>2
  <2> QED
    BY <2>2, <2>3
<1> HIDE DEF G
<1>2. S \in G
  BY <1>1, SubsetInduction
<1> QED
  BY <1>2 DEF G

LEMMA SumNat ==
  ASSUME NEW f, NEW S, IsFiniteSet(S), \A x \in S : f[x] \in Nat
  PROVE  SumFunctionOnSet(f, S) \in Nat
<1> DEFINE G == {T \in SUBSET S : SumFunctionOnSet(f, T) \in Nat}
<1>1. ASSUME NEW T \in SUBSET S, \A U \in SUBSET T : U # T => U \in G
      PROVE  T \in G
  <2> DEFINE x == CHOOSE x \in T : TRUE
  <2>1. IsFiniteSet(T)
    BY FS_Subset
  <2>2. CASE T = {}
    BY <2>2, SumEmpty
  <2>3. CASE T # {}
    <3>1. SumFunctionOnSet(f, T) = f[x] + SumFunctionOnSet(f, T \ {x})
      BY <2>1, <2>3, SumStep
    <3>2. x \in S /\ T \ {x} \in G
      BY <1>1, <2>3
    <3> QED
      BY <3>1, <3>2
  <2> QED
    BY <2>2, <2>3
<1> HIDE DEF G
<1>2. S \in G
  BY <1>1, SubsetInduction
<1> QED
  BY <1>2 DEF G

LEMMA SumSame ==
  ASSUME NEW f, NEW g, NEW S, IsFiniteSet(S), \A x \in S : f[x] = g[x]
  PROVE  SumFunctionOnSet(f, S) = SumFunctionOnSet(g, S)
<1> DEFINE G == {T \in SUBSET S : SumFunctionOnSet(f, T) = SumFunctionOnSet(g, T)}
<1>1. ASSUME NEW T \in SUBSET S, \A U \in SUBSET T : U # T => U \in G
      PROVE  T \in G
  <2> DEFINE x == CHOOSE x \in T : TRUE
  <2>1. IsFiniteSet(T)
    BY FS_Subset
  <2>2. CASE T = {}
    BY <2>2, SumEmpty
  <2>3. CASE T # {}
    <3>1. /\ SumFunctionOnSet(f, T) = f[x] + SumFunctionOnSet(f, T \ {x})
          /\ SumFunctionOnSet(g, T) = g[x] + SumFunctionOnSet(g, T \ {x})
      BY <2>1, <2>3, SumStep
    <3>2. x \in S /\ T \ {x} \in G
      BY <1>1, <2>3
    <3> QED
      BY <3>1, <3>2
  <2> QED
    BY <2>2, <2>3
<1> HIDE DEF G
<1>2. S \in G
  BY <1>1, SubsetInduction
<1> QED
  BY <1>2 DEF G

\* Any element can be taken out of a sum.
LEMMA SumTake ==
  ASSUME NEW f, NEW S, IsFiniteSet(S), \A x \in S : f[x] \in Int
  PROVE  \A x \in S : SumFunctionOnSet(f, S) = f[x] + SumFunctionOnSet(f, S \ {x})
<1> DEFINE G == {T \in SUBSET S : \A x \in T :
                   SumFunctionOnSet(f, T) = f[x] + SumFunctionOnSet(f, T \ {x})}
<1>1. ASSUME NEW T \in SUBSET S, \A U \in SUBSET T : U # T => U \in G, NEW x \in T
      PROVE  SumFunctionOnSet(f, T) = f[x] + SumFunctionOnSet(f, T \ {x})
  <2> DEFINE c == CHOOSE y \in T : TRUE
  <2>1. /\ IsFiniteSet(T) /\ IsFiniteSet(T \ {c, x}) /\ T # {} /\ c \in T
        /\ f[x] \in Int /\ f[c] \in Int
    BY FS_Subset
  <2>2. SumFunctionOnSet(f, T) = f[c] + SumFunctionOnSet(f, T \ {c})
    BY <2>1, SumStep
  <2>3. CASE x = c
    BY <2>2, <2>3
  <2>4. CASE x # c
    <3>1. T \ {c} \in G /\ T \ {x} \in G /\ x \in T \ {c} /\ c \in T \ {x}
      BY <1>1, <2>1, <2>4
    <3>2. SumFunctionOnSet(f, T \ {c}) = f[x] + SumFunctionOnSet(f, (T \ {c}) \ {x})
      BY <3>1
    <3>3. SumFunctionOnSet(f, T \ {x}) = f[c] + SumFunctionOnSet(f, (T \ {x}) \ {c})
      BY <3>1
    <3>4. (T \ {c}) \ {x} = T \ {c, x} /\ (T \ {x}) \ {c} = T \ {c, x}
      OBVIOUS
    <3>5. SumFunctionOnSet(f, T \ {c, x}) \in Int
      BY <2>1, SumType
    <3> DEFINE r == SumFunctionOnSet(f, T \ {c, x})
    <3>6. SumFunctionOnSet(f, T) = f[c] + (f[x] + r) /\ SumFunctionOnSet(f, T \ {x}) = f[c] + r
      BY <2>2, <3>2, <3>3, <3>4
    <3>7. r \in Int
      BY <3>5
    <3> HIDE DEF c, r
    <3> QED
      BY <2>1, <3>6, <3>7
  <2> QED
    BY <2>3, <2>4
<1>2. \A T \in SUBSET S : (\A U \in SUBSET T : U # T => U \in G) => T \in G
  BY <1>1
<1> HIDE DEF G
<1>3. S \in G
  BY <1>2, SubsetInduction
<1> QED
  BY <1>3 DEF G

\* A sum changes by as much as the one summand that changes.
LEMMA SumChange ==
  ASSUME NEW f, NEW g, NEW S, IsFiniteSet(S), \A x \in S : f[x] \in Int /\ g[x] \in Int,
         NEW x \in S, \A y \in S : y # x => g[y] = f[y]
  PROVE  SumFunctionOnSet(g, S) = SumFunctionOnSet(f, S) + g[x] - f[x]
<1>1. IsFiniteSet(S \ {x})
  BY FS_Subset, S \ {x} \subseteq S
<1>2. SumFunctionOnSet(f, S \ {x}) = SumFunctionOnSet(g, S \ {x})
  BY <1>1, SumSame, \A y \in S \ {x} : f[y] = g[y]
<1>3. SumFunctionOnSet(f, S) = f[x] + SumFunctionOnSet(f, S \ {x})
  BY SumTake
<1>4. SumFunctionOnSet(g, S) = g[x] + SumFunctionOnSet(g, S \ {x})
  BY SumTake
<1>5. SumFunctionOnSet(f, S \ {x}) \in Int
  BY <1>1, SumType
<1> QED
  BY <1>2, <1>3, <1>4, <1>5

\* A constant summand, as often as there are elements.
LEMMA SumZero ==
  ASSUME NEW f, NEW S, IsFiniteSet(S), \A x \in S : f[x] = 0
  PROVE  SumFunctionOnSet(f, S) = 0
<1> DEFINE G == {T \in SUBSET S : SumFunctionOnSet(f, T) = 0}
<1>1. ASSUME NEW T \in SUBSET S, \A U \in SUBSET T : U # T => U \in G
      PROVE  T \in G
  <2> DEFINE x == CHOOSE x \in T : TRUE
  <2>1. IsFiniteSet(T)
    BY FS_Subset
  <2>2. CASE T = {}
    BY <2>2, SumEmpty
  <2>3. CASE T # {}
    <3>1. SumFunctionOnSet(f, T) = f[x] + SumFunctionOnSet(f, T \ {x})
      BY <2>1, <2>3, SumStep
    <3>2. x \in S /\ T \ {x} \in G
      BY <1>1, <2>3
    <3> QED
      BY <3>1, <3>2
  <2> QED
    BY <2>2, <2>3
<1> HIDE DEF G
<1>2. S \in G
  BY <1>1, SubsetInduction
<1> QED
  BY <1>2 DEF G

\* A constant taken from some of the summands is taken from the sum as often.
LEMMA SumShift ==
  ASSUME NEW f, NEW g, NEW S, IsFiniteSet(S), NEW U \in SUBSET S, NEW B \in Int,
         \A x \in S : f[x] \in Int,
         \A x \in S : g[x] = IF x \in U THEN f[x] - B ELSE f[x]
  PROVE  SumFunctionOnSet(g, S) = SumFunctionOnSet(f, S) - Cardinality(U) * B
<1> DEFINE G == {T \in SUBSET S :
                   SumFunctionOnSet(g, T) = SumFunctionOnSet(f, T) - Cardinality(T \cap U) * B}
<1>1. ASSUME NEW T \in SUBSET S, \A V \in SUBSET T : V # T => V \in G
      PROVE  T \in G
  <2> DEFINE x == CHOOSE x \in T : TRUE
  <2>1. IsFiniteSet(T) /\ \A y \in T : f[y] \in Int /\ g[y] \in Int
    BY FS_Subset
  <2>2. CASE T = {}
    <3>1. T \cap U = {} /\ Cardinality({}) = 0
      BY <2>2, FS_EmptySet
    <3> QED
      BY <2>2, <3>1, SumEmpty
  <2>3. CASE T # {}
    <3>1. x \in T /\ T \ {x} \in SUBSET T /\ T \ {x} # T
      BY <2>3
    <3> HIDE DEF x
    <3>2. /\ SumFunctionOnSet(f, T) = f[x] + SumFunctionOnSet(f, T \ {x})
          /\ SumFunctionOnSet(g, T) = g[x] + SumFunctionOnSet(g, T \ {x})
      BY <2>1, <3>1, SumTake
    <3>3. SumFunctionOnSet(g, T \ {x})
            = SumFunctionOnSet(f, T \ {x}) - Cardinality((T \ {x}) \cap U) * B
      BY <1>1, <3>1
    <3>4. IsFiniteSet(T \ {x}) /\ IsFiniteSet(T \cap U)
      BY <2>1, FS_Subset
    <3>5. SumFunctionOnSet(f, T \ {x}) \in Int
      BY <2>1, <3>4, SumType
    <3>6. CASE x \in U
      <4>1. (T \ {x}) \cap U = (T \cap U) \ {x} /\ x \in T \cap U
        BY <3>1, <3>6
      <4>2. Cardinality((T \cap U) \ {x}) = Cardinality(T \cap U) - 1 /\ Cardinality(T \cap U) \in Nat
        BY <3>4, <4>1, FS_RemoveElement, FS_CardinalityType
      <4>3. g[x] = f[x] - B /\ f[x] \in Int
        BY <3>1, <3>6
      <4>4. \A n \in Nat : (n - 1) * B = n * B - B /\ n * B \in Int
        OBVIOUS
      <4>6. SumFunctionOnSet(g, T \ {x}) = SumFunctionOnSet(f, T \ {x}) - (Cardinality(T \cap U) * B - B)
        BY <3>3, <4>1, <4>2, <4>4
      <4>7. SumFunctionOnSet(g, T) = SumFunctionOnSet(f, T) - Cardinality(T \cap U) * B
        BY <3>2, <3>5, <4>2, <4>3, <4>4, <4>6
      <4> QED
        BY <4>7
    <3>7. CASE x \notin U
      <4>1. (T \ {x}) \cap U = T \cap U /\ g[x] = f[x] /\ f[x] \in Int
        BY <3>1, <3>7
      <4>2. Cardinality(T \cap U) \in Nat
        BY <3>4, FS_CardinalityType
      <4>3. Cardinality(T \cap U) * B \in Int
        BY <4>2
      <4>4. SumFunctionOnSet(g, T \ {x}) = SumFunctionOnSet(f, T \ {x}) - Cardinality(T \cap U) * B
        BY <3>3, <4>1
      <4>5. SumFunctionOnSet(g, T) = SumFunctionOnSet(f, T) - Cardinality(T \cap U) * B
        BY <3>2, <3>5, <4>1, <4>3, <4>4
      <4> QED
        BY <4>5
    <3> QED
      BY <3>6, <3>7
  <2> QED
    BY <2>2, <2>3
<1> HIDE DEF G
<1>2. \A T \in SUBSET S : T \in G
  BY <1>1, SubsetInduction
<1>3. S \cap U = U /\ S \in SUBSET S
  OBVIOUS
<1> QED
  BY <1>2, <1>3 DEF G

-----------------------------------------------------------------------------
\* As many times a constant.
LEMMA SumConstant ==
  ASSUME NEW S, IsFiniteSet(S), NEW c \in Nat, NEW f, \A x \in S : f[x] = c
  PROVE  SumFunctionOnSet(f, S) = c * Cardinality(S)
<1> DEFINE z == [x \in S |-> 0]
           B == 0 - c
<1>1. B \in Int /\ \A x \in S : z[x] = 0 /\ z[x] \in Int
  OBVIOUS
<1>2. \A x \in S : f[x] = IF x \in S THEN z[x] - B ELSE z[x]
  OBVIOUS
<1>3. SumFunctionOnSet(z, S) = 0
  BY <1>1, SumZero
<1> HIDE DEF z
<1>4. S \in SUBSET S
  OBVIOUS
<1> HIDE DEF B
<1>5. SumFunctionOnSet(f, S) = SumFunctionOnSet(z, S) - Cardinality(S) * B
  BY <1>1, <1>2, <1>4, SumShift
<1>6. Cardinality(S) \in Nat
  BY FS_CardinalityType
<1>7. \A n \in Nat : 0 - n * (0 - c) = c * n
  OBVIOUS
<1> QED
  BY <1>3, <1>5, <1>6, <1>7 DEF B

\* What a sequence is, in one place.
LEMMA SeqFacts ==
  ASSUME NEW S, NEW s \in Seq(S)
  PROVE  /\ Len(s) \in Nat /\ DOMAIN s = 1 .. Len(s)
         /\ \A i \in 1 .. Len(s) : s[i] \in S
         /\ s = <<>> <=> Len(s) = 0
<1>1. Len(s) \in Nat /\ DOMAIN s = 1 .. Len(s)
  BY LenProperties
<1>2. \A i \in 1 .. Len(s) : s[i] \in S
  BY ElementOfSeq
<1>3. s = <<>> <=> Len(s) = 0
  BY EmptySeq
<1> QED
  BY <1>1, <1>2, <1>3

\* A sequence without its last element, and without its first.
LEMMA WithoutLast ==
  ASSUME NEW S, NEW s \in Seq(S), s # <<>>
  PROVE  /\ SubSeq(s, 1, Len(s) - 1) \in Seq(S)
         /\ Len(SubSeq(s, 1, Len(s) - 1)) = Len(s) - 1
         /\ \A i \in 1 .. Len(s) - 1 : SubSeq(s, 1, Len(s) - 1)[i] = s[i]
<1> DEFINE n == Len(s) - 1
<1>1. n \in Nat /\ Len(s) = n + 1
  BY SeqFacts
<1>2. \A i \in 1 .. n : s[i] \in S
  BY <1>1, SeqFacts
<1> HIDE DEF n
<1>3. n \in Int /\ 1 \in Int
  BY <1>1
<1>4. /\ SubSeq(s, 1, n) \in Seq(S) /\ Len(SubSeq(s, 1, n)) = IF 1 <= n THEN n - 1 + 1 ELSE 0
      /\ \A i \in 1 .. n - 1 + 1 : SubSeq(s, 1, n)[i] = s[1 + i - 1]
  BY ONLY <1>2, <1>3, SubSeqProperties
<1>5. Len(SubSeq(s, 1, n)) = n /\ \A i \in 1 .. n : SubSeq(s, 1, n)[i] = s[i]
  <2>1. n - 1 + 1 = n /\ \A i \in 1 .. n : 1 + i - 1 = i
    BY <1>1
  <2> QED
    BY <1>1, <1>4, <2>1
<1> QED
  BY <1>4, <1>5 DEF n

LEMMA WithoutFirst ==
  ASSUME NEW S, NEW s \in Seq(S), s # <<>>
  PROVE  /\ SubSeq(s, 2, Len(s)) \in Seq(S)
         /\ Len(SubSeq(s, 2, Len(s))) = Len(s) - 1
         /\ \A i \in 1 .. Len(s) - 1 : SubSeq(s, 2, Len(s))[i] = s[i + 1]
<1> DEFINE n == Len(s)
<1>1. n \in Nat /\ n # 0
  BY SeqFacts
<1>2. \A i \in 2 .. n : s[i] \in S
  BY <1>1, SeqFacts
<1> HIDE DEF n
<1>3. n \in Int /\ 2 \in Int
  BY <1>1
<1>4. /\ SubSeq(s, 2, n) \in Seq(S) /\ Len(SubSeq(s, 2, n)) = IF 2 <= n THEN n - 2 + 1 ELSE 0
      /\ \A i \in 1 .. n - 2 + 1 : SubSeq(s, 2, n)[i] = s[2 + i - 1]
  BY ONLY <1>2, <1>3, SubSeqProperties
<1>5. Len(SubSeq(s, 2, n)) = n - 1 /\ \A i \in 1 .. n - 1 : SubSeq(s, 2, n)[i] = s[i + 1]
  <2>1. n - 2 + 1 = n - 1 /\ \A i \in 1 .. n - 1 : 2 + i - 1 = i + 1
    BY <1>1
  <2> QED
    BY <1>1, <1>4, <2>1
<1> QED
  BY <1>4, <1>5 DEF n

LEMMA Whole ==
  ASSUME NEW S, NEW s \in Seq(S)
  PROVE  /\ SubSeq(s, 1, Len(s)) \in Seq(S) /\ Len(SubSeq(s, 1, Len(s))) = Len(s)
         /\ \A i \in 1 .. Len(s) : SubSeq(s, 1, Len(s))[i] = s[i]
<1> DEFINE n == Len(s)
<1>1. n \in Nat
  BY SeqFacts
<1>2. \A i \in 1 .. n : s[i] \in S
  BY SeqFacts
<1> HIDE DEF n
<1>3. n \in Int /\ 1 \in Int
  BY <1>1
<1>4. /\ SubSeq(s, 1, n) \in Seq(S) /\ Len(SubSeq(s, 1, n)) = IF 1 <= n THEN n - 1 + 1 ELSE 0
      /\ \A i \in 1 .. n - 1 + 1 : SubSeq(s, 1, n)[i] = s[1 + i - 1]
  BY ONLY <1>2, <1>3, SubSeqProperties
<1>5. Len(SubSeq(s, 1, n)) = n /\ \A i \in 1 .. n : SubSeq(s, 1, n)[i] = s[i]
  <2>1. n - 1 + 1 = n /\ \A i \in 1 .. n : 1 + i - 1 = i
    BY <1>1
  <2> QED
    BY <1>1, <1>4, <2>1
<1> QED
  BY <1>4, <1>5 DEF n

\* A sequence without what stood at i.
LEMMA SpliceElements ==
  ASSUME NEW S, NEW q \in Seq(S), NEW i \in 1 .. Len(q)
  PROVE  LET r == SubSeq(q, 1, i - 1) \o SubSeq(q, i + 1, Len(q)) IN
         /\ r \in Seq(S) /\ Len(r) = Len(q) - 1
         /\ \A j \in 1 .. Len(q) - 1 : r[j] = IF j <= i - 1 THEN q[j] ELSE q[j + 1]
<1> DEFINE n == Len(q)
           f == SubSeq(q, 1, i - 1)
           g == SubSeq(q, i + 1, n)
           r == f \o g
<1>1. n \in Nat /\ DOMAIN q = 1 .. n /\ i \in Nat /\ 1 <= i /\ i <= n /\ \A j \in 1 .. n : q[j] \in S
  BY SeqFacts
<1>2. f \in Seq(S) /\ Len(f) = i - 1 /\ \A j \in 1 .. i - 1 : f[j] = q[j]
  <2>1. /\ f \in Seq(S) /\ Len(f) = (IF 1 <= i - 1 THEN i - 1 - 1 + 1 ELSE 0)
        /\ \A j \in 1 .. i - 1 - 1 + 1 : f[j] = q[1 + j - 1]
    <3>1. \A j \in 1 .. i - 1 : q[j] \in S
      BY <1>1
    <3> QED
      BY <1>1, <3>1, SubSeqProperties
  <2> HIDE DEF f
  <2> QED
    BY <1>1, <2>1
<1>3. g \in Seq(S) /\ Len(g) = n - i /\ \A j \in 1 .. n - i : g[j] = q[i + j]
  <2>1. /\ g \in Seq(S) /\ Len(g) = (IF i + 1 <= n THEN n - (i + 1) + 1 ELSE 0)
        /\ \A j \in 1 .. n - (i + 1) + 1 : g[j] = q[i + 1 + j - 1]
    <3>1. \A j \in i + 1 .. n : q[j] \in S
      BY <1>1
    <3> QED
      BY <1>1, <3>1, SubSeqProperties
  <2> HIDE DEF g
  <2>2. Len(g) = n - i
    <3>1. n \in Int /\ i \in Int
      BY <1>1
    <3>2. (IF i + 1 <= n THEN n - (i + 1) + 1 ELSE 0) = n - i
      <4> HIDE DEF n
      <4> QED
        BY <1>1, <3>1
    <3> QED
      BY <2>1, <3>2
  <2>3. \A j \in 1 .. n - i : j \in 1 .. n - (i + 1) + 1 /\ i + 1 + j - 1 = i + j
    BY <1>1
  <2>4. \A j \in 1 .. n - i : g[j] = q[i + j]
    BY <2>1, <2>3
  <2> QED
    BY <2>1, <2>2, <2>4
<1>4. r = f \o g
  OBVIOUS
<1> HIDE DEF f, g, r
<1>5. /\ r \in Seq(S) /\ Len(r) = n - 1
      /\ \A j \in 1 .. n - 1 : r[j] = IF j <= i - 1 THEN q[j] ELSE q[j + 1]
  <2>1. /\ f \o g \in Seq(S) /\ Len(f \o g) = Len(f) + Len(g)
        /\ \A j \in 1 .. Len(f) + Len(g) : (f \o g)[j] = IF j <= Len(f) THEN f[j] ELSE g[j - Len(f)]
    BY <1>2, <1>3, ConcatProperties
  <2>2. Len(f) + Len(g) = n - 1
    BY <1>1, <1>2, <1>3
  <2>3. \A j \in 1 .. n - 1 : r[j] = IF j <= i - 1 THEN q[j] ELSE q[j + 1]
    <3> TAKE j \in 1 .. n - 1
    <3>1. CASE j <= i - 1
      BY <1>1, <1>2, <1>4, <2>1, <2>2, <3>1
    <3>2. CASE ~(j <= i - 1)
      <4>1. j - (i - 1) \in 1 .. n - i /\ i + (j - (i - 1)) = j + 1
        BY <1>1, <3>2
      <4> QED
        BY <1>1, <1>2, <1>3, <1>4, <2>1, <2>2, <3>2, <4>1
    <3> QED
      BY <3>1, <3>2
  <2> QED
    BY <1>4, <2>1, <2>2, <2>3
<1> QED
  BY <1>4, <1>5 DEF f, g, n

\* Parts of two sets count no more than the sets.
LEMMA FewerOfBoth ==
  ASSUME NEW F, NEW S, IsFiniteSet(F), IsFiniteSet(S), NEW G \in SUBSET F, NEW T \in SUBSET S,
         NEW n \in Nat, Cardinality(F) + Cardinality(S) <= n
  PROVE  Cardinality(G) + Cardinality(T) <= n
<1>1. /\ IsFiniteSet(G) /\ Cardinality(G) <= Cardinality(F)
      /\ IsFiniteSet(T) /\ Cardinality(T) <= Cardinality(S)
  BY FS_Subset
<1>2. /\ Cardinality(F) \in Nat /\ Cardinality(S) \in Nat /\ Cardinality(G) \in Nat /\ Cardinality(T) \in Nat
  BY <1>1, FS_CardinalityType
<1> QED
  BY <1>1, <1>2

-----------------------------------------------------------------------------
\* it[i] is what n rounds that begin with a have made after the first i of them.
Rounds(it, a, n, step) == it = [i \in 0 .. n |-> IF i = 0 THEN a ELSE step[i][it[i - 1]]]
StaysIn(it, n, X) == \A i \in 0 .. n : it[i] \in X

\* A loop of n rounds over the elements of a set can be run, whatever its rounds do.
LEMMA LoopExists ==
  ASSUME NEW X, NEW a \in X, NEW n \in Nat, NEW step,
         \A i \in 1 .. n : \A x \in X : step[i][x] \in X
  PROVE  \E it : Rounds(it, a, n, step) /\ StaysIn(it, n, X)
<1> DEFINE Ran(m, it) == /\ it = [i \in 0 .. m |-> IF i = 0 THEN a ELSE step[i][it[i - 1]]]
                         /\ \A i \in 0 .. m : it[i] \in X
           G == {m \in Nat : m <= n => \E it : Ran(m, it)}
<1>1. 0 \in G
  <2> DEFINE it == [i \in 0 .. 0 |-> a]
  <2>1. it = [i \in 0 .. 0 |-> IF i = 0 THEN a ELSE step[i][it[i - 1]]]
    OBVIOUS
  <2>2. Ran(0, it)
    BY <2>1
  <2> QED
    BY <2>2
<1>2. ASSUME NEW m \in Nat, m \in G PROVE m + 1 \in G
  <2> SUFFICES ASSUME m + 1 <= n PROVE \E it : Ran(m + 1, it)
    OBVIOUS
  <2>1. PICK it : Ran(m, it)
    BY <1>2
  <2> DEFINE last == step[m + 1][it[m]]
             more == [i \in 0 .. m + 1 |-> IF i = m + 1 THEN last ELSE it[i]]
             again == [i \in 0 .. m + 1 |-> IF i = 0 THEN a ELSE step[i][more[i - 1]]]
  <2>2. \A i \in 0 .. m : it[i] = IF i = 0 THEN a ELSE step[i][it[i - 1]]
    <3> HIDE DEF G
    <3> QED
      BY <2>1
  <2>3. last \in X
    <3>1. m + 1 \in 1 .. n /\ it[m] \in X
      BY <2>1
    <3> QED
      BY <3>1
  <2> HIDE DEF last, G
  <2>4. /\ more[m + 1] = last
        /\ \A i \in 0 .. m : more[i] = it[i]
    OBVIOUS
  <2>5. \A i \in 0 .. m + 1 : more[i] = again[i]
    <3> SUFFICES ASSUME NEW i \in 0 .. m + 1 PROVE more[i] = again[i]
      OBVIOUS
    <3>1. CASE i = 0
      <4>1. 0 \in 0 .. m /\ more[0] = it[0] /\ it[0] = a
        BY <2>2, <2>4
      <4>2. again[0] = a
        OBVIOUS
      <4> QED
        BY <3>1, <4>1, <4>2
    <3>2. CASE i = m + 1
      <4>1. i # 0 /\ i - 1 = m /\ more[m] = it[m]
        BY <2>4, <3>2
      <4>2. again[i] = step[i][more[i - 1]]
        BY <4>1
      <4> QED
        BY <2>4, <3>2, <4>1, <4>2 DEF last
    <3>3. CASE i \in 1 .. m
      <4>1. i # 0 /\ i # m + 1 /\ i - 1 \in 0 .. m /\ i \in 0 .. m
        BY <3>3
      <4>2. more[i - 1] = it[i - 1] /\ more[i] = it[i]
        BY <2>4, <4>1
      <4>3. again[i] = step[i][more[i - 1]]
        BY <4>1
      <4> QED
        BY <2>2, <4>1, <4>2, <4>3
    <3> QED
      BY <3>1, <3>2, <3>3
  <2>6. more = again
    BY <2>5
  <2>7. \A i \in 0 .. m + 1 : more[i] \in X
    <3>1. \A i \in 0 .. m + 1 : i \in 0 .. m \/ i = m + 1
      OBVIOUS
    <3> HIDE DEF more
    <3> QED
      BY <2>1, <2>3, <2>4, <3>1
  <2> HIDE DEF more
  <2>8. Ran(m + 1, more)
    BY <2>6, <2>7
  <2> QED
    BY <2>8
<1> HIDE DEF G
<1>3. n \in G
  BY <1>1, <1>2, NatSetInduction
<1>4. PICK it : Ran(n, it)
  BY <1>3 DEF G
<1>5. Rounds(it, a, n, step) /\ StaysIn(it, n, X)
  BY <1>4 DEF Rounds, StaysIn
<1> QED
  BY <1>5

\* it is the loop that pushes the elements of c that are in K.
Filtering(it, c, K) ==
  it = [i \in 0 .. Len(c) |->
          IF i = 0 THEN <<>> ELSE IF c[i] \in K THEN Append(it[i - 1], c[i]) ELSE it[i - 1]]

\* A loop that pushes the elements of a sequence that are in a set can be run, and
\* leaves those elements, each as often as it was there, in the order they were in.
LEMMA FilterRuns ==
  ASSUME NEW S, NEW c \in Seq(S), NEW K
  PROVE  \E it : Filtering(it, c, K)
<1> DEFINE n == Len(c)
           round == [i \in 1 .. n |-> [x \in Seq(S) |-> IF c[i] \in K THEN Append(x, c[i]) ELSE x]]
<1>1. n \in Nat /\ \A i \in 1 .. n : c[i] \in S
  BY SeqFacts
<1> HIDE DEF n
<1>2. \A i \in 1 .. n : \A x \in Seq(S) : round[i][x] \in Seq(S)
  <2> SUFFICES ASSUME NEW i \in 1 .. n, NEW x \in Seq(S) PROVE round[i][x] \in Seq(S)
    OBVIOUS
  <2>1. Append(x, c[i]) \in Seq(S)
    BY <1>1, AppendProperties
  <2> QED
    BY <2>1
<1>3. <<>> \in Seq(S)
  BY EmptySeq
<1>4. \A i \in 1 .. n : \A x \in Seq(S) : round[i][x] = IF c[i] \in K THEN Append(x, c[i]) ELSE x
  OBVIOUS
<1> HIDE DEF round
<1>5. PICK it : /\ it = [i \in 0 .. n |-> IF i = 0 THEN <<>> ELSE round[i][it[i - 1]]]
                /\ \A i \in 0 .. n : it[i] \in Seq(S)
  <2> DEFINE X == Seq(S)
             a == <<>>
  <2>1. a \in X /\ n \in Nat /\ \A i \in 1 .. n : \A x \in X : round[i][x] \in X
    BY <1>1, <1>2, <1>3
  <2> HIDE DEF X, a
  <2>2. PICK it : Rounds(it, a, n, round) /\ StaysIn(it, n, X)
    BY <2>1, LoopExists
  <2> QED
    BY <2>2 DEF X, a, Rounds, StaysIn
<1> DEFINE same == [i \in 0 .. n |->
                      IF i = 0 THEN <<>>
                      ELSE IF c[i] \in K THEN Append(it[i - 1], c[i]) ELSE it[i - 1]]
<1>6. \A i \in 0 .. n : it[i] = same[i]
  <2> SUFFICES ASSUME NEW i \in 0 .. n PROVE it[i] = same[i]
    OBVIOUS
  <2>1. CASE i = 0
    BY <1>1, <1>5, <2>1
  <2>2. CASE i # 0
    <3>1. i \in 1 .. n /\ i - 1 \in 0 .. n
      BY <1>1, <2>2
    <3>2. it[i - 1] \in Seq(S)
      BY <1>5, <3>1
    <3>3. it[i] = round[i][it[i - 1]]
      BY <1>5, <2>2
    <3> QED
      BY <1>4, <2>2, <3>1, <3>2, <3>3
  <2> QED
    BY <2>1, <2>2
<1>7. it = same
  BY <1>5, <1>6
<1> QED
  BY <1>7 DEF n, Filtering

LEMMA FilterFacts ==
  ASSUME NEW S, NEW c \in Seq(S), NEW K, NEW it,
         Filtering(it, c, K)
  PROVE  /\ it[Len(c)] \in Seq(S)
         /\ Range(it[Len(c)]) = Range(c) \cap K
         /\ IsInjective(c) => IsInjective(it[Len(c)])
<1> DEFINE n == Len(c)
           first(i) == {c[j] : j \in 1 .. i} \cap K
           G == {i \in Nat : i <= n =>
                   /\ it[i] \in Seq(S) /\ Range(it[i]) = first(i)
                   /\ IsInjective(c) => IsInjective(it[i])}
<1>1. n \in Nat /\ DOMAIN c = 1 .. n /\ \A i \in 1 .. n : c[i] \in S
  BY SeqFacts
<1>2. /\ it[0] = <<>>
      /\ \A i \in 1 .. n : it[i] = IF c[i] \in K THEN Append(it[i - 1], c[i]) ELSE it[i - 1]
  <2>1. 0 \in 0 .. n /\ \A i \in 1 .. n : i \in 0 .. n /\ i # 0
    BY <1>1
  <2> QED
    BY <2>1 DEF Filtering
<1> HIDE DEF n
<1>3. 0 \in G
  <2>1. <<>> \in Seq(S) /\ DOMAIN <<>> = {}
    BY EmptySeq
  <2>2. Range(<<>>) = {} /\ IsInjective(<<>>)
    BY <2>1 DEF Range, IsInjective
  <2>3. first(0) = {}
    OBVIOUS
  <2> QED
    BY <1>2, <2>1, <2>2, <2>3
<1>4. ASSUME NEW i \in Nat, i \in G PROVE i + 1 \in G
  <2> SUFFICES ASSUME i + 1 <= n
               PROVE  /\ it[i + 1] \in Seq(S) /\ Range(it[i + 1]) = first(i + 1)
                      /\ IsInjective(c) => IsInjective(it[i + 1])
    <3> HIDE DEF first
    <3> QED
      OBVIOUS
  <2>1. PICK s, x : s = it[i] /\ x = c[i + 1]
    OBVIOUS
  <2>2. i + 1 \in 1 .. n /\ i <= n /\ (i + 1) - 1 = i
    BY <1>1
  <2>3. it[i + 1] = IF x \in K THEN Append(s, x) ELSE s
    BY <1>2, <2>1, <2>2
  <2>4. s \in Seq(S) /\ Range(s) = first(i) /\ (IsInjective(c) => IsInjective(s))
    BY <1>4, <2>1, <2>2
  <2>5. x \in S
    BY <1>1, <2>1, <2>2
  <2>6. ASSUME IsInjective(c), x \in first(i) PROVE FALSE
    <3>1. PICK j \in 1 .. i : c[j] = x
      BY <2>6
    <3>2. j \in 1 .. n /\ j # i + 1
      BY <1>1, <2>2
    <3> QED
      BY <1>1, <2>1, <2>2, <2>6, <3>1, <3>2 DEF IsInjective
  <2>7. {c[j] : j \in 1 .. i + 1} = {c[j] : j \in 1 .. i} \cup {x}
    <3>1. \A j \in 1 .. i + 1 : j \in 1 .. i \/ j = i + 1
      OBVIOUS
    <3>2. i + 1 \in 1 .. i + 1 /\ \A j \in 1 .. i : j \in 1 .. i + 1
      OBVIOUS
    <3> QED
      BY <2>1, <3>1, <3>2
  <2>8. CASE x \notin K
    <3>1. first(i + 1) = first(i)
      BY <2>7, <2>8
    <3> HIDE DEF first
    <3> QED
      BY <2>3, <2>4, <2>8, <3>1
  <2>9. CASE x \in K
    <3>1. first(i + 1) = first(i) \cup {x}
      BY <2>7, <2>9
    <3>2. PICK t : t = Append(s, x)
      OBVIOUS
    <3>3. /\ t \in Seq(S) /\ Len(t) = Len(s) + 1 /\ t[Len(s) + 1] = x
          /\ \A j \in 1 .. Len(s) : t[j] = s[j]
      BY <2>4, <2>5, <3>2, AppendProperties
    <3>4. Len(s) \in Nat /\ DOMAIN s = 1 .. Len(s) /\ DOMAIN t = 1 .. Len(s) + 1
      BY <2>4, <3>3, SeqFacts
    <3>5. \A j \in 1 .. Len(s) + 1 : j \in 1 .. Len(s) \/ j = Len(s) + 1
      BY <3>4
    <3>6. Len(s) + 1 \in 1 .. Len(s) + 1 /\ \A j \in 1 .. Len(s) : j \in 1 .. Len(s) + 1
      BY <3>4
    <3>7. Range(t) = Range(s) \cup {x}
      <4>1. Range(t) = {t[j] : j \in 1 .. Len(s) + 1} /\ Range(s) = {s[j] : j \in 1 .. Len(s)}
        BY <3>4 DEF Range
      <4>2. ASSUME NEW y \in Range(t) PROVE y \in Range(s) \cup {x}
        <5>1. PICK j \in 1 .. Len(s) + 1 : y = t[j]
          BY <4>1, <4>2
        <5> QED
          BY <3>3, <3>5, <4>1, <5>1
      <4>3. ASSUME NEW y \in Range(s) \cup {x} PROVE y \in Range(t)
        <5>1. CASE y = x
          BY <3>3, <3>6, <4>1, <5>1
        <5>2. CASE y \in Range(s)
          <6>1. PICK j \in 1 .. Len(s) : y = s[j]
            BY <4>1, <5>2
          <6> QED
            BY <3>3, <3>6, <4>1, <6>1
        <5> QED
          BY <4>3, <5>1, <5>2
      <4> QED
        BY <4>2, <4>3
    <3>8. ASSUME IsInjective(c) PROVE IsInjective(t)
      <4>1. \A j \in 1 .. Len(s) : s[j] # x
        BY <2>4, <2>6, <3>4, <3>8 DEF Range
      <4>2. \A j, k \in 1 .. Len(s) : s[j] = s[k] => j = k
        BY <2>4, <3>4, <3>8 DEF IsInjective
      <4> QED
        BY <3>3, <3>4, <3>5, <4>1, <4>2 DEF IsInjective
    <3> HIDE DEF first
    <3> QED
      BY <2>3, <2>4, <2>9, <3>1, <3>2, <3>3, <3>7, <3>8
  <2> QED
    BY <2>8, <2>9
<1> HIDE DEF G
<1>5. n \in G
  BY <1>1, <1>3, <1>4, NatSetInduction
<1>6. first(n) = Range(c) \cap K
  BY <1>1 DEF Range
<1> HIDE DEF first
<1> QED
  BY <1>1, <1>5, <1>6 DEF G, n

\* A set of numbers has a least one.
LEMMA LeastExists ==
  ASSUME NEW S, S \subseteq Nat, S # {}
  PROVE  \E n \in S : \A k \in S : n <= k
<1> DEFINE G == {n \in Nat : \A k \in 0 .. n : k \notin S}
<1>1. SUFFICES ASSUME ~\E n \in S : \A k \in S : n <= k PROVE FALSE
  OBVIOUS
<1>2. 0 \in G
  BY <1>1
<1>3. ASSUME NEW n \in Nat, n \in G PROVE n + 1 \in G
  <2>1. \A k \in 0 .. n : k \notin S
    BY <1>3
  <2>2. n + 1 \notin S
    BY <1>1, <2>1
  <2>3. \A k \in 0 .. n + 1 : k \in 0 .. n \/ k = n + 1
    OBVIOUS
  <2> QED
    BY <2>1, <2>2, <2>3
<1> HIDE DEF G
<1>4. \A n \in Nat : n \in G
  BY <1>2, <1>3, NatSetInduction
<1>5. \A n \in Nat : n \notin S
  BY <1>4 DEF G
<1> QED
  BY <1>5

\* Of numbers in a row, from any of them on, one is the first of the greatest.
LEMMA FirstBestExists ==
  ASSUME NEW n \in Nat, NEW f, \A j \in 1 .. n : f[j] \in Int, NEW i \in 1 .. n
  PROVE  \E m \in i .. n : /\ \A j \in i .. n : f[j] <= f[m]
                           /\ \A j \in i .. m - 1 : f[j] < f[m]
<1> DEFINE Best(k, m) == /\ \A j \in i .. k : f[j] <= f[m]
                         /\ \A j \in i .. m - 1 : f[j] < f[m]
           G == {k \in Nat : k \in i .. n => \E m \in i .. k : Best(k, m)}
<1>1. 0 \in G
  OBVIOUS
<1>2. ASSUME NEW k \in Nat, k \in G PROVE k + 1 \in G
  <2> SUFFICES ASSUME k + 1 \in i .. n PROVE \E m \in i .. k + 1 : Best(k + 1, m)
    OBVIOUS
  <2>1. f[k + 1] \in Int /\ \A j \in i .. k : j \in 1 .. n /\ f[j] \in Int
    OBVIOUS
  <2>2. \A j \in i .. k + 1 : j \in i .. k \/ j = k + 1
    OBVIOUS
  <2>3. CASE k + 1 = i
    <3>1. Best(k + 1, k + 1)
      BY <2>1, <2>2, <2>3
    <3> QED
      BY <2>3, <3>1
  <2>4. CASE k + 1 # i
    <3>1. k \in i .. n
      BY <2>4
    <3>2. PICK m \in i .. k : Best(k, m)
      BY <1>2, <3>1
    <3>3. f[m] \in Int
      BY <2>1
    <3>4. CASE f[k + 1] <= f[m]
      <4>1. Best(k + 1, m) /\ m \in i .. k + 1
        BY <2>1, <2>2, <3>2, <3>3, <3>4
      <4> QED
        BY <4>1
    <3>5. CASE ~(f[k + 1] <= f[m])
      <4>1. \A j \in i .. k : f[j] < f[k + 1]
        BY <2>1, <3>2, <3>3, <3>5
      <4>2. Best(k + 1, k + 1) /\ k + 1 \in i .. k + 1
        BY <2>1, <2>2, <4>1
      <4> QED
        BY <4>2
    <3> QED
      BY <3>4, <3>5
  <2> QED
    BY <2>3, <2>4
<1> HIDE DEF G
<1>3. n \in G
  BY <1>1, <1>2, NatSetInduction
<1> QED
  BY <1>3 DEF G

\* A sequence without repetition is as long as the set of its elements is large.
LEMMA InjectiveCounts ==
  ASSUME NEW S, NEW c \in Seq(S), IsInjective(c)
  PROVE  IsFiniteSet(Range(c)) /\ Cardinality(Range(c)) = Len(c)
<1>1. Len(c) \in Nat /\ DOMAIN c = 1 .. Len(c) /\ \A i \in 1 .. Len(c) : c[i] \in S
  BY SeqFacts
<1>2. c \in [1 .. Len(c) -> Range(c)]
  <2>1. c \in [1 .. Len(c) -> S]
    BY SeqDef, LenProperties
  <2> QED
    BY <1>1, <2>1 DEF Range
<1>3. c \in Bijection(1 .. Len(c), Range(c))
  BY <1>1, <1>2 DEF Bijection, Injection, Surjection, Range, IsInjective
<1>4. ExistsBijection(1 .. Len(c), Range(c))
  BY <1>3 DEF ExistsBijection
<1> QED
  BY <1>1, <1>4, FS_NatBijection, FS_CountingElements

\* Two elements of a sequence change places.
Swapping(d, c, i, m) == d = [c EXCEPT ![i] = c[m], ![m] = c[i]]

LEMMA SwapFacts ==
  ASSUME NEW S, NEW c \in Seq(S), NEW i \in 1 .. Len(c), NEW m \in 1 .. Len(c), NEW d,
         Swapping(d, c, i, m)
  PROVE  /\ d \in Seq(S) /\ Len(d) = Len(c) /\ Range(d) = Range(c)
         /\ d[i] = c[m] /\ d[m] = c[i] /\ \A j \in 1 .. Len(c) : j # i /\ j # m => d[j] = c[j]
         /\ IsInjective(c) => IsInjective(d)
<1> DEFINE n == Len(c)
<1>1. n \in Nat /\ DOMAIN c = 1 .. n /\ c \in [1 .. n -> S] /\ \A j \in 1 .. n : c[j] \in S
  BY SeqFacts, SeqDef, LenProperties
<1> HIDE DEF n
<1>2. i \in 1 .. n /\ m \in 1 .. n
  BY DEF n
<1>3. /\ DOMAIN d = 1 .. n /\ d[i] = c[m] /\ d[m] = c[i]
      /\ \A j \in 1 .. n : j # i /\ j # m => d[j] = c[j]
  BY <1>1, <1>2 DEF Swapping
<1>4. d \in [1 .. n -> S]
  BY <1>1, <1>2 DEF Swapping
<1>5. d \in Seq(S) /\ Len(d) = n
  <2>1. d \in Seq(S)
    BY <1>1, <1>4, SeqDef
  <2>2. DOMAIN d = 1 .. Len(d) /\ Len(d) \in Nat
    BY <2>1, SeqFacts
  <2>3. 1 .. n = 1 .. Len(d)
    BY <1>3, <2>2
  <2>4. n = Len(d)
    <3> DEFINE k == Len(d)
    <3>1. k \in Nat /\ n \in Nat /\ 1 .. n = 1 .. k
      BY <1>1, <2>2, <2>3
    <3> HIDE DEF k
    <3>2. n \in 1 .. k \/ n = 0
      BY <3>1
    <3>3. k \in 1 .. n \/ k = 0
      BY <3>1
    <3>4. n = k
      BY <3>1, <3>2, <3>3
    <3> QED
      BY <3>4 DEF k
  <2> QED
    BY <2>1, <2>4
<1>6. Range(d) = Range(c)
  <2>1. Range(d) = {d[j] : j \in 1 .. n} /\ Range(c) = {c[j] : j \in 1 .. n}
    BY <1>1, <1>3 DEF Range
  <2>2. ASSUME NEW x \in Range(d) PROVE x \in Range(c)
    <3>1. PICK j \in 1 .. n : x = d[j]
      BY <2>1, <2>2
    <3> QED
      BY <1>2, <1>3, <2>1, <3>1
  <2>3. ASSUME NEW x \in Range(c) PROVE x \in Range(d)
    <3>1. PICK j \in 1 .. n : x = c[j]
      BY <2>1, <2>3
    <3> QED
      BY <1>2, <1>3, <2>1, <3>1
  <2> QED
    BY <2>2, <2>3
<1>7. ASSUME IsInjective(c) PROVE IsInjective(d)
  <2>1. \A j, k \in 1 .. n : c[j] = c[k] => j = k
    BY <1>1, <1>7 DEF IsInjective
  <2>2. ASSUME NEW j \in 1 .. n, NEW k \in 1 .. n, d[j] = d[k] PROVE j = k
    BY <1>2, <1>3, <2>1, <2>2
  <2> QED
    BY <1>3, <2>2 DEF IsInjective
<1> QED
  BY <1>3, <1>5, <1>6, <1>7 DEF n

\* A finite set of integers has a greatest.
LEMMA GreatestOfFinite ==
  ASSUME NEW T, IsFiniteSet(T), T \subseteq Int, T # {}
  PROVE  \E x \in T : \A y \in T : y <= x
<1> DEFINE G == {U \in SUBSET T : U # {} => \E x \in U : \A y \in U : y <= x}
<1>1. ASSUME NEW U \in SUBSET T, \A V \in SUBSET U : V # U => V \in G
      PROVE  U \in G
  <2> SUFFICES ASSUME U # {} PROVE \E x \in U : \A y \in U : y <= x
    OBVIOUS
  <2>1. PICK c \in U : TRUE
    OBVIOUS
  <2>2. CASE U = {c}
    BY <2>2
  <2>3. CASE U # {c}
    <3>1. U \ {c} \in G /\ U \ {c} # {}
      BY <1>1, <2>1, <2>3
    <3>2. PICK x \in U \ {c} : \A y \in U \ {c} : y <= x
      BY <3>1
    <3>3. x \in Int /\ c \in Int
      BY <2>1, <3>2
    <3>4. CASE x <= c
      <4>1. \A y \in U : y <= c
        BY <3>2, <3>3, <3>4
      <4> QED
        BY <2>1, <4>1
    <3>5. CASE c <= x
      BY <3>2, <3>5
    <3> QED
      BY <3>3, <3>4, <3>5
  <2> QED
    BY <2>2, <2>3
<1>2. T \in G
  <2> HIDE DEF G
  <2>1. \A U \in SUBSET T : U \in G
    BY <1>1, SubsetInduction
  <2> QED
    BY <2>1
<1> QED
  BY <1>2
=============================================================================
