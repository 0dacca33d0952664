---------------------------- MODULE MarketProofs ----------------------------
(***************************************************************************)
(* Proofs about what is paid and held for tasks: the agent bidding, marketplace*)
(* and task store contracts with the price feed, and the payment service with*)
(* the reconciler, and what a settled row of theirs tells of its balance,  *)
(* whoever calls and whatever lands late.                                  *)
(***************************************************************************)
EXTENDS AgentBidding, AgentMarketplace, TaskLedger, Reconciliation,
        DataTheorems

\* How the loop over a sequence s of candidates picks: p skips a candidate outside R, and
\* takes over from the candidate so far with a greater score, or the same and a lower price.
Picked(s, R, score, price, last, it) ==
  it = [i \in 0 .. last |->
          IF i = 0 THEN "nobody"
          ELSE IF /\ s[i] \in R
                  /\ \/ it[i - 1] = "nobody"
                     \/ score[s[i]] > score[it[i - 1]]
                     \/ score[s[i]] = score[it[i - 1]] /\ price[s[i]] < price[it[i - 1]]
               THEN s[i] ELSE it[i - 1]]

\* The loop has a result.
LEMMA PickedExists ==
  ASSUME NEW s, NEW R, NEW score, NEW price
  PROVE  \A n \in Nat : \E it : Picked(s, R, score, price, n, it)
<1> DEFINE G == {n \in Nat : \E it : Picked(s, R, score, price, n, it)}
           next(i, x) == IF /\ s[i] \in R
                            /\ \/ x = "nobody"
                               \/ score[s[i]] > score[x]
                               \/ score[s[i]] = score[x] /\ price[s[i]] < price[x]
                         THEN s[i] ELSE x
<1>1. 0 \in G
  <2> DEFINE it == [i \in 0 .. 0 |-> "nobody"]
  <2>1. Picked(s, R, score, price, 0, it)
    BY DEF Picked
  <2> QED
    BY <2>1
<1>2. ASSUME NEW n \in Nat, n \in G PROVE n + 1 \in G
  <2>1. PICK it : Picked(s, R, score, price, n, it)
    BY <1>2
  <2> DEFINE more == [i \in 0 .. n + 1 |-> IF i = n + 1 THEN next(i, it[n]) ELSE it[i]]
             again == [i \in 0 .. n + 1 |-> IF i = 0 THEN "nobody" ELSE next(i, more[i - 1])]
  <2>2. \A i \in 0 .. n : it[i] = IF i = 0 THEN "nobody" ELSE next(i, it[i - 1])
    BY <2>1 DEF Picked
  <2> HIDE DEF next
  <2>3. \A i \in 0 .. n + 1 : more[i] = again[i]
    <3> SUFFICES ASSUME NEW i \in 0 .. n + 1 PROVE more[i] = again[i]
      OBVIOUS
    <3>1. CASE i = 0
      BY <2>2, <3>1
    <3>2. CASE i = n + 1
      <4>1. i # 0 /\ i - 1 = n /\ more[n] = it[n]
        BY <3>2
      <4> QED
        BY <3>2, <4>1
    <3>3. CASE i \in 1 .. n
      <4>1. i # 0 /\ i # n + 1 /\ i - 1 \in 0 .. n /\ i \in 0 .. n
        BY <3>3
      <4>2. more[i - 1] = it[i - 1] /\ more[i] = it[i]
        BY <4>1
      <4> QED
        BY <2>2, <4>1, <4>2
    <3> QED
      BY <3>1, <3>2, <3>3
  <2>4. more = again
    BY <2>3
  <2> HIDE DEF more
  <2>5. Picked(s, R, score, price, n + 1, more)
    BY <2>4 DEF Picked, next
  <2> QED
    BY <2>5
<1> HIDE DEF G
<1>3. \A n \in Nat : n \in G
  BY <1>1, <1>2, NatSetInduction
<1> QED
  BY <1>3 DEF G

\* What the loop has picked after i candidates: the first of those with the lowest price of
\* those with the greatest score.
BestSoFar(s, R, score, price, i, x) ==
  /\ x = "nobody" => \A j \in 1 .. i : s[j] \notin R
  /\ x # "nobody" =>
       \E k \in 1 .. i :
         /\ x = s[k] /\ s[k] \in R
         /\ \A j \in 1 .. i : s[j] \in R /\ j # k =>
              \/ score[s[j]] < score[s[k]]
              \/ score[s[j]] = score[s[k]] /\ price[s[j]] > price[s[k]]
              \/ score[s[j]] = score[s[k]] /\ price[s[j]] = price[s[k]] /\ j > k

LEMMA PickedIsBest ==
  ASSUME NEW R, "nobody" \notin R, NEW s, NEW n \in Nat,
         NEW score, \A x \in R : score[x] \in Int,
         NEW price, \A x \in R : price[x] \in Int,
         NEW it, Picked(s, R, score, price, n, it)
  PROVE  BestSoFar(s, R, score, price, n, it[n])
<1> DEFINE G == {i \in Nat : i <= n => BestSoFar(s, R, score, price, i, it[i])}
<1>1. 0 \in G
  <2>1. it[0] = "nobody"
    BY DEF Picked
  <2> QED
    BY <2>1 DEF BestSoFar
<1>2. ASSUME NEW i \in Nat, i \in G PROVE i + 1 \in G
  <2> SUFFICES ASSUME i + 1 <= n PROVE BestSoFar(s, R, score, price, i + 1, it[i + 1])
    OBVIOUS
  <2>1. BestSoFar(s, R, score, price, i, it[i])
    BY <1>2
  <2>2. it[i + 1] = IF /\ s[i + 1] \in R
                       /\ \/ it[i] = "nobody"
                          \/ score[s[i + 1]] > score[it[i]]
                          \/ score[s[i + 1]] = score[it[i]] /\ price[s[i + 1]] < price[it[i]]
                    THEN s[i + 1] ELSE it[i]
    <3>1. i + 1 \in 0 .. n /\ i + 1 # 0 /\ (i + 1) - 1 = i
      OBVIOUS
    <3> QED
      BY <3>1 DEF Picked
  <2>3. \A j \in 1 .. i + 1 : j \in 1 .. i \/ j = i + 1
    OBVIOUS
  <2>4. CASE s[i + 1] \notin R
    <3>1. it[i + 1] = it[i]
      BY <2>2, <2>4
    <3>2. CASE it[i] = "nobody"
      BY <2>1, <2>3, <2>4, <3>1, <3>2 DEF BestSoFar
    <3>3. CASE it[i] # "nobody"
      <4>1. PICK k \in 1 .. i :
              /\ it[i] = s[k] /\ s[k] \in R
              /\ \A j \in 1 .. i : s[j] \in R /\ j # k =>
                   \/ score[s[j]] < score[s[k]]
                   \/ score[s[j]] = score[s[k]] /\ price[s[j]] > price[s[k]]
                   \/ score[s[j]] = score[s[k]] /\ price[s[j]] = price[s[k]] /\ j > k
        BY <2>1, <3>3 DEF BestSoFar
      <4>2. k \in 1 .. i + 1
        OBVIOUS
      <4> QED
        BY <2>3, <2>4, <3>1, <3>3, <4>1, <4>2 DEF BestSoFar
    <3> QED
      BY <3>2, <3>3
  <2>5. CASE s[i + 1] \in R /\ it[i] = "nobody"
    <3>1. it[i + 1] = s[i + 1] /\ it[i + 1] # "nobody"
      BY <2>2, <2>5
    <3>2. i + 1 \in 1 .. i + 1 /\ \A j \in 1 .. i : s[j] \notin R
      BY <2>1, <2>5 DEF BestSoFar
    <3> QED
      BY <2>3, <2>5, <3>1, <3>2 DEF BestSoFar
  <2>6. CASE s[i + 1] \in R /\ it[i] # "nobody"
    <3> DEFINE b == s[i + 1]
    <3>1. PICK k \in 1 .. i :
            /\ it[i] = s[k] /\ s[k] \in R
            /\ \A j \in 1 .. i : s[j] \in R /\ j # k =>
                 \/ score[s[j]] < score[s[k]]
                 \/ score[s[j]] = score[s[k]] /\ price[s[j]] > price[s[k]]
                 \/ score[s[j]] = score[s[k]] /\ price[s[j]] = price[s[k]] /\ j > k
      BY <2>1, <2>6 DEF BestSoFar
    <3>2. \A j \in 1 .. i + 1 : s[j] \in R => score[s[j]] \in Int /\ price[s[j]] \in Int
      OBVIOUS
    <3>3. score[s[k]] \in Int /\ price[s[k]] \in Int /\ score[b] \in Int /\ price[b] \in Int
      BY <2>6, <3>1
    <3>4. CASE score[b] > score[s[k]] \/ (score[b] = score[s[k]] /\ price[b] < price[s[k]])
      <4>1. it[i + 1] = b /\ it[i + 1] # "nobody"
        BY <2>2, <2>6, <3>1, <3>4
      <4>2. \A j \in 1 .. i : s[j] \in R =>
              \/ score[s[j]] < score[b]
              \/ score[s[j]] = score[b] /\ price[s[j]] > price[b]
        <5> SUFFICES ASSUME NEW j \in 1 .. i, s[j] \in R
                     PROVE  \/ score[s[j]] < score[b]
                            \/ score[s[j]] = score[b] /\ price[s[j]] > price[b]
          OBVIOUS
        <5>1. \/ score[s[j]] < score[s[k]]
              \/ score[s[j]] = score[s[k]] /\ price[s[j]] >= price[s[k]]
          BY <3>1, <3>2, <3>3
        <5>2. score[s[j]] \in Int /\ price[s[j]] \in Int
          BY <3>2
        <5> QED
          BY <3>3, <3>4, <5>1, <5>2
      <4>3. i + 1 \in 1 .. i + 1
        OBVIOUS
      <4> QED
        BY <2>3, <2>6, <4>1, <4>2, <4>3 DEF BestSoFar
    <3>5. CASE ~(score[b] > score[s[k]] \/ (score[b] = score[s[k]] /\ price[b] < price[s[k]]))
      <4>1. it[i + 1] = s[k] /\ s[k] # "nobody"
        BY <2>2, <2>6, <3>1, <3>5
      <4>2. \/ score[b] < score[s[k]]
            \/ score[b] = score[s[k]] /\ price[b] > price[s[k]]
            \/ score[b] = score[s[k]] /\ price[b] = price[s[k]] /\ i + 1 > k
        BY <3>3, <3>5
      <4>3. k \in 1 .. i + 1
        OBVIOUS
      <4> QED
        BY <2>3, <3>1, <4>1, <4>2, <4>3 DEF BestSoFar
    <3> QED
      BY <3>4, <3>5
  <2> QED
    BY <2>4, <2>5, <2>6
<1> HIDE DEF G
<1>3. n \in G
  BY <1>1, <1>2, NatSetInduction
<1> QED
  BY <1>3 DEF G

\* Whoever a loop picks is one of the candidates.
LEMMA PickedValues ==
  ASSUME NEW S, NEW n \in Nat, NEW s, \A i \in 1 .. n : s[i] \in S,
         NEW it, it[0] = "nobody", \A i \in 1 .. n : it[i] \in {it[i - 1], s[i]}
  PROVE  \A i \in 0 .. n : it[i] \in S \cup {"nobody"}
<1> DEFINE G == {i \in Nat : i <= n => it[i] \in S \cup {"nobody"}}
<1>1. 0 \in G
  OBVIOUS
<1>2. ASSUME NEW i \in Nat, i \in G PROVE i + 1 \in G
  <2> SUFFICES ASSUME i + 1 <= n PROVE it[i + 1] \in S \cup {"nobody"}
    OBVIOUS
  <2>1. i + 1 \in 1 .. n /\ (i + 1) - 1 = i /\ it[i] \in S \cup {"nobody"}
    BY <1>2
  <2> QED
    BY <2>1
<1> HIDE DEF G
<1>3. \A i \in Nat : i \in G
  BY <1>1, <1>2, NatSetInduction
<1> QED
  BY <1>3 DEF G

-----------------------------------------------------------------------------
AuctionRecord == [phase : AuctionPhases, deadline : Nat, revealDeadline : Nat,
                  winner : Bidders \cup {"nobody"}]
BidRecord     == [sealed : BOOLEAN, price : BidPrices \cup {0}, revealed : BOOLEAN,
                  refunded : BOOLEAN, forfeited : BOOLEAN]
EscrowRecord  == [amount : BidPrices \cup {0}, state : {"none", "locked", "released", "refunded"}]

\* The phase tells whether there is an escrow and a winner; a revealed bid is within the
\* limits; the index names every bidder once.
AuctionStands ==
  /\ auction.deadline <= auction.revealDeadline
  /\ auction.phase = "None" => bidders = <<>>
  /\ \A b \in Bidders : bid[b].revealed => Has(b) /\ bid[b].price \in Reserve .. PriceCap
  /\ \A b \in Bidders : ~Has(b) => bid[b] = NoBid
  /\ escrow.state # "none" <=> auction.phase = "Awarded"
  /\ auction.winner # "nobody" <=> auction.phase \in {"Reveal", "Awarded"}
  /\ \A b \in Bidders : Has(b) <=> \E i \in DOMAIN bidders : bidders[i] = b
  /\ \A i, j \in DOMAIN bidders : bidders[i] = bidders[j] => i = j

AuctionIInv == AuctionTypeOK /\ CustodyExact /\ WinnerIsBest /\ AuctionStands

LEMMA AuctionNumbers ==
  /\ Reserve \in Nat /\ PriceCap \in Nat /\ BondSize \in Nat /\ BidSeconds \in Nat
  /\ RevealSeconds \in Nat /\ SnipeWindow \in Nat /\ SnipeExtension \in Nat /\ PhaseMax \in Nat
  /\ ClaimWindow \in Nat /\ OtherCustody \in Nat /\ AuctionEnd \in Nat
  /\ BidPrices \cup {0} \subseteq Nat /\ Reserve > 0 /\ IsFiniteSet(Bidders)
  /\ RepOf \in [Bidders -> 0 .. 100] /\ "nobody" \notin Bidders
BY AuctionAssumption

LEMMA AuctionTypes ==
  ASSUME AuctionTypeOK
  PROVE  /\ auction \in AuctionRecord /\ escrow \in EscrowRecord
         /\ bid \in [Bidders -> BidRecord]
         /\ \A b \in Bidders : bid[b] \in BidRecord /\ bid[b].price \in Nat
         /\ auction.deadline \in Nat /\ auction.revealDeadline \in Nat
         /\ escrow.amount \in Nat
         /\ bidders \in Seq(Bidders) /\ custody \in Nat /\ bidPaused \in BOOLEAN
         /\ ledgerTime \in 0 .. AuctionEnd
<1>1. auction \in AuctionRecord /\ escrow \in EscrowRecord /\ bid \in [Bidders -> BidRecord]
  BY DEF AuctionTypeOK, AuctionRecord, EscrowRecord, BidRecord
<1>2. \A b \in Bidders : bid[b] \in BidRecord /\ bid[b].price \in Nat
  BY <1>1, AuctionNumbers DEF BidRecord
<1>3. auction.deadline \in Nat /\ auction.revealDeadline \in Nat
  BY <1>1 DEF AuctionRecord
<1>4. escrow.amount \in Nat
  BY <1>1, AuctionNumbers DEF EscrowRecord
<1> QED
  BY <1>1, <1>2, <1>3, <1>4 DEF AuctionTypeOK

\* The least and the greatest of some numbers.
LEMMA LeastAndMost ==
  ASSUME NEW n \in Nat, NEW T, T \subseteq 0 .. n, T # {}
  PROVE  Least(T) \in 0 .. n /\ Most(T) \in 0 .. n /\ Least(T) <= Most(T)
<1> DEFINE up == {x + 1 : x \in T}
           down == {n + 1 - x : x \in T}
<1>1. up \subseteq 1 .. n + 1 /\ up # {} /\ down \subseteq 1 .. n + 1 /\ down # {}
  <2>1. \A x \in T : x + 1 \in 1 .. n + 1 /\ n + 1 - x \in 1 .. n + 1
    OBVIOUS
  <2>2. PICK x \in T : TRUE
    OBVIOUS
  <2>3. x + 1 \in up /\ n + 1 - x \in down
    BY <2>2
  <2>4. up \subseteq 1 .. n + 1
    BY <2>1
  <2>5. down \subseteq 1 .. n + 1
    BY <2>1
  <2> QED
    BY <2>3, <2>4, <2>5
<1>2. \E x \in T : \A y \in T : x >= y
  <2>1. PICK i \in up : \A j \in up : j <= i
    <3> HIDE DEF up
    <3> QED
      BY <1>1, GreatestExists, n + 1 \in Nat
  <2>2. PICK x \in T : i = x + 1
    BY <2>1
  <2>3. \A y \in T : y + 1 <= x + 1
    BY <2>1, <2>2
  <2> QED
    BY <2>3
<1>3. \E x \in T : \A y \in T : x <= y
  <2>1. PICK i \in down : \A j \in down : j <= i
    <3> HIDE DEF down
    <3> QED
      BY <1>1, GreatestExists, n + 1 \in Nat
  <2>2. PICK x \in T : i = n + 1 - x
    BY <2>1
  <2>3. \A y \in T : n + 1 - y <= n + 1 - x
    BY <2>1, <2>2
  <2> QED
    BY <2>3
<1>4. Most(T) \in T /\ \A y \in T : Most(T) >= y
  BY <1>2 DEF Most
<1>5. Least(T) \in T /\ \A y \in T : Least(T) <= y
  BY <1>3 DEF Least
<1> QED
  BY <1>4, <1>5

LEMMA RatioType ==
  ASSUME NEW p \in Int, NEW q \in Nat
  PROVE  ScaledRatio(p, q) \in Int
<1>1. CASE q = 0
  BY <1>1 DEF ScaledRatio
<1>2. CASE q # 0
  BY <1>2 DEF ScaledRatio
<1> QED
  BY <1>1, <1>2

\* Scores are numbers.
LEMMA ScoreType ==
  ASSUME AuctionTypeOK, AuctionStands, RevealedSet # {}
  PROVE  \A b \in Bidders : Score(b) \in Int
<1> DEFINE prices == {bid[x].price : x \in RevealedSet}
           reps   == {RepOf[x] : x \in RevealedSet}
<1> SUFFICES ASSUME NEW b \in Bidders PROVE Score(b) \in Int
  OBVIOUS
<1>1. prices \subseteq 0 .. PriceCap /\ prices # {}
  <2>1. \A x \in RevealedSet : bid[x].price \in Reserve .. PriceCap
    BY DEF RevealedSet, AuctionStands
  <2> QED
    BY <2>1, AuctionNumbers
<1>2. reps \subseteq 0 .. 100 /\ reps # {}
  BY AuctionNumbers DEF RevealedSet
<1>3. bid[b].price \in Nat /\ RepOf[b] \in Nat
  <2>1. RepOf[b] \in 0 .. 100
    BY AuctionNumbers
  <2>2. bid[b].price \in Nat
    BY AuctionTypes
  <2> QED
    BY <2>1, <2>2
<1>4. Score(b) = (60 * ScaledRatio(Most(prices) - bid[b].price, Most(prices) - Least(prices))
     + 40 * ScaledRatio(RepOf[b] - Least(reps), Most(reps) - Least(reps))) \div 100
  BY DEF Score
<1> HIDE DEF prices, reps
<1>5. Least(prices) \in 0 .. PriceCap /\ Most(prices) \in 0 .. PriceCap /\ Least(prices) <= Most(prices)
  BY <1>1, AuctionNumbers, LeastAndMost
<1>6. Least(reps) \in 0 .. 100 /\ Most(reps) \in 0 .. 100 /\ Least(reps) <= Most(reps)
  BY <1>2, LeastAndMost
<1>7. ScaledRatio(Most(prices) - bid[b].price, Most(prices) - Least(prices)) \in Int
  <2>1. Most(prices) - bid[b].price \in Int /\ Most(prices) - Least(prices) \in Nat
    BY <1>3, <1>5, AuctionNumbers
  <2> QED
    BY <2>1, RatioType
<1>8. ScaledRatio(RepOf[b] - Least(reps), Most(reps) - Least(reps)) \in Int
  <2>1. RepOf[b] - Least(reps) \in Int /\ Most(reps) - Least(reps) \in Nat
    BY <1>3, <1>6
  <2> QED
    BY <2>1, RatioType
<1> QED
  BY <1>4, <1>7, <1>8

\* Bidders are placed where the index has them.
LEMMA Places ==
  ASSUME AuctionTypeOK, AuctionStands, NEW i \in 1 .. Len(bidders)
  PROVE  PlaceOf(bidders[i]) = i
<1>1. DOMAIN bidders = 1 .. Len(bidders)
  BY AuctionTypes, SeqFacts
<1> QED
  BY <1>1 DEF PlaceOf, AuctionStands

\* The loop of reveal_bids finds the best of the revealed bids.
LEMMA WinnerFound ==
  ASSUME AuctionTypeOK, AuctionStands, RevealedSet # {}
  PROVE  /\ Winner \in RevealedSet
         /\ \A b \in RevealedSet \ {Winner} :
              \/ Score(b) < Score(Winner)
              \/ Score(b) = Score(Winner) /\ bid[b].price > bid[Winner].price
              \/ Score(b) = Score(Winner) /\ bid[b].price = bid[Winner].price
                 /\ PlaceOf(b) > PlaceOf(Winner)
<1> DEFINE score == [b \in Bidders |-> Score(b)]
           price == [b \in Bidders |-> bid[b].price]
           n == Len(bidders)
           looped(it) == it = [i \in 0 .. n |->
                     IF i = 0 THEN "nobody"
                     ELSE IF bid[bidders[i]].revealed
                             /\ (it[i - 1] = "nobody" \/ Beats(bidders[i], it[i - 1]))
                          THEN bidders[i] ELSE it[i - 1]]
           best == CHOOSE it : looped(it)
<1>1. Winner = best[n]
  BY DEF Winner
<1>2. /\ n \in Nat /\ DOMAIN bidders = 1 .. n
      /\ \A i \in 1 .. n : bidders[i] \in Bidders
  BY AuctionTypes, SeqFacts
<1>3. /\ RevealedSet \subseteq Bidders /\ "nobody" \notin RevealedSet
      /\ \A b \in Bidders : b \in RevealedSet <=> bid[b].revealed
  BY AuctionNumbers DEF RevealedSet
<1>4. \A b \in Bidders : /\ score[b] = Score(b) /\ price[b] = bid[b].price
                           /\ score[b] \in Int /\ price[b] \in Int
  <2>1. \A b \in Bidders : Score(b) \in Int
    BY ScoreType
  <2> QED
    BY <2>1, AuctionTypes
<1> HIDE DEF score, price, n
<1>5. \A a, b \in Bidders :
        Beats(a, b) <=> \/ score[a] > score[b]
                        \/ score[a] = score[b] /\ price[a] < price[b]
  BY <1>4 DEF Beats
<1>6. ASSUME NEW it, \A i \in 0 .. n : it[i] \in Bidders \cup {"nobody"}
      PROVE  looped(it) <=> Picked(bidders, RevealedSet, score, price, n, it)
  <2>1. ASSUME NEW i \in 1 .. n
        PROVE  /\ bidders[i] \in RevealedSet <=> bid[bidders[i]].revealed
               /\ it[i - 1] # "nobody" =>
                    (Beats(bidders[i], it[i - 1])
                       <=> \/ score[bidders[i]] > score[it[i - 1]]
                           \/ score[bidders[i]] = score[it[i - 1]]
                              /\ price[bidders[i]] < price[it[i - 1]])
    <3>1. i - 1 \in 0 .. n /\ bidders[i] \in Bidders
      BY <1>2
    <3>2. it[i - 1] # "nobody" => it[i - 1] \in Bidders
      BY <1>6, <3>1
    <3> HIDE DEF looped
    <3> QED
      BY <1>3, <1>5, <3>1, <3>2
  <2> DEFINE one == [i \in 0 .. n |->
                     IF i = 0 THEN "nobody"
                     ELSE IF bid[bidders[i]].revealed
                             /\ (it[i - 1] = "nobody" \/ Beats(bidders[i], it[i - 1]))
                          THEN bidders[i] ELSE it[i - 1]]
             other == [i \in 0 .. n |->
                     IF i = 0 THEN "nobody"
                     ELSE IF /\ bidders[i] \in RevealedSet
                             /\ \/ it[i - 1] = "nobody"
                                \/ score[bidders[i]] > score[it[i - 1]]
                                \/ score[bidders[i]] = score[it[i - 1]]
                                   /\ price[bidders[i]] < price[it[i - 1]]
                          THEN bidders[i] ELSE it[i - 1]]
  <2>2. \A i \in 0 .. n : one[i] = other[i]
    <3> SUFFICES ASSUME NEW i \in 0 .. n PROVE one[i] = other[i]
      OBVIOUS
    <3>1. CASE i = 0
      BY <3>1
    <3>2. CASE i # 0
      <4>1. i \in 1 .. n
        BY <1>2, <3>2
      <4> QED
        BY <2>1, <3>2, <4>1
    <3> QED
      BY <3>1, <3>2
  <2>3. one = other
    BY <2>2
  <2> HIDE DEF one, other
  <2>4. looped(it) <=> it = one
    BY DEF one
  <2>5. Picked(bidders, RevealedSet, score, price, n, it) <=> it = other
    BY DEF Picked, other
  <2> QED
    BY <2>3, <2>4, <2>5
<1>7. looped(best)
  <2>1. PICK it : Picked(bidders, RevealedSet, score, price, n, it)
    BY <1>2, PickedExists
  <2>2. it[0] = "nobody" /\ \A i \in 1 .. n : it[i] \in {it[i - 1], bidders[i]}
    <3>1. 0 \in 0 .. n /\ \A i \in 1 .. n : i \in 0 .. n /\ i # 0
      BY <1>2
    <3> QED
      BY <2>1, <3>1 DEF Picked
  <2>3. \A i \in 0 .. n : it[i] \in Bidders \cup {"nobody"}
    BY <1>2, <2>2, PickedValues
  <2>4. looped(it)
    BY <1>6, <2>1, <2>3
  <2> HIDE DEF looped
  <2> QED
    BY <2>4
<1>8. PICK last : last = best
  OBVIOUS
<1> HIDE DEF best
<1>9. Picked(bidders, RevealedSet, score, price, n, last)
  <2>1. looped(last)
    BY <1>7, <1>8
  <2>2. last[0] = "nobody" /\ \A i \in 1 .. n : last[i] \in {last[i - 1], bidders[i]}
    <3>1. 0 \in 0 .. n /\ \A i \in 1 .. n : i \in 0 .. n /\ i # 0
      BY <1>2
    <3> QED
      BY <2>1, <3>1
  <2>3. \A i \in 0 .. n : last[i] \in Bidders \cup {"nobody"}
    BY <1>2, <2>2, PickedValues
  <2> QED
    BY <1>6, <2>1, <2>3
<1> HIDE DEF looped
<1>10. BestSoFar(bidders, RevealedSet, score, price, n, last[n])
  <2>1. \A x \in RevealedSet : score[x] \in Int /\ price[x] \in Int
    BY <1>3, <1>4
  <2> QED
    BY <1>2, <1>3, <1>9, <2>1, PickedIsBest
<1>11. \A b \in RevealedSet : \E i \in 1 .. n : bidders[i] = b
  <2>1. \A b \in RevealedSet : Has(b)
    BY DEF RevealedSet, AuctionStands
  <2> QED
    BY <1>2, <1>3, <2>1 DEF AuctionStands
<1>12. last[n] # "nobody"
  BY <1>10, <1>11 DEF BestSoFar
<1>13. PICK k \in 1 .. n :
         /\ last[n] = bidders[k] /\ bidders[k] \in RevealedSet
         /\ \A j \in 1 .. n : bidders[j] \in RevealedSet /\ j # k =>
              \/ score[bidders[j]] < score[bidders[k]]
              \/ score[bidders[j]] = score[bidders[k]] /\ price[bidders[j]] > price[bidders[k]]
              \/ score[bidders[j]] = score[bidders[k]] /\ price[bidders[j]] = price[bidders[k]] /\ j > k
  BY <1>10, <1>12 DEF BestSoFar
<1>14. PICK w : w = bidders[k]
  OBVIOUS
<1>15. Winner = w /\ w \in RevealedSet /\ w \in Bidders
  BY <1>1, <1>3, <1>8, <1>13, <1>14
<1>16. ASSUME NEW b \in RevealedSet \ {w}
       PROVE  \/ Score(b) < Score(w)
              \/ Score(b) = Score(w) /\ bid[b].price > bid[w].price
              \/ Score(b) = Score(w) /\ bid[b].price = bid[w].price /\ PlaceOf(b) > PlaceOf(w)
  <2>1. PICK j \in 1 .. n : bidders[j] = b
    BY <1>11
  <2>2. j # k /\ bidders[j] \in RevealedSet
    BY <1>14, <2>1
  <2>3. PlaceOf(b) = j /\ PlaceOf(w) = k
    BY <1>14, <2>1, Places DEF n
  <2>4. \/ score[b] < score[w]
        \/ score[b] = score[w] /\ price[b] > price[w]
        \/ score[b] = score[w] /\ price[b] = price[w] /\ j > k
    BY <1>13, <1>14, <2>1, <2>2
  <2>5. b \in Bidders /\ w \in Bidders
    BY <1>3, <1>15
  <2> QED
    BY <1>4, <2>3, <2>4, <2>5
<1> QED
  BY <1>15, <1>16

-----------------------------------------------------------------------------
\* What the contract has of the bonds are numbers.
LEMMA BondsType ==
  ASSUME AuctionTypeOK
  PROVE  /\ \A b \in Bidders : Bonds[b] \in Int
         /\ SumFunctionOnSet(Bonds, Bidders) \in Int
<1>1. ASSUME NEW b \in Bidders PROVE Bonds[b] \in Int
  <2>1. Bonds[b] = IF Has(b) THEN BondSize * (1 - Times(bid[b].refunded) - Times(bid[b].forfeited)) ELSE 0
    BY DEF Bonds
  <2>2. Times(bid[b].refunded) \in Int /\ Times(bid[b].forfeited) \in Int
    BY DEF Times
  <2> QED
    BY <2>1, <2>2, AuctionNumbers
<1> QED
  BY <1>1, AuctionNumbers, SumType

\* The same bonds are worth the same.
LEMMA SameBonds ==
  ASSUME \A b \in Bidders : /\ bid'[b].sealed = bid[b].sealed
                            /\ bid'[b].refunded = bid[b].refunded
                            /\ bid'[b].forfeited = bid[b].forfeited
  PROVE  SumFunctionOnSet(Bonds, Bidders)' = SumFunctionOnSet(Bonds, Bidders)
<1>1. Bonds' = Bonds
  BY DEF Bonds, Has, Times
<1> QED
  BY <1>1

\* Nothing about the choice depends on what happens to the bonds.
LEMMA SameWinner ==
  ASSUME AuctionTypeOK, WinnerIsBest,
         auction'.winner = auction.winner, bidders' = bidders,
         \A b \in Bidders : bid'[b].price = bid[b].price /\ bid'[b].revealed = bid[b].revealed
  PROVE  WinnerIsBest'
<1>1. RevealedSet' = RevealedSet
  BY DEF RevealedSet
<1>2. {bid'[x].price : x \in RevealedSet} = {bid[x].price : x \in RevealedSet}
  BY DEF RevealedSet
<1>3. \A b \in Bidders : Score(b)' = Score(b)
  BY <1>1, <1>2 DEF Score
<1>4. \A b \in Bidders : PlaceOf(b)' = PlaceOf(b)
  BY DEF PlaceOf
<1>5. PICK w : w = auction.winner
  OBVIOUS
<1>6. auction'.winner = w
  BY <1>5
<1> SUFFICES ASSUME w # "nobody"
             PROVE  /\ bid'[w].revealed
                    /\ \A b \in RevealedSet' \ {w} :
                         \/ Score(b)' < Score(w)'
                         \/ Score(b)' = Score(w)' /\ bid'[b].price > bid'[w].price
                         \/ Score(b)' = Score(w)' /\ bid'[b].price = bid'[w].price
                            /\ PlaceOf(b)' > PlaceOf(w)'
  BY <1>6 DEF WinnerIsBest
<1>7. w \in Bidders
  BY <1>5 DEF AuctionTypeOK
<1>8. /\ bid[w].revealed
      /\ \A b \in RevealedSet \ {w} :
           \/ Score(b) < Score(w)
           \/ Score(b) = Score(w) /\ bid[b].price > bid[w].price
           \/ Score(b) = Score(w) /\ bid[b].price = bid[w].price /\ PlaceOf(b) > PlaceOf(w)
  BY <1>5 DEF WinnerIsBest
<1>9. \A b \in RevealedSet : b \in Bidders
  BY DEF RevealedSet
<1> QED
  BY <1>1, <1>3, <1>4, <1>7, <1>8, <1>9

\* Before a winner is named there is nothing to compare.
LEMMA NoWinnerYet ==
  ASSUME auction'.winner = "nobody"
  PROVE  WinnerIsBest'
BY DEF WinnerIsBest

\* The parts of the invariant in the next state.
LEMMA AuctionTyped ==
  ASSUME auction' \in AuctionRecord, escrow' \in EscrowRecord, bid' \in [Bidders -> BidRecord],
         bidders' \in Seq(Bidders), custody' \in Nat, bidPaused' \in BOOLEAN,
         ledgerTime' \in 0 .. AuctionEnd
  PROVE  AuctionTypeOK'
BY DEF AuctionTypeOK, AuctionRecord, EscrowRecord, BidRecord

\* An index that stays names the same bidders.
LEMMA SameIndex ==
  ASSUME AuctionStands, bidders' = bidders, auction'.deadline = auction.deadline,
         auction'.revealDeadline = auction.revealDeadline, auction'.phase # "None",
         escrow'.state # "none" <=> auction'.phase = "Awarded",
         auction'.winner # "nobody" <=> auction'.phase \in {"Reveal", "Awarded"},
         \A b \in Bidders : bid'[b].sealed = bid[b].sealed /\ (~bid[b].sealed => bid'[b] = bid[b]),
         \A b \in Bidders : bid'[b].revealed =>
            bid[b].sealed /\ bid'[b].price \in Reserve .. PriceCap
  PROVE  AuctionStands'
BY DEF AuctionStands, Has

-----------------------------------------------------------------------------
\* One call of the contract after another.
LEMMA CreateStep ==
  ASSUME AuctionIInv, CreateAuction
  PROVE  AuctionIInv'
<1>1. /\ Unpaused /\ auction.phase = "None"
      /\ auction' = [auction EXCEPT !.phase = "Bidding", !.deadline = ledgerTime + BidSeconds,
                                    !.revealDeadline = ledgerTime + BidSeconds + RevealSeconds]
      /\ custody' = custody + PriceCap /\ UNCHANGED <<bidders, bid, escrow>>
      /\ UNCHANGED <<bidPaused, ledgerTime>>
  BY DEF CreateAuction, InAuction, PullFunds, Unpaused
<1>2. AuctionTypeOK /\ AuctionStands /\ CustodyExact
  BY DEF AuctionIInv
<1>3. /\ ledgerTime \in Nat
      /\ ledgerTime + BidSeconds \in Nat /\ ledgerTime + BidSeconds + RevealSeconds \in Nat
      /\ ledgerTime + BidSeconds <= ledgerTime + BidSeconds + RevealSeconds
  <2>1. ledgerTime \in 0 .. AuctionEnd
    BY <1>2, AuctionTypes
  <2> QED
    BY <2>1, AuctionNumbers
<1>4. auction \in AuctionRecord
  BY <1>2, AuctionTypes
<1>5. /\ auction' \in AuctionRecord /\ auction'.phase = "Bidding"
      /\ auction'.deadline <= auction'.revealDeadline /\ auction'.winner = auction.winner
  BY <1>1, <1>3, <1>4 DEF AuctionRecord, AuctionPhases
<1>6. escrow.state = "none" /\ auction.winner = "nobody"
  BY <1>1, <1>2 DEF AuctionStands
<1>7. AuctionTypeOK'
  <2>1. /\ escrow' \in EscrowRecord /\ bid' \in [Bidders -> BidRecord] /\ bidders' \in Seq(Bidders)
        /\ bidPaused' \in BOOLEAN /\ ledgerTime' \in 0 .. AuctionEnd /\ custody \in Nat
    BY <1>1, <1>2, AuctionTypes
  <2>2. custody' \in Nat
    BY <1>1, <2>1, AuctionNumbers
  <2> QED
    BY <1>5, <2>1, <2>2, AuctionTyped
<1>8. CustodyExact'
  <2>1. SumFunctionOnSet(Bonds, Bidders)' = SumFunctionOnSet(Bonds, Bidders)
    BY <1>1, SameBonds
  <2>2. Budget = 0
    BY <1>1, <1>6 DEF Budget
  <2>3. Budget' = PriceCap
    BY <1>1, <1>5, <1>6 DEF Budget
  <2>4. SumFunctionOnSet(Bonds, Bidders) \in Int
    BY <1>2, BondsType
  <2>5. custody = OtherCustody + 0 + SumFunctionOnSet(Bonds, Bidders)
    BY <1>2, <2>2 DEF CustodyExact
  <2>6. custody' = OtherCustody + PriceCap + SumFunctionOnSet(Bonds, Bidders)
    BY <1>1, <2>4, <2>5, AuctionNumbers
  <2> QED
    BY <2>1, <2>3, <2>6 DEF CustodyExact
<1>9. WinnerIsBest'
  BY <1>5, <1>6, NoWinnerYet
<1>10. AuctionStands'
  BY <1>1, <1>2, <1>5, <1>6 DEF AuctionStands, Has
<1> QED
  BY <1>7, <1>8, <1>9, <1>10 DEF AuctionIInv

LEMMA SubmitStep ==
  ASSUME AuctionIInv, NEW b \in Bidders, NEW price \in BidPrices, SubmitBid(b, price)
  PROVE  AuctionIInv'
<1>1. /\ auction.phase = "Bidding" /\ ledgerTime < auction.deadline /\ ~Has(b)
      /\ bid' = [bid EXCEPT ![b] = [NoBid EXCEPT !.sealed = TRUE, !.price = price]]
      /\ bidders' = Append(bidders, b)
      /\ auction' = [auction EXCEPT !.deadline = @ + Extension, !.revealDeadline = @ + Extension]
      /\ custody' = custody + BondSize
      /\ UNCHANGED <<escrow, bidPaused, ledgerTime>>
  BY DEF SubmitBid, InAuction, PullFunds, Unpaused
<1>2. AuctionTypeOK /\ AuctionStands /\ CustodyExact
  BY DEF AuctionIInv
<1>3. /\ auction \in AuctionRecord /\ auction.deadline \in Nat /\ auction.revealDeadline \in Nat
      /\ auction.deadline <= auction.revealDeadline /\ ledgerTime \in Int
  <2>1. ledgerTime \in 0 .. AuctionEnd
    BY <1>2, AuctionTypes
  <2>2. auction.deadline <= auction.revealDeadline
    BY <1>2 DEF AuctionStands
  <2> QED
    BY <1>2, <2>1, <2>2, AuctionTypes
<1>4. PICK longer : longer = Extension
  OBVIOUS
<1>5. /\ longer \in Int /\ auction.deadline + longer \in Nat
      /\ auction.revealDeadline + longer \in Nat
      /\ auction.deadline + longer <= auction.revealDeadline + longer
  <2>1. longer \in Int /\ auction.deadline + longer \in Nat
    BY <1>3, <1>4, AuctionNumbers DEF Extension
  <2> QED
    BY <1>3, <2>1
<1>6. auction' = [auction EXCEPT !.deadline = @ + longer, !.revealDeadline = @ + longer]
  BY <1>1, <1>4
<1>7. /\ auction' \in AuctionRecord /\ auction'.phase = auction.phase
      /\ auction'.deadline <= auction'.revealDeadline /\ auction'.winner = auction.winner
  BY <1>3, <1>5, <1>6 DEF AuctionRecord
<1>8. escrow.state = "none" /\ auction.winner = "nobody"
  BY <1>1, <1>2 DEF AuctionStands
<1>9. /\ bid \in [Bidders -> BidRecord]
      /\ bid'[b] = [sealed |-> TRUE, price |-> price, revealed |-> FALSE, refunded |-> FALSE,
                    forfeited |-> FALSE]
      /\ \A c \in Bidders : c # b => bid'[c] = bid[c]
      /\ bid' \in [Bidders -> BidRecord]
  <2>1. bid \in [Bidders -> BidRecord]
    BY <1>2, AuctionTypes
  <2> QED
    BY <1>1, <2>1 DEF NoBid, BidRecord
<1>10. /\ bidders' \in Seq(Bidders) /\ Len(bidders') = Len(bidders) + 1
       /\ DOMAIN bidders' = 1 .. Len(bidders) + 1 /\ bidders'[Len(bidders) + 1] = b
       /\ \A i \in 1 .. Len(bidders) : bidders'[i] = bidders[i]
       /\ Len(bidders) \in Nat /\ DOMAIN bidders = 1 .. Len(bidders)
  <2>1. bidders \in Seq(Bidders)
    BY <1>2, AuctionTypes
  <2>2. bidders' \in Seq(Bidders) /\ Len(bidders') = Len(bidders) + 1
    BY <1>1, <2>1, AppendProperties
  <2>3. Len(bidders) \in Nat /\ DOMAIN bidders = 1 .. Len(bidders)
    BY <2>1, SeqFacts
  <2>4. DOMAIN bidders' = 1 .. Len(bidders')
    BY <2>2, SeqFacts
  <2> QED
    BY <1>1, <2>1, <2>2, <2>3, <2>4, AppendProperties
<1>11. AuctionTypeOK'
  <2>1. /\ escrow' \in EscrowRecord
        /\ bidPaused' \in BOOLEAN /\ ledgerTime' \in 0 .. AuctionEnd /\ custody \in Nat
    BY <1>1, <1>2, AuctionTypes
  <2>2. custody' \in Nat
    BY <1>1, <2>1, AuctionNumbers
  <2> QED
    BY <1>7, <1>9, <1>10, <2>1, <2>2, AuctionTyped
<1>12. CustodyExact'
  <2>1. PICK f, g : f = Bonds /\ g = Bonds'
    OBVIOUS
  <2>2. \A c \in Bidders : f[c] \in Int /\ (c # b => g[c] = f[c])
    <3>1. \A c \in Bidders : f[c] \in Int
      BY <1>2, <2>1, BondsType
    <3>2. \A c \in Bidders : c # b => g[c] = f[c]
      BY <1>9, <2>1 DEF Bonds, Has, Times
    <3> QED
      BY <3>1, <3>2
  <2>3. f[b] = 0
    BY <1>1, <2>1 DEF Bonds
  <2>4. g[b] = BondSize
    <3>1. g[b] = BondSize * (1 - 0 - 0)
      BY <1>9, <2>1 DEF Bonds, Has, Times
    <3> QED
      BY <3>1, AuctionNumbers
  <2>5. \A c \in Bidders : f[c] \in Int /\ g[c] \in Int
    BY <2>2, <2>4, AuctionNumbers
  <2>6. SumFunctionOnSet(g, Bidders) = SumFunctionOnSet(f, Bidders) + g[b] - f[b]
    BY <2>2, <2>5, AuctionNumbers, SumChange
  <2>7. Budget = PriceCap
    BY <1>1, <1>8 DEF Budget
  <2>8. Budget' = PriceCap
    BY <1>1, <1>7, <1>8 DEF Budget
  <2>9. SumFunctionOnSet(f, Bidders) \in Int
    BY <2>5, AuctionNumbers, SumType
  <2>10. custody = OtherCustody + PriceCap + SumFunctionOnSet(f, Bidders)
    BY <1>2, <2>1, <2>7 DEF CustodyExact
  <2>11. custody' = OtherCustody + PriceCap + SumFunctionOnSet(g, Bidders)
    BY <1>1, <2>3, <2>4, <2>6, <2>9, <2>10, AuctionNumbers
  <2> QED
    BY <2>1, <2>8, <2>11 DEF CustodyExact
<1>13. WinnerIsBest'
  BY <1>7, <1>8, NoWinnerYet
<1>14. AuctionStands'
  <2>1. \A c \in Bidders : Has(c)' <=> (Has(c) \/ c = b)
    BY <1>9 DEF Has
  <2>2. \A i \in 1 .. Len(bidders) : bidders[i] # b
    BY <1>1, <1>2, <1>10 DEF AuctionStands
  <2>3. \A i \in 1 .. Len(bidders) + 1 : i \in 1 .. Len(bidders) \/ i = Len(bidders) + 1
    BY <1>10
  <2>4. \A c \in Bidders : Has(c)' <=> \E i \in DOMAIN bidders' : bidders'[i] = c
    <3> SUFFICES ASSUME NEW c \in Bidders
                 PROVE  Has(c)' <=> \E i \in DOMAIN bidders' : bidders'[i] = c
      OBVIOUS
    <3>1. Has(c) <=> \E i \in 1 .. Len(bidders) : bidders[i] = c
      BY <1>2, <1>10 DEF AuctionStands
    <3>2. Len(bidders) + 1 \in DOMAIN bidders' /\ 1 .. Len(bidders) \subseteq DOMAIN bidders'
      BY <1>10
    <3> QED
      BY <1>10, <2>1, <2>3, <3>1, <3>2
  <2>5. \A i, j \in DOMAIN bidders' : bidders'[i] = bidders'[j] => i = j
    <3>1. \A i, j \in 1 .. Len(bidders) : bidders[i] = bidders[j] => i = j
      BY <1>2, <1>10 DEF AuctionStands
    <3> QED
      BY <1>10, <2>2, <2>3, <3>1
  <2>6. \A c \in Bidders : bid'[c].revealed => Has(c)' /\ bid'[c].price \in Reserve .. PriceCap
    <3> SUFFICES ASSUME NEW c \in Bidders, bid'[c].revealed
                 PROVE  Has(c)' /\ bid'[c].price \in Reserve .. PriceCap
      OBVIOUS
    <3>1. c # b /\ bid'[c] = bid[c]
      BY <1>9
    <3> QED
      BY <1>2, <2>1, <3>1 DEF AuctionStands
  <2>7. \A c \in Bidders : ~Has(c)' => bid'[c] = NoBid
    BY <1>2, <1>9, <2>1 DEF AuctionStands
  <2> QED
    BY <1>1, <1>7, <1>8, <2>4, <2>5, <2>6, <2>7 DEF AuctionStands
<1> QED
  BY <1>11, <1>12, <1>13, <1>14 DEF AuctionIInv

LEMMA RevealStep ==
  ASSUME AuctionIInv, NEW b \in Bidders, RevealBid(b)
  PROVE  AuctionIInv'
<1>1. /\ auction.phase = "Bidding" /\ Has(b) /\ bid[b].price \in Reserve .. PriceCap
      /\ bid' = [bid EXCEPT ![b].revealed = TRUE]
      /\ UNCHANGED <<auction, bidders, escrow, custody, bidPaused, ledgerTime>>
  BY DEF RevealBid, InAuction, Unpaused
<1>2. AuctionTypeOK /\ AuctionStands /\ CustodyExact
  BY DEF AuctionIInv
<1>3. auction.winner = "nobody"
  BY <1>1, <1>2 DEF AuctionStands
<1>4. /\ bid' \in [Bidders -> BidRecord]
      /\ \A c \in Bidders : /\ bid'[c].sealed = bid[c].sealed /\ bid'[c].price = bid[c].price
                            /\ bid'[c].refunded = bid[c].refunded
                            /\ bid'[c].forfeited = bid[c].forfeited
                            /\ c # b => bid'[c] = bid[c]
  <2>1. bid \in [Bidders -> BidRecord]
    BY <1>2, AuctionTypes
  <2> QED
    BY <1>1, <2>1 DEF BidRecord
<1>5. AuctionTypeOK'
  BY <1>1, <1>2, <1>4 DEF AuctionTypeOK, BidRecord
<1>6. CustodyExact'
  <2>1. SumFunctionOnSet(Bonds, Bidders)' = SumFunctionOnSet(Bonds, Bidders)
    BY <1>4, SameBonds
  <2> QED
    BY <1>1, <1>2, <2>1 DEF CustodyExact, Budget
<1>7. WinnerIsBest'
  BY <1>1, <1>3, NoWinnerYet
<1>8. AuctionStands'
  <2>1. \A c \in Bidders : bid'[c].revealed => bid[c].sealed /\ bid'[c].price \in Reserve .. PriceCap
    BY <1>1, <1>2, <1>4 DEF AuctionStands, Has
  <2>2. /\ escrow.state # "none" <=> auction.phase = "Awarded"
        /\ auction.winner # "nobody" <=> auction.phase \in {"Reveal", "Awarded"}
    BY <1>2 DEF AuctionStands
  <2>3. \A c \in Bidders : bid'[c].sealed = bid[c].sealed /\ (~bid[c].sealed => bid'[c] = bid[c])
    BY <1>1, <1>4 DEF Has
  <2> QED
    BY <1>1, <1>2, <2>1, <2>2, <2>3, SameIndex
<1> QED
  BY <1>5, <1>6, <1>7, <1>8 DEF AuctionIInv

LEMMA FinaliseStep ==
  ASSUME AuctionIInv, FinaliseReveals
  PROVE  AuctionIInv'
<1>1. /\ auction.phase = "Bidding" /\ RevealedSet # {}
      /\ auction' = [auction EXCEPT !.phase = "Reveal", !.winner = Winner]
      /\ UNCHANGED <<bidders, bid, escrow, custody, bidPaused, ledgerTime>>
  BY DEF FinaliseReveals, InAuction, Unpaused
<1>2. AuctionTypeOK /\ AuctionStands /\ CustodyExact
  BY DEF AuctionIInv
<1>3. PICK w : w = Winner
  OBVIOUS
<1>4. /\ w \in RevealedSet
      /\ \A b \in RevealedSet \ {w} :
           \/ Score(b) < Score(w)
           \/ Score(b) = Score(w) /\ bid[b].price > bid[w].price
           \/ Score(b) = Score(w) /\ bid[b].price = bid[w].price /\ PlaceOf(b) > PlaceOf(w)
  BY <1>1, <1>2, <1>3, WinnerFound
<1>5. w \in Bidders /\ bid[w].revealed /\ w # "nobody"
  BY <1>4, AuctionNumbers DEF RevealedSet
<1>6. auction \in AuctionRecord
  BY <1>2, AuctionTypes
<1>7. /\ auction' \in AuctionRecord /\ auction'.phase = "Reveal" /\ auction'.winner = w
      /\ auction'.deadline = auction.deadline /\ auction'.revealDeadline = auction.revealDeadline
  BY <1>1, <1>3, <1>5, <1>6 DEF AuctionRecord, AuctionPhases
<1>8. escrow.state = "none"
  BY <1>1, <1>2 DEF AuctionStands
<1>9. AuctionTypeOK'
  BY <1>1, <1>2, <1>7 DEF AuctionTypeOK, AuctionRecord
<1>10. CustodyExact'
  <2>1. SumFunctionOnSet(Bonds, Bidders)' = SumFunctionOnSet(Bonds, Bidders)
    BY <1>1, SameBonds
  <2>2. Budget = PriceCap
    BY <1>1, <1>8 DEF Budget
  <2>3. Budget' = PriceCap
    BY <1>1, <1>7, <1>8 DEF Budget
  <2> QED
    BY <1>1, <1>2, <2>1, <2>2, <2>3 DEF CustodyExact
<1>11. WinnerIsBest'
  <2>1. RevealedSet' = RevealedSet
    BY <1>1 DEF RevealedSet
  <2>2. {bid'[x].price : x \in RevealedSet} = {bid[x].price : x \in RevealedSet}
    BY <1>1
  <2>3. \A b \in Bidders : Score(b)' = Score(b)
    BY <1>1, <2>1, <2>2 DEF Score
  <2>4. \A b \in Bidders : PlaceOf(b)' = PlaceOf(b)
    BY <1>1 DEF PlaceOf
  <2>5. \A b \in RevealedSet : b \in Bidders
    BY DEF RevealedSet
  <2> QED
    BY <1>1, <1>4, <1>5, <1>7, <2>1, <2>3, <2>4, <2>5 DEF WinnerIsBest
<1>12. AuctionStands'
  <2>1. \A c \in Bidders : bid'[c].revealed => bid[c].sealed /\ bid'[c].price \in Reserve .. PriceCap
    BY <1>1, <1>2 DEF AuctionStands, Has
  <2> QED
    BY <1>1, <1>2, <1>5, <1>7, <1>8, <2>1, SameIndex
<1> QED
  BY <1>9, <1>10, <1>11, <1>12 DEF AuctionIInv

\* A bond goes back to its bidder.
LEMMA RefundStep ==
  ASSUME AuctionIInv, NEW b \in Bidders, ClaimBidRefund(b) \/ ClaimRefund(b)
  PROVE  AuctionIInv'
<1>1. /\ auction.phase # "None" /\ Has(b) /\ ~bid[b].refunded
      /\ bid' = [bid EXCEPT ![b].refunded = TRUE]
      /\ custody >= BondSize /\ custody' = custody - BondSize
      /\ UNCHANGED <<auction, bidders, escrow, bidPaused, ledgerTime>>
  BY DEF ClaimBidRefund, ClaimRefund, Refund, InAuction, PushFunds, Unpaused
<1>2. AuctionTypeOK /\ AuctionStands /\ CustodyExact /\ WinnerIsBest
  BY DEF AuctionIInv
<1>3. /\ bid' \in [Bidders -> BidRecord] /\ bid'[b].refunded = TRUE
      /\ \A c \in Bidders : /\ bid'[c].sealed = bid[c].sealed /\ bid'[c].price = bid[c].price
                            /\ bid'[c].revealed = bid[c].revealed
                            /\ bid'[c].forfeited = bid[c].forfeited
                            /\ c # b => bid'[c] = bid[c]
  <2>1. bid \in [Bidders -> BidRecord]
    BY <1>2, AuctionTypes
  <2> QED
    BY <1>1, <2>1 DEF BidRecord
<1>4. AuctionTypeOK'
  <2>1. /\ escrow' \in EscrowRecord /\ auction' \in AuctionRecord /\ bidders' \in Seq(Bidders)
        /\ bidPaused' \in BOOLEAN /\ ledgerTime' \in 0 .. AuctionEnd /\ custody \in Nat
    BY <1>1, <1>2, AuctionTypes
  <2>2. custody' \in Nat
    BY <1>1, <2>1, AuctionNumbers
  <2> QED
    BY <1>3, <2>1, <2>2, AuctionTyped
<1>5. CustodyExact'
  <2>1. PICK f, g : f = Bonds /\ g = Bonds'
    OBVIOUS
  <2>2. \A c \in Bidders : f[c] \in Int
    BY <1>2, <2>1, BondsType
  <2>3. \A c \in Bidders : c # b => g[c] = f[c]
    BY <1>3, <2>1 DEF Bonds, Has, Times
  <2>4. g[b] = f[b] - BondSize
    <3>1. PICK x : x = Times(bid[b].forfeited)
      OBVIOUS
    <3>2. x \in {0, 1}
      BY <3>1 DEF Times
    <3>3. f[b] = BondSize * (1 - 0 - x)
      BY <1>1, <2>1, <3>1 DEF Bonds, Times
    <3>4. g[b] = BondSize * (1 - 1 - x)
      BY <1>1, <1>3, <2>1, <3>1 DEF Bonds, Has, Times
    <3>5. CASE x = 0
      BY <3>3, <3>4, <3>5, AuctionNumbers
    <3>6. CASE x = 1
      BY <3>3, <3>4, <3>6, AuctionNumbers
    <3> QED
      BY <3>2, <3>5, <3>6
  <2>5. \A c \in Bidders : f[c] \in Int /\ g[c] \in Int
    <3>1. f[b] \in Int /\ f[b] - BondSize \in Int
      BY <2>2, AuctionNumbers
    <3> QED
      BY <2>2, <2>3, <2>4, <3>1
  <2>6. SumFunctionOnSet(g, Bidders) = SumFunctionOnSet(f, Bidders) + g[b] - f[b]
    BY <2>3, <2>5, AuctionNumbers, SumChange
  <2>7. PICK budget : budget = Budget
    OBVIOUS
  <2>8. Budget' = budget
    BY <1>1, <2>7 DEF Budget
  <2>9. budget \in Int
    BY <1>2, <2>7, AuctionTypes, AuctionNumbers DEF Budget
  <2>10. SumFunctionOnSet(f, Bidders) \in Int
    BY <2>5, AuctionNumbers, SumType
  <2>11. custody = OtherCustody + budget + SumFunctionOnSet(f, Bidders)
    BY <1>2, <2>1, <2>7 DEF CustodyExact
  <2>12. SumFunctionOnSet(g, Bidders) = SumFunctionOnSet(f, Bidders) - BondSize
    BY <2>2, <2>4, <2>6, <2>10, AuctionNumbers
  <2>13. custody' = OtherCustody + budget + SumFunctionOnSet(g, Bidders)
    BY <1>1, <2>9, <2>10, <2>11, <2>12, AuctionNumbers
  <2> QED
    BY <2>1, <2>8, <2>13 DEF CustodyExact
<1>6. WinnerIsBest'
  BY <1>1, <1>2, <1>3, SameWinner
<1>7. AuctionStands'
  <2>1. \A c \in Bidders : bid'[c].revealed => bid[c].sealed /\ bid'[c].price \in Reserve .. PriceCap
    BY <1>2, <1>3 DEF AuctionStands, Has
  <2>2. /\ escrow.state # "none" <=> auction.phase = "Awarded"
        /\ auction.winner # "nobody" <=> auction.phase \in {"Reveal", "Awarded"}
    BY <1>2 DEF AuctionStands
  <2>3. \A c \in Bidders : bid'[c].sealed = bid[c].sealed /\ (~bid[c].sealed => bid'[c] = bid[c])
    BY <1>1, <1>3 DEF Has
  <2> QED
    BY <1>1, <1>2, <2>1, <2>2, <2>3, SameIndex
<1> QED
  BY <1>4, <1>5, <1>6, <1>7 DEF AuctionIInv

\* A settlement takes a bond's worth from each bid that was not settled, whoever gets it.
LEMMA SettledBonds ==
  ASSUME AuctionTypeOK,
         \A b \in Bidders \ Unsettled : bid'[b] = bid[b],
         \A b \in Unsettled : /\ bid'[b].sealed = bid[b].sealed
                              /\ bid'[b].refunded # bid'[b].forfeited
                              /\ bid'[b].refunded \in BOOLEAN /\ bid'[b].forfeited \in BOOLEAN
  PROVE  /\ SumFunctionOnSet(Bonds, Bidders)'
              = SumFunctionOnSet(Bonds, Bidders) - Cardinality(Unsettled) * BondSize
         /\ Cardinality(Unsettled) * BondSize \in Nat
<1>1. PICK f, g, U : f = Bonds /\ g = Bonds' /\ U = Unsettled
  OBVIOUS
<1>2. U \in SUBSET Bidders
  BY <1>1 DEF Unsettled
<1>3. \A b \in Bidders : f[b] \in Int
  BY <1>1, BondsType
<1>4. \A b \in Bidders : g[b] = IF b \in U THEN f[b] - BondSize ELSE f[b]
  <2> SUFFICES ASSUME NEW b \in Bidders
               PROVE  g[b] = IF b \in U THEN f[b] - BondSize ELSE f[b]
    OBVIOUS
  <2>1. CASE b \notin U
    BY <1>1, <2>1 DEF Bonds, Has, Times
  <2>2. CASE b \in U
    <3>1. Has(b) /\ ~bid[b].refunded /\ ~bid[b].forfeited
      BY <1>1, <2>2 DEF Unsettled
    <3>2. f[b] = BondSize * (1 - 0 - 0)
      BY <1>1, <3>1 DEF Bonds, Times
    <3>3. \/ bid'[b].refunded = TRUE /\ bid'[b].forfeited = FALSE
          \/ bid'[b].refunded = FALSE /\ bid'[b].forfeited = TRUE
      BY <1>1, <2>2
    <3>4. bid'[b].sealed
      BY <1>1, <2>2, <3>1 DEF Has
    <3>5. g[b] = BondSize * (1 - 1 - 0) \/ g[b] = BondSize * (1 - 0 - 1)
      BY <1>1, <3>3, <3>4 DEF Bonds, Has, Times
    <3> QED
      BY <2>2, <3>2, <3>5, AuctionNumbers
  <2> QED
    BY <2>1, <2>2
<1>5. BondSize \in Int /\ IsFiniteSet(Bidders)
  BY AuctionNumbers
<1>6. SumFunctionOnSet(g, Bidders) = SumFunctionOnSet(f, Bidders) - Cardinality(U) * BondSize
  BY <1>2, <1>3, <1>4, <1>5, SumShift
<1>7. Cardinality(U) * BondSize \in Nat
  <2>1. Cardinality(U) \in Nat
    BY <1>2, <1>5, FS_Subset, FS_CardinalityType
  <2> QED
    BY <2>1, AuctionNumbers
<1> QED
  BY <1>1, <1>6, <1>7

LEMMA AwardStep ==
  ASSUME AuctionIInv, AwardContract
  PROVE  AuctionIInv'
<1>1. PICK w, price, total : w = auction.winner /\ price = bid[w].price
                             /\ total = Cardinality(Unsettled) * BondSize
  OBVIOUS
<1>2. /\ auction.phase = "Reveal"
      /\ bid' = [b \in Bidders |-> IF b \notin Unsettled THEN bid[b]
                                   ELSE IF bid[b].revealed THEN [bid[b] EXCEPT !.refunded = TRUE]
                                   ELSE [bid[b] EXCEPT !.forfeited = TRUE]]
      /\ escrow' = [amount |-> price, state |-> "locked"]
      /\ auction' = [auction EXCEPT !.phase = "Awarded"]
      /\ custody >= total + PriceCap - price /\ custody' = custody - (total + PriceCap - price)
      /\ UNCHANGED <<bidders, bidPaused, ledgerTime>>
  BY <1>1 DEF AwardContract, InAuction, PushFunds, Unpaused
<1>3. AuctionTypeOK /\ AuctionStands /\ CustodyExact /\ WinnerIsBest
  BY DEF AuctionIInv
<1>4. /\ bid' \in [Bidders -> BidRecord]
      /\ \A b \in Bidders \ Unsettled : bid'[b] = bid[b]
      /\ \A b \in Unsettled : /\ bid'[b].refunded # bid'[b].forfeited
                              /\ bid'[b].refunded \in BOOLEAN /\ bid'[b].forfeited \in BOOLEAN
      /\ \A b \in Bidders : /\ bid'[b].sealed = bid[b].sealed /\ bid'[b].price = bid[b].price
                            /\ bid'[b].revealed = bid[b].revealed
  <2>1. bid \in [Bidders -> BidRecord]
    BY <1>3, AuctionTypes
  <2>2. \A b \in Unsettled : b \in Bidders /\ bid[b].refunded = FALSE /\ bid[b].forfeited = FALSE
    BY <2>1 DEF Unsettled, BidRecord
  <2>3. ASSUME NEW b \in Bidders
        PROVE  /\ bid'[b] \in BidRecord /\ bid'[b].sealed = bid[b].sealed
               /\ bid'[b].price = bid[b].price /\ bid'[b].revealed = bid[b].revealed
               /\ b \notin Unsettled => bid'[b] = bid[b]
               /\ b \in Unsettled => /\ bid'[b].refunded # bid'[b].forfeited
                                     /\ bid'[b].refunded \in BOOLEAN
                                     /\ bid'[b].forfeited \in BOOLEAN
    <3>1. bid[b] \in BidRecord
      BY <2>1
    <3>2. CASE b \notin Unsettled
      BY <1>2, <3>1, <3>2
    <3>3. CASE b \in Unsettled /\ bid[b].revealed
      <4>1. bid'[b] = [bid[b] EXCEPT !.refunded = TRUE]
        BY <1>2, <3>3
      <4> QED
        BY <2>2, <3>1, <3>3, <4>1 DEF BidRecord
    <3>4. CASE b \in Unsettled /\ ~bid[b].revealed
      <4>1. bid'[b] = [bid[b] EXCEPT !.forfeited = TRUE]
        BY <1>2, <3>4
      <4> QED
        BY <2>2, <3>1, <3>4, <4>1 DEF BidRecord
    <3> QED
      BY <3>2, <3>3, <3>4
  <2>4. bid' \in [Bidders -> BidRecord]
    BY <1>2, <2>3
  <2> QED
    BY <2>2, <2>3, <2>4
<1>5. w \in Bidders /\ bid[w].revealed
  <2>1. w # "nobody" /\ w \in Bidders \cup {"nobody"}
    BY <1>1, <1>2, <1>3 DEF AuctionStands, AuctionTypeOK
  <2> QED
    BY <1>1, <1>3, <2>1 DEF WinnerIsBest
<1>6. price \in Reserve .. PriceCap /\ price \in BidPrices \cup {0} /\ price \in Nat
  <2>1. bid[w] \in BidRecord /\ bid[w].price \in Nat
    BY <1>3, <1>5, AuctionTypes
  <2> QED
    BY <1>1, <1>3, <1>5, <2>1 DEF AuctionStands, BidRecord
<1>7. /\ SumFunctionOnSet(Bonds, Bidders)' = SumFunctionOnSet(Bonds, Bidders) - total
      /\ total \in Nat
  <2>1. \A b \in Unsettled : b \in Bidders
    BY DEF Unsettled
  <2> QED
    BY <1>1, <1>3, <1>4, <2>1, SettledBonds
<1>8. /\ auction' \in AuctionRecord /\ auction'.phase = "Awarded"
      /\ auction'.winner = auction.winner /\ auction'.deadline = auction.deadline
      /\ auction'.revealDeadline = auction.revealDeadline
  <2>1. auction \in AuctionRecord
    BY <1>3, AuctionTypes
  <2> QED
    BY <1>2, <2>1 DEF AuctionRecord, AuctionPhases
<1>9. escrow' \in EscrowRecord /\ escrow'.state = "locked" /\ escrow'.amount = price
  BY <1>2, <1>6 DEF EscrowRecord
<1>10. AuctionTypeOK'
  <2>1. /\ bidders' \in Seq(Bidders) /\ bidPaused' \in BOOLEAN
        /\ ledgerTime' \in 0 .. AuctionEnd /\ custody \in Nat
    BY <1>2, <1>3, AuctionTypes
  <2>2. custody' \in Nat
    <3>1. PICK paid : paid = total + PriceCap - price
      OBVIOUS
    <3>2. paid \in Int
      BY <1>6, <1>7, <3>1, AuctionNumbers
    <3>3. custody \in Nat /\ custody >= paid /\ custody' = custody - paid
      BY <1>2, <2>1, <3>1
    <3> QED
      BY <3>2, <3>3
  <2> QED
    BY <1>4, <1>8, <1>9, <2>1, <2>2, AuctionTyped
<1>11. CustodyExact'
  <2>1. PICK sum : sum = SumFunctionOnSet(Bonds, Bidders)
    OBVIOUS
  <2>2. sum \in Int /\ SumFunctionOnSet(Bonds, Bidders)' = sum - total
    BY <1>3, <1>7, <2>1, BondsType
  <2>3. Budget = PriceCap
    <3>1. escrow.state = "none"
      BY <1>2, <1>3 DEF AuctionStands
    <3> QED
      BY <1>2, <3>1 DEF Budget
  <2>4. Budget' = price
    BY <1>8, <1>9 DEF Budget
  <2>5. custody = OtherCustody + PriceCap + sum
    BY <1>3, <2>1, <2>3 DEF CustodyExact
  <2>6. custody' = OtherCustody + price + (sum - total)
    BY <1>2, <1>6, <1>7, <2>2, <2>5, AuctionNumbers
  <2> QED
    BY <2>2, <2>4, <2>6 DEF CustodyExact
<1>12. WinnerIsBest'
  BY <1>2, <1>3, <1>4, <1>8, SameWinner
<1>13. AuctionStands'
  <2>1. \A c \in Bidders : bid'[c].revealed => bid[c].sealed /\ bid'[c].price \in Reserve .. PriceCap
    BY <1>3, <1>4 DEF AuctionStands, Has
  <2>2. auction.winner # "nobody"
    BY <1>2, <1>3 DEF AuctionStands
  <2>3. \A c \in Bidders : ~bid[c].sealed => bid'[c] = bid[c]
    BY <1>4 DEF Unsettled, Has
  <2> QED
    BY <1>2, <1>3, <1>4, <1>8, <1>9, <2>1, <2>2, <2>3, SameIndex
<1> QED
  BY <1>10, <1>11, <1>12, <1>13 DEF AuctionIInv

LEMMA AbortStep ==
  ASSUME AuctionIInv, AbortAuction
  PROVE  AuctionIInv'
<1>1. PICK total : total = Cardinality(Unsettled) * BondSize
  OBVIOUS
<1>2. /\ auction.phase = "Bidding"
      /\ bid' = [b \in Bidders |-> IF b \in Unsettled THEN [bid[b] EXCEPT !.refunded = TRUE] ELSE bid[b]]
      /\ auction' = [auction EXCEPT !.phase = "Cancelled"]
      /\ custody >= total + PriceCap /\ custody' = custody - (total + PriceCap)
      /\ UNCHANGED <<bidders, escrow, bidPaused, ledgerTime>>
  BY <1>1 DEF AbortAuction, InAuction, PushFunds, Unpaused
<1>3. AuctionTypeOK /\ AuctionStands /\ CustodyExact
  BY DEF AuctionIInv
<1>4. /\ bid' \in [Bidders -> BidRecord]
      /\ \A b \in Bidders \ Unsettled : bid'[b] = bid[b]
      /\ \A b \in Unsettled : /\ bid'[b].refunded # bid'[b].forfeited
                              /\ bid'[b].refunded \in BOOLEAN /\ bid'[b].forfeited \in BOOLEAN
      /\ \A b \in Bidders : /\ bid'[b].sealed = bid[b].sealed /\ bid'[b].price = bid[b].price
                            /\ bid'[b].revealed = bid[b].revealed
  <2>1. bid \in [Bidders -> BidRecord]
    BY <1>3, AuctionTypes
  <2>2. \A b \in Unsettled : b \in Bidders /\ bid[b].refunded = FALSE /\ bid[b].forfeited = FALSE
    BY <2>1 DEF Unsettled, BidRecord
  <2>3. ASSUME NEW b \in Bidders
        PROVE  /\ bid'[b] \in BidRecord /\ bid'[b].sealed = bid[b].sealed
               /\ bid'[b].price = bid[b].price /\ bid'[b].revealed = bid[b].revealed
               /\ b \notin Unsettled => bid'[b] = bid[b]
               /\ b \in Unsettled => /\ bid'[b].refunded # bid'[b].forfeited
                                     /\ bid'[b].refunded \in BOOLEAN
                                     /\ bid'[b].forfeited \in BOOLEAN
    <3>1. bid[b] \in BidRecord
      BY <2>1
    <3>2. CASE b \notin Unsettled
      BY <1>2, <3>1, <3>2
    <3>3. CASE b \in Unsettled
      <4>1. bid'[b] = [bid[b] EXCEPT !.refunded = TRUE]
        BY <1>2, <3>3
      <4> QED
        BY <2>2, <3>1, <3>3, <4>1 DEF BidRecord
    <3> QED
      BY <3>2, <3>3
  <2>4. bid' \in [Bidders -> BidRecord]
    BY <1>2, <2>3
  <2> QED
    BY <2>2, <2>3, <2>4
<1>5. escrow.state = "none" /\ auction.winner = "nobody"
  BY <1>2, <1>3 DEF AuctionStands
<1>6. /\ SumFunctionOnSet(Bonds, Bidders)' = SumFunctionOnSet(Bonds, Bidders) - total
      /\ total \in Nat
  <2>1. \A b \in Unsettled : b \in Bidders
    BY DEF Unsettled
  <2> QED
    BY <1>1, <1>3, <1>4, <2>1, SettledBonds
<1>7. /\ auction' \in AuctionRecord /\ auction'.phase = "Cancelled"
      /\ auction'.winner = auction.winner /\ auction'.deadline = auction.deadline
      /\ auction'.revealDeadline = auction.revealDeadline
  <2>1. auction \in AuctionRecord
    BY <1>3, AuctionTypes
  <2> QED
    BY <1>2, <2>1 DEF AuctionRecord, AuctionPhases
<1>8. AuctionTypeOK'
  <2>1. /\ bidders' \in Seq(Bidders) /\ bidPaused' \in BOOLEAN /\ escrow' \in EscrowRecord
        /\ ledgerTime' \in 0 .. AuctionEnd /\ custody \in Nat
    BY <1>2, <1>3, AuctionTypes
  <2>2. custody' \in Nat
    BY <1>2, <1>6, <2>1, AuctionNumbers
  <2> QED
    BY <1>4, <1>7, <2>1, <2>2, AuctionTyped
<1>9. CustodyExact'
  <2>1. PICK sum : sum = SumFunctionOnSet(Bonds, Bidders)
    OBVIOUS
  <2>2. sum \in Int /\ SumFunctionOnSet(Bonds, Bidders)' = sum - total
    BY <1>3, <1>6, <2>1, BondsType
  <2>3. Budget = PriceCap
    BY <1>2, <1>5 DEF Budget
  <2>4. Budget' = 0
    BY <1>2, <1>5, <1>7 DEF Budget
  <2>5. custody = OtherCustody + PriceCap + sum
    BY <1>3, <2>1, <2>3 DEF CustodyExact
  <2>6. custody' = OtherCustody + 0 + (sum - total)
    BY <1>2, <1>6, <2>2, <2>5, AuctionNumbers
  <2> QED
    BY <2>2, <2>4, <2>6 DEF CustodyExact
<1>10. WinnerIsBest'
  BY <1>5, <1>7, NoWinnerYet
<1>11. AuctionStands'
  <2>1. \A c \in Bidders : bid'[c].revealed => bid[c].sealed /\ bid'[c].price \in Reserve .. PriceCap
    BY <1>3, <1>4 DEF AuctionStands, Has
  <2>2. \A c \in Bidders : ~bid[c].sealed => bid'[c] = bid[c]
    BY <1>4 DEF Unsettled, Has
  <2> QED
    BY <1>2, <1>3, <1>4, <1>5, <1>7, <2>1, <2>2, SameIndex
<1> QED
  BY <1>8, <1>9, <1>10, <1>11 DEF AuctionIInv

LEMMA SettleStep ==
  ASSUME AuctionIInv, NEW how \in {"released", "refunded"}, SettleEscrow(how)
  PROVE  AuctionIInv'
<1>1. /\ escrow.state = "locked" /\ escrow' = [escrow EXCEPT !.state = how]
      /\ custody >= escrow.amount /\ custody' = custody - escrow.amount
      /\ UNCHANGED <<auction, bidders, bid, bidPaused, ledgerTime>>
  BY DEF SettleEscrow, PushFunds, Unpaused
<1>2. AuctionTypeOK /\ AuctionStands /\ CustodyExact /\ WinnerIsBest
  BY DEF AuctionIInv
<1>3. auction.phase = "Awarded"
  BY <1>1, <1>2 DEF AuctionStands
<1>4. escrow' \in EscrowRecord /\ escrow'.state = how /\ escrow.amount \in Nat
  <2>1. escrow \in EscrowRecord /\ escrow.amount \in Nat
    BY <1>2, AuctionTypes
  <2> QED
    BY <1>1, <2>1 DEF EscrowRecord
<1>5. AuctionTypeOK'
  <2>1. /\ bidders' \in Seq(Bidders) /\ bidPaused' \in BOOLEAN /\ auction' \in AuctionRecord
        /\ bid' \in [Bidders -> BidRecord] /\ ledgerTime' \in 0 .. AuctionEnd /\ custody \in Nat
    BY <1>1, <1>2, AuctionTypes
  <2>2. custody' \in Nat
    BY <1>1, <1>4, <2>1
  <2> QED
    BY <1>4, <2>1, <2>2, AuctionTyped
<1>6. CustodyExact'
  <2>1. PICK sum : sum = SumFunctionOnSet(Bonds, Bidders)
    OBVIOUS
  <2>2. SumFunctionOnSet(Bonds, Bidders)' = sum
    BY <1>1, <2>1, SameBonds
  <2>3. Budget = escrow.amount
    BY <1>1, <1>3 DEF Budget
  <2>4. Budget' = 0
    BY <1>1, <1>3, <1>4 DEF Budget
  <2>5. sum \in Int
    BY <1>2, <2>1, BondsType
  <2>6. custody = OtherCustody + escrow.amount + sum
    BY <1>2, <2>1, <2>3 DEF CustodyExact
  <2>7. custody' = OtherCustody + 0 + sum
    BY <1>1, <1>4, <2>5, <2>6, AuctionNumbers
  <2> QED
    BY <2>2, <2>4, <2>7 DEF CustodyExact
<1>7. WinnerIsBest'
  BY <1>1, <1>2, SameWinner
<1>8. AuctionStands'
  BY <1>1, <1>2, <1>3, <1>4 DEF AuctionStands, Has
<1> QED
  BY <1>5, <1>6, <1>7, <1>8 DEF AuctionIInv

\* Pausing, the passing of time and calls that fail change nothing of the auction.
LEMMA IdleStep ==
  ASSUME AuctionIInv, UNCHANGED <<auction, bidders, bid, escrow, custody>>,
         bidPaused' \in BOOLEAN, ledgerTime' \in 0 .. AuctionEnd
  PROVE  AuctionIInv'
<1>1. AuctionTypeOK /\ AuctionStands /\ CustodyExact /\ WinnerIsBest
  BY DEF AuctionIInv
<1>2. AuctionTypeOK'
  BY <1>1 DEF AuctionTypeOK
<1>3. CustodyExact'
  <2>1. SumFunctionOnSet(Bonds, Bidders)' = SumFunctionOnSet(Bonds, Bidders)
    BY SameBonds
  <2> QED
    BY <1>1, <2>1 DEF CustodyExact, Budget
<1>4. WinnerIsBest'
  BY <1>1, SameWinner
<1>5. AuctionStands'
  BY <1>1 DEF AuctionStands, Has
<1> QED
  BY <1>2, <1>3, <1>4, <1>5 DEF AuctionIInv

LEMMA AuctionStarts ==
  ASSUME AuctionInit
  PROVE  AuctionIInv
<1>1. \A b \in Bidders : bid[b] = NoBid /\ ~bid[b].sealed /\ ~bid[b].revealed
  BY DEF AuctionInit, NoBid
<1>2. auction \in AuctionRecord /\ escrow \in EscrowRecord /\ bid \in [Bidders -> BidRecord]
  BY DEF AuctionInit, AuctionRecord, AuctionPhases, EscrowRecord, NoEscrow, BidRecord, NoBid
<1>3. bidders = <<>> /\ bidders \in Seq(Bidders) /\ DOMAIN bidders = {}
  <2>1. bidders = <<>> /\ bidders \in Seq(Bidders)
    BY EmptySeq DEF AuctionInit
  <2> QED
    BY <2>1
<1>4. custody = OtherCustody /\ bidPaused \in BOOLEAN /\ ledgerTime \in 0 .. AuctionEnd
  <2>1. custody = OtherCustody /\ bidPaused = FALSE /\ ledgerTime = 0
    BY DEF AuctionInit
  <2>2. 0 \in 0 .. AuctionEnd
    BY AuctionNumbers
  <2> QED
    BY <2>1, <2>2, Zenon
<1>5. AuctionTypeOK
  BY <1>2, <1>3, <1>4, AuctionNumbers DEF AuctionTypeOK, AuctionRecord, EscrowRecord, BidRecord
<1>6. CustodyExact
  <2>1. \A b \in Bidders : Bonds[b] = 0
    BY <1>1 DEF Bonds, Has
  <2>2. SumFunctionOnSet(Bonds, Bidders) = 0
    BY <2>1, AuctionNumbers, SumZero
  <2>3. Budget = 0
    BY DEF AuctionInit, NoEscrow, Budget
  <2> QED
    BY <1>4, <2>2, <2>3, AuctionNumbers DEF CustodyExact
<1>7. WinnerIsBest
  BY DEF AuctionInit, WinnerIsBest
<1>8. AuctionStands
  <2>1. /\ auction.deadline = 0 /\ auction.revealDeadline = 0 /\ auction.phase = "None"
        /\ auction.winner = "nobody" /\ escrow.state = "none"
    BY DEF AuctionInit, NoEscrow
  <2> QED
    BY <1>1, <1>3, <2>1 DEF AuctionStands, Has
<1> QED
  BY <1>5, <1>6, <1>7, <1>8 DEF AuctionIInv

\* The contract holds what it owes and the best bid wins, for any bidders, prices, deadlines
\* and sizes of bonds, whoever calls what and when.
THEOREM AuctionHolds == AuctionSpec => []AuctionInv
<1>1. AuctionInit => AuctionIInv
  BY AuctionStarts
<1>2. AuctionIInv /\ [AuctionNext]_auctionVars => AuctionIInv'
  <2> SUFFICES ASSUME AuctionIInv, [AuctionNext]_auctionVars PROVE AuctionIInv'
    OBVIOUS
  <2>1. bidPaused \in BOOLEAN /\ ledgerTime \in 0 .. AuctionEnd
    BY DEF AuctionIInv, AuctionTypeOK
  <2>2. CASE CreateAuction
    BY <2>2, CreateStep
  <2>3. CASE FinaliseReveals
    BY <2>3, FinaliseStep
  <2>4. CASE AwardContract
    BY <2>4, AwardStep
  <2>5. CASE AbortAuction
    BY <2>5, AbortStep
  <2>6. CASE \E how \in {"released", "refunded"} : SettleEscrow(how)
    BY <2>6, SettleStep
  <2>7. CASE TogglePause
    BY <2>1, <2>7, IdleStep DEF TogglePause
  <2>8. CASE LedgerCloses
    <3>1. ledgerTime' \in 0 .. AuctionEnd
      BY <2>1, <2>8, AuctionNumbers DEF LedgerCloses
    <3> QED
      BY <2>1, <2>8, <3>1, IdleStep DEF LedgerCloses
  <2>9. CASE \E b \in Bidders : RevealBid(b)
    BY <2>9, RevealStep
  <2>10. CASE \E b \in Bidders : ClaimBidRefund(b) \/ ClaimRefund(b)
    BY <2>10, RefundStep
  <2>11. CASE \E b \in Bidders : \E price \in BidPrices : SubmitBid(b, price)
    BY <2>11, SubmitStep
  <2>12. CASE UNCHANGED auctionVars
    BY <2>1, <2>12, IdleStep DEF auctionVars
  <2> QED
    BY <2>2, <2>3, <2>4, <2>5, <2>6, <2>7, <2>8, <2>9, <2>10, <2>11, <2>12 DEF AuctionNext
<1>3. AuctionIInv => AuctionInv
  BY DEF AuctionIInv, AuctionInv
<1> QED
  BY <1>1, <1>2, <1>3, PTL DEF AuctionSpec

-----------------------------------------------------------------------------
USE MarketAssumption

BookingRecord == [state : {"none", "open", "completed", "cancelled"},
                  of : Listings \cup {"none"}, amount : Nat, rating : 0 .. 5]

\* A booking that was made names its listing, and is rated only once it was completed.
BookingsStand ==
  \A k \in Bookings :
    /\ booking[k].state # "none" => booking[k].of \in Listings
    /\ booking[k].rating > 0 => booking[k].state = "completed"

MarketIInv == MarketTypeOK /\ EscrowsBalance /\ RatingsAddUp /\ BookingsStand

LEMMA MarketNumbers ==
  /\ TimelockDelay \in Nat /\ MinimumListing \in Nat /\ AssetReserve \in Nat /\ MarketEnd \in Nat
  /\ ListPrices \cup {0} \subseteq Nat
OBVIOUS

\* What the sums are over.
LEMMA MarketSummands ==
  ASSUME MarketTypeOK
  PROVE  /\ \A a \in Assets : funds[a] \in Nat
         /\ \A k \in Bookings : booking[k] \in BookingRecord /\ Held[k] \in Nat
         /\ \A g \in Agents : /\ \A k \in Bookings : RatingFor(g)[k] \in Nat
                              /\ IsFiniteSet(Rated(g)) /\ Cardinality(Rated(g)) \in Nat
<1>1. \A a \in Assets : funds[a] \in Nat
  BY DEF MarketTypeOK
<1>2. \A k \in Bookings : booking[k] \in BookingRecord
  BY DEF MarketTypeOK, BookingRecord
<1>3. \A k \in Bookings : booking[k].amount \in Nat /\ booking[k].rating \in Nat
  BY <1>2 DEF BookingRecord
<1>4. \A g \in Agents : Rated(g) \subseteq Bookings
  BY DEF Rated
<1> QED
  BY <1>1, <1>2, <1>3, <1>4, FS_Subset, FS_CardinalityType DEF Held, RatingFor

LEMMA MarketSums ==
  ASSUME MarketTypeOK
  PROVE  /\ SumFunctionOnSet(funds, Assets) \in Nat
         /\ SumFunctionOnSet(Held, Bookings) \in Nat
         /\ \A g \in Agents : SumFunctionOnSet(RatingFor(g), Bookings) \in Nat
<1>1. SumFunctionOnSet(funds, Assets) \in Nat
  BY MarketSummands, SumNat
<1>2. SumFunctionOnSet(Held, Bookings) \in Nat
  BY MarketSummands, SumNat
<1>3. ASSUME NEW g \in Agents PROVE SumFunctionOnSet(RatingFor(g), Bookings) \in Nat
  <2>1. \A k \in Bookings : RatingFor(g)[k] \in Nat
    BY MarketSummands
  <2> QED
    BY <2>1, SumNat
<1> QED
  BY <1>1, <1>2, <1>3

\* A step that touches neither bookings nor ratings keeps the ratings, and with the funds the escrows.
LEMMA RatingsUntouched ==
  ASSUME RatingsAddUp, UNCHANGED ratingOf,
         \A k \in Bookings : /\ booking'[k].rating = booking[k].rating
                             /\ booking[k].rating > 0 => booking'[k].of = booking[k].of
  PROVE  RatingsAddUp'
<1>1. \A g \in Agents : Rated(g)' = Rated(g)
  BY DEF Rated
<1>2. \A g \in Agents : RatingFor(g)' = RatingFor(g)
  BY <1>1 DEF RatingFor
<1> QED
  BY <1>1, <1>2 DEF RatingsAddUp

LEMMA EscrowsUntouched ==
  ASSUME EscrowsBalance, UNCHANGED funds, Held' = Held
  PROVE  EscrowsBalance'
BY DEF EscrowsBalance

-----------------------------------------------------------------------------
LEMMA MarketStarts == MarketInit => MarketIInv
<1> SUFFICES ASSUME MarketInit PROVE MarketIInv
  OBVIOUS
<1>1. MarketTypeOK
  <2>1. NoListing \in [active : BOOLEAN, price : ListPrices \cup {0}, since : 0 .. MarketEnd]
    BY MarketNumbers DEF NoListing
  <2>2. [state |-> "none", of |-> "none", amount |-> 0, rating |-> 0] \in BookingRecord
    BY DEF BookingRecord
  <2>3. /\ listing \in [Listings -> [active : BOOLEAN, price : ListPrices \cup {0}, since : 0 .. MarketEnd]]
        /\ booking \in [Bookings -> BookingRecord]
    BY <2>1, <2>2 DEF MarketInit
  <2>4. funds \in [Assets -> Nat] /\ payAsset \in Assets /\ marketTime \in 0 .. MarketEnd
    BY MarketNumbers DEF MarketInit
  <2>5. marketPaused \in BOOLEAN
    BY DEF MarketInit
  <2>6. ratingOf \in [Agents -> [total : Nat, sum : Nat]] /\ queued = {}
    BY DEF MarketInit
  <2> QED
    BY <2>3, <2>4, <2>5, <2>6 DEF MarketTypeOK, BookingRecord
<1>2. EscrowsBalance
  <2>1. \A a \in Assets : funds[a] = AssetReserve
    BY DEF MarketInit
  <2>2. SumFunctionOnSet(funds, Assets) = AssetReserve * Cardinality(Assets)
    BY <2>1, MarketNumbers, SumConstant
  <2>3. \A k \in Bookings : Held[k] = 0
    BY DEF MarketInit, Held
  <2>4. SumFunctionOnSet(Held, Bookings) = 0
    BY <2>3, SumZero
  <2>5. AssetReserve * Cardinality(Assets) \in Nat
    BY MarketNumbers, FS_CardinalityType
  <2> QED
    BY <2>2, <2>4, <2>5 DEF EscrowsBalance
<1>3. RatingsAddUp
  <2>1. \A g \in Agents : Rated(g) = {}
    BY DEF MarketInit, Rated
  <2>2. \A g \in Agents : \A k \in Bookings : RatingFor(g)[k] = 0
    BY <2>1 DEF RatingFor
  <2>3. \A g \in Agents : SumFunctionOnSet(RatingFor(g), Bookings) = 0
    BY <2>2, SumZero
  <2>4. \A g \in Agents : Cardinality(Rated(g)) = 0
    BY <2>1, FS_EmptySet
  <2> QED
    BY <2>3, <2>4 DEF MarketInit, RatingsAddUp
<1>4. BookingsStand
  BY DEF MarketInit, BookingsStand
<1> QED
  BY <1>1, <1>2, <1>3, <1>4 DEF MarketIInv

LEMMA ListingKeeps ==
  ASSUME MarketIInv, NEW l \in Listings, NEW price \in ListPrices,
         ListService(l, price) \/ UpdateListingPrice(l, price)
  PROVE  MarketIInv'
<1> USE DEF MarketIInv
<1>1. UNCHANGED <<booking, funds, ratingOf, payAsset, queued, marketPaused, marketTime>>
  BY DEF ListService, UpdateListingPrice, Trading
<1>2. listing' \in [Listings -> [active : BOOLEAN, price : ListPrices \cup {0}, since : 0 .. MarketEnd]]
  <2>1. marketTime \in 0 .. MarketEnd
    BY DEF MarketTypeOK
  <2>2. CASE ListService(l, price)
    BY <2>1, <2>2 DEF ListService, MarketTypeOK
  <2>3. CASE UpdateListingPrice(l, price)
    <3> DEFINE once == [listing EXCEPT ![l].price = price]
    <3>1. once \in [Listings -> [active : BOOLEAN, price : ListPrices \cup {0}, since : 0 .. MarketEnd]]
      BY DEF MarketTypeOK
    <3>2. listing' = [once EXCEPT ![l].since = marketTime]
      BY <2>3 DEF UpdateListingPrice
    <3> HIDE DEF once
    <3> QED
      BY <2>1, <3>1, <3>2
  <2> QED
    BY <2>2, <2>3
<1>3. MarketTypeOK'
  BY <1>1, <1>2 DEF MarketTypeOK
<1>4. Held' = Held
  BY <1>1 DEF Held
<1> QED
  BY <1>1, <1>3, <1>4, RatingsUntouched, EscrowsUntouched DEF BookingsStand

LEMMA BookKeeps ==
  ASSUME MarketIInv, NEW k \in Bookings, NEW l \in Listings, NEW amount \in ListPrices,
         BookAgent(k, l, amount)
  PROVE  MarketIInv'
<1> USE DEF MarketIInv
<1> DEFINE new == [state |-> "open", of |-> l, amount |-> amount, rating |-> 0]
<1>1. /\ booking' = [booking EXCEPT ![k] = new] /\ booking[k].state = "none"
      /\ funds' = [funds EXCEPT ![payAsset] = @ + amount]
      /\ UNCHANGED <<listing, ratingOf, payAsset, queued, marketPaused, marketTime>>
  BY DEF BookAgent, Trading
<1>2. amount \in Nat /\ new \in BookingRecord /\ new.state = "open" /\ new.amount = amount
      /\ new.rating = 0 /\ new.of = l
  <2> HIDE DEF MarketIInv
  <2>1. amount \in Nat
    BY MarketNumbers
  <2>2. 0 \in 0 .. 5
    OBVIOUS
  <2> QED
    BY <2>1, <2>2 DEF BookingRecord
<1> HIDE DEF new
<1>3. /\ booking \in [Bookings -> BookingRecord] /\ funds \in [Assets -> Nat] /\ payAsset \in Assets
      /\ booking[k].rating \in Nat /\ ~(booking[k].rating > 0)
  BY <1>1 DEF MarketTypeOK, BookingRecord, BookingsStand
<1>4. /\ booking' \in [Bookings -> BookingRecord] /\ booking'[k] = new
      /\ \A j \in Bookings : j # k => booking'[j] = booking[j]
      /\ funds' \in [Assets -> Nat] /\ funds'[payAsset] = funds[payAsset] + amount
      /\ \A a \in Assets : a # payAsset => funds'[a] = funds[a]
  BY <1>1, <1>2, <1>3
<1>5. MarketTypeOK'
  BY <1>1, <1>4 DEF MarketTypeOK, BookingRecord
<1>6. EscrowsBalance'
  <2>1. /\ \A a \in Assets : funds[a] \in Int /\ funds'[a] \in Int
        /\ \A j \in Bookings : Held[j] \in Int /\ Held'[j] \in Int
    BY <1>3, <1>4, <1>5, MarketSummands DEF Held, BookingRecord
  <2>2. SumFunctionOnSet(funds', Assets) = SumFunctionOnSet(funds, Assets) + funds'[payAsset] - funds[payAsset]
    BY <1>3, <1>4, <2>1, SumChange
  <2>3. Held[k] = 0 /\ Held'[k] = amount /\ \A j \in Bookings : j # k => Held'[j] = Held[j]
    BY <1>1, <1>2, <1>4 DEF Held
  <2>4. SumFunctionOnSet(Held', Bookings) = SumFunctionOnSet(Held, Bookings) + Held'[k] - Held[k]
    BY <2>1, <2>3, SumChange
  <2>5. /\ SumFunctionOnSet(funds', Assets) = SumFunctionOnSet(funds, Assets) + amount
        /\ SumFunctionOnSet(Held', Bookings) = SumFunctionOnSet(Held, Bookings) + amount
    BY <1>2, <1>3, <1>4, <2>2, <2>3, <2>4, MarketSums
  <2>6. AssetReserve * Cardinality(Assets) \in Nat
    BY MarketNumbers, FS_CardinalityType
  <2> QED
    BY <1>2, <2>5, <2>6, MarketSums DEF EscrowsBalance
<1>7. RatingsAddUp'
  BY <1>1, <1>2, <1>3, <1>4, RatingsUntouched DEF BookingRecord, MarketTypeOK
<1>8. BookingsStand'
  BY <1>2, <1>4 DEF BookingsStand
<1> QED
  BY <1>5, <1>6, <1>7, <1>8

LEMMA CloseKeeps ==
  ASSUME MarketIInv, NEW k \in Bookings, NEW how \in {"completed", "cancelled"}, CloseBooking(k, how)
  PROVE  MarketIInv'
<1> USE DEF MarketIInv
<1> DEFINE amount == booking[k].amount
<1>1. /\ booking' = [booking EXCEPT ![k].state = how] /\ booking[k].state = "open"
      /\ funds[payAsset] >= amount /\ funds' = [funds EXCEPT ![payAsset] = @ - amount]
      /\ UNCHANGED <<listing, ratingOf, payAsset, queued, marketPaused, marketTime>>
  BY DEF CloseBooking, Trading, Open
<1>3. /\ booking \in [Bookings -> BookingRecord] /\ funds \in [Assets -> Nat] /\ payAsset \in Assets
      /\ booking[k].rating \in Nat /\ ~(booking[k].rating > 0) /\ amount \in Nat
      /\ booking[k].of \in Listings
  BY <1>1 DEF MarketTypeOK, BookingRecord, BookingsStand
<1>4. /\ booking' \in [Bookings -> BookingRecord] /\ booking'[k].state = how
      /\ booking'[k].rating = booking[k].rating /\ booking'[k].of = booking[k].of
      /\ \A j \in Bookings : j # k => booking'[j] = booking[j]
      /\ funds' \in [Assets -> Nat] /\ funds'[payAsset] = funds[payAsset] - amount
      /\ \A a \in Assets : a # payAsset => funds'[a] = funds[a]
  <2>1. [booking[k] EXCEPT !.state = how] \in BookingRecord
    BY <1>3 DEF BookingRecord
  <2>2. funds[payAsset] - amount \in Nat
    BY <1>1, <1>3
  <2>3. booking'[k] = [booking[k] EXCEPT !.state = how]
    BY <1>1, <1>3
  <2> HIDE DEF amount
  <2>4. booking' \in [Bookings -> BookingRecord] /\ \A j \in Bookings : j # k => booking'[j] = booking[j]
    BY <1>1, <1>3, <2>1, <2>3
  <2>5. /\ funds' \in [Assets -> Nat] /\ funds'[payAsset] = funds[payAsset] - amount
        /\ \A a \in Assets : a # payAsset => funds'[a] = funds[a]
    BY <1>1, <1>3, <2>2
  <2> QED
    BY <1>3, <2>3, <2>4, <2>5 DEF BookingRecord
<1>5. MarketTypeOK'
  BY <1>1, <1>4 DEF MarketTypeOK, BookingRecord
<1>6. EscrowsBalance'
  <2>1. /\ \A a \in Assets : funds[a] \in Int /\ funds'[a] \in Int
        /\ \A j \in Bookings : Held[j] \in Int /\ Held'[j] \in Int
    BY <1>3, <1>4, <1>5, MarketSummands DEF Held, BookingRecord
  <2>2. SumFunctionOnSet(funds', Assets) = SumFunctionOnSet(funds, Assets) + funds'[payAsset] - funds[payAsset]
    BY <1>3, <1>4, <2>1, SumChange
  <2>3. Held[k] = amount /\ Held'[k] = 0 /\ \A j \in Bookings : j # k => Held'[j] = Held[j]
    BY <1>1, <1>4 DEF Held
  <2>4. SumFunctionOnSet(Held', Bookings) = SumFunctionOnSet(Held, Bookings) + Held'[k] - Held[k]
    BY <2>1, <2>3, SumChange
  <2> HIDE DEF amount
  <2>5. /\ SumFunctionOnSet(funds', Assets) = SumFunctionOnSet(funds, Assets) - amount
        /\ SumFunctionOnSet(Held', Bookings) = SumFunctionOnSet(Held, Bookings) - amount
    BY <1>3, <1>4, <2>2, <2>3, <2>4, MarketSums
  <2>6. AssetReserve * Cardinality(Assets) \in Nat
    BY MarketNumbers, FS_CardinalityType
  <2> QED
    BY <1>3, <2>5, <2>6, MarketSums DEF EscrowsBalance
<1>7. RatingsAddUp'
  BY <1>1, <1>4, RatingsUntouched
<1>8. BookingsStand'
  BY <1>3, <1>4 DEF BookingsStand
<1> QED
  BY <1>5, <1>6, <1>7, <1>8

LEMMA RateKeeps ==
  ASSUME MarketIInv, NEW k \in Bookings, NEW rating \in {1, 5}, RateBooking(k, rating)
  PROVE  MarketIInv'
<1> USE DEF MarketIInv
<1>0. PICK g \in Agents : g = OfferOf[booking[k].of][1]
  <2>1. booking[k].of \in Listings
    BY DEF RateBooking, Rateable, BookingsStand
  <2> QED
    BY <2>1 DEF Agents
<1> DEFINE more == [total |-> ratingOf[g].total + 1, sum |-> ratingOf[g].sum + rating]
<1>1. /\ booking' = [booking EXCEPT ![k].rating = rating]
      /\ booking[k].state = "completed" /\ booking[k].rating = 0
      /\ ratingOf' = [ratingOf EXCEPT ![g] = more]
      /\ UNCHANGED <<listing, funds, payAsset, queued, marketPaused, marketTime>>
  BY <1>0 DEF RateBooking, Trading, Rateable
<1>2. /\ booking \in [Bookings -> BookingRecord] /\ ratingOf \in [Agents -> [total : Nat, sum : Nat]]
      /\ booking[k].of \in Listings
  <2>1. booking[k].of \in Listings
    BY <1>1 DEF BookingsStand
  <2> QED
    BY <2>1 DEF MarketTypeOK, BookingRecord
<1>3. /\ booking' \in [Bookings -> BookingRecord] /\ booking'[k].state = "completed"
      /\ booking'[k].rating = rating /\ booking'[k].of = booking[k].of /\ booking'[k].amount = booking[k].amount
      /\ \A j \in Bookings : j # k => booking'[j] = booking[j]
  <2>1. [booking[k] EXCEPT !.rating = rating] \in BookingRecord
    BY <1>2 DEF BookingRecord
  <2> QED
    BY <1>1, <1>2, <2>1 DEF BookingRecord
<1>4. more \in [total : Nat, sum : Nat]
  BY <1>2
<1> HIDE DEF more
<1>5. /\ ratingOf' \in [Agents -> [total : Nat, sum : Nat]] /\ ratingOf'[g] = more
      /\ \A h \in Agents : h # g => ratingOf'[h] = ratingOf[h]
  BY <1>1, <1>2, <1>4
<1>6. MarketTypeOK'
  BY <1>1, <1>3, <1>5 DEF MarketTypeOK, BookingRecord
<1>7. EscrowsBalance'
  <2>1. Held' = Held
    BY <1>1, <1>3 DEF Held
  <2> QED
    BY <1>1, <2>1, EscrowsUntouched
<1>8. RatingsAddUp'
  <2>1. /\ Rated(g)' = Rated(g) \cup {k} /\ k \notin Rated(g)
        /\ \A h \in Agents : h # g => Rated(h)' = Rated(h)
    BY <1>0, <1>1, <1>3 DEF Rated
  <2>2. Cardinality(Rated(g)') = Cardinality(Rated(g)) + 1
    BY <1>2, <2>1, MarketSummands, FS_AddElement
  <2>3. /\ \A j \in Bookings : RatingFor(g)[j] \in Int /\ RatingFor(g)'[j] \in Int
        /\ RatingFor(g)[k] = 0 /\ RatingFor(g)'[k] = rating
        /\ \A j \in Bookings : j # k => RatingFor(g)'[j] = RatingFor(g)[j]
    <3>1. \A j \in Bookings : booking[j].rating \in Int /\ booking'[j].rating \in Int
      BY <1>2, <1>3 DEF BookingRecord
    <3> QED
      BY <1>3, <2>1, <3>1 DEF RatingFor
  <2>4. SumFunctionOnSet(RatingFor(g)', Bookings) = SumFunctionOnSet(RatingFor(g), Bookings) + rating
    <3>1. SumFunctionOnSet(RatingFor(g)', Bookings)
            = SumFunctionOnSet(RatingFor(g), Bookings) + RatingFor(g)'[k] - RatingFor(g)[k]
      BY <2>3, SumChange
    <3> QED
      BY <1>2, <2>3, <3>1, MarketSums
  <2>5. \A h \in Agents : h # g => RatingFor(h)' = RatingFor(h)
    BY <1>3, <2>1 DEF RatingFor, Rated
  <2>6. ratingOf'[g] = [total |-> Cardinality(Rated(g)'), sum |-> SumFunctionOnSet(RatingFor(g)', Bookings)]
    BY <1>2, <1>5, <2>2, <2>4 DEF RatingsAddUp, more
  <2>7. \A h \in Agents : h # g =>
          ratingOf'[h] = [total |-> Cardinality(Rated(h)'), sum |-> SumFunctionOnSet(RatingFor(h)', Bookings)]
    BY <1>5, <2>1, <2>5 DEF RatingsAddUp
  <2> QED
    BY <2>6, <2>7 DEF RatingsAddUp
<1>9. BookingsStand'
  BY <1>2, <1>3 DEF BookingsStand
<1> QED
  BY <1>6, <1>7, <1>8, <1>9

\* The pause, the queue of privileged changes and time.
LEMMA BookkeepingKeeps ==
  ASSUME MarketIInv,
         \/ PauseMarket \/ MarketTick \/ UNCHANGED marketVars
         \/ \E action \in AdminActions : QueueAction(action)
         \/ \E q \in queued : ExecuteAction(q) \/ CancelAction(q)
  PROVE  MarketIInv'
<1> USE DEF MarketIInv
<1>1. UNCHANGED <<listing, booking, funds, ratingOf>>
  BY DEF PauseMarket, MarketTick, QueueAction, ExecuteAction, CancelAction, Bookkeeping, marketVars
<1>2. /\ marketTime \in 0 .. MarketEnd /\ marketPaused \in BOOLEAN /\ payAsset \in Assets
      /\ queued \subseteq AdminActions \X (0 .. MarketEnd + TimelockDelay)
  BY DEF MarketTypeOK
<1>3. marketTime' \in 0 .. MarketEnd
  <2>1. marketTime' = marketTime \/ (marketTime < MarketEnd /\ marketTime' = marketTime + 1)
    BY DEF PauseMarket, MarketTick, QueueAction, ExecuteAction, CancelAction, Bookkeeping, marketVars
  <2> QED
    BY <1>2, <2>1, MarketNumbers
<1>4. marketPaused' \in BOOLEAN
  BY <1>2 DEF PauseMarket, MarketTick, QueueAction, ExecuteAction, CancelAction, marketVars
<1>5. payAsset' \in Assets
  <2>1. \A q \in queued : q[1] = "unpause" \/ q[1] \in Assets
    BY <1>2 DEF AdminActions
  <2> QED
    BY <1>2, <2>1 DEF PauseMarket, MarketTick, QueueAction, ExecuteAction, CancelAction, marketVars
<1>6. queued' \subseteq AdminActions \X (0 .. MarketEnd + TimelockDelay)
  <2>1. marketTime + TimelockDelay \in 0 .. MarketEnd + TimelockDelay
    BY <1>2, MarketNumbers
  <2>2. \/ queued' \subseteq queued
        \/ \E action \in AdminActions : queued' = {<<action, marketTime + TimelockDelay>>}
    BY DEF PauseMarket, MarketTick, QueueAction, ExecuteAction, CancelAction, marketVars
  <2> QED
    BY <1>2, <2>1, <2>2
<1>7. MarketTypeOK'
  BY <1>1, <1>3, <1>4, <1>5, <1>6 DEF MarketTypeOK
<1>8. Held' = Held
  BY <1>1 DEF Held
<1> QED
  BY <1>1, <1>7, <1>8, RatingsUntouched, EscrowsUntouched DEF BookingsStand

LEMMA MarketStepKeeps ==
  ASSUME MarketIInv, [MarketNext]_marketVars
  PROVE  MarketIInv'
<1>1. ASSUME NEW k \in Bookings,
             \/ CloseBooking(k, "completed") \/ CloseBooking(k, "cancelled")
             \/ \E rating \in {1, 5} : RateBooking(k, rating)
      PROVE  MarketIInv'
  BY <1>1, CloseKeeps, RateKeeps
<1> QED
  BY <1>1, ListingKeeps, BookKeeps, BookkeepingKeeps DEF MarketNext

-----------------------------------------------------------------------------
\* For any listings, bookings, agents and assets: besides its reserve the contract holds what
\* open bookings paid in, so complete_booking, cancel_booking and an asset change pay each out
\* once, and an agent's aggregate rating is that of its completed bookings.
THEOREM MarketHolds == MarketSpec => []MarketInv
<1>1. MarketIInv => MarketInv
  BY DEF MarketIInv, MarketInv
<1> QED
  BY <1>1, MarketStarts, MarketStepKeeps, PTL DEF MarketSpec

-----------------------------------------------------------------------------
USE PriceAssumption, TaskLedgerAssumption

LEMMA LedgerNumbers ==
  /\ Prices \cup {0} \subseteq Nat /\ MaxAges \subseteq Nat /\ PriceEnd \in Nat
  /\ MaxHistory \in Nat /\ MaxHistory >= 8
  /\ FirstMaxAge \in MaxAges /\ 0 \in 0 .. PriceEnd /\ 0 \in 0 .. MaxHistory /\ 0 \in Prices \cup {0}
OBVIOUS

\* How many statuses the record of a path has passed through at most.
Passed(path, status) ==
  IF path = "life"
  THEN CASE status = "none" -> 0
         [] status = "created" -> 1 [] status = "queued" -> 2
         [] status = "assigned" -> 3 [] status = "running" -> 4 [] OTHER -> 5
  ELSE CASE status = "none" -> 0
         [] status = "assigned" -> 1 [] status = "running" -> 2 [] OTHER -> 3

\* Records tell whether a task is on chain by their status, those of the dag path start later,
\* and the history has no more entries than the two records have passed statuses.
RecordsTell ==
  \A t \in LedgerTasks :
    /\ \A path \in Paths : onChain[t][path] = NotOnChain <=> onChain[t][path].status = "none"
    /\ onChain[t]["dag"].status \notin {"created", "queued"}
    /\ Len(history[t]) <= Passed("life", onChain[t]["life"].status) + Passed("dag", onChain[t]["dag"].status)

LedgerIInv == TaskLedgerTypeOK /\ HistoryExplains /\ RecordsTell

-----------------------------------------------------------------------------
LEMMA LedgerRecordFacts ==
  /\ NoQuote \in Quotes /\ NotOnChain \in LedgerRecords
  /\ \A s \in Statuses, b \in Accounts \cup {Coordinator}, v \in 0 .. MaxHistory, q \in Quotes,
        x \in 0 .. PriceEnd :
       LET r == [status |-> s, by |-> b, since |-> x, version |-> v, quote |-> q]
       IN  r \in LedgerRecords /\ r # NotOnChain
  /\ \A r \in LedgerRecords, s \in Statuses, v \in 0 .. MaxHistory :
       /\ [r EXCEPT !.status = s, !.version = v] \in LedgerRecords
       /\ [r EXCEPT !.status = s, !.version = v].status = s
       /\ [r EXCEPT !.status = s, !.version = v].quote = r.quote
  /\ \A r \in LedgerRecords : r.version \in 0 .. MaxHistory /\ r.status \in Statuses \cup {"none"}
<1>1. NoQuote \in Quotes
  BY LedgerNumbers DEF NoQuote, Quotes
<1>2. NotOnChain \in LedgerRecords
  BY <1>1, LedgerNumbers DEF NotOnChain, LedgerRecords
<1>3. ASSUME NEW s \in Statuses, NEW b \in Accounts \cup {Coordinator}, NEW v \in 0 .. MaxHistory,
             NEW q \in Quotes, NEW x \in 0 .. PriceEnd
      PROVE  LET r == [status |-> s, by |-> b, since |-> x, version |-> v, quote |-> q]
             IN  r \in LedgerRecords /\ r # NotOnChain
  <2>1. s # "none"
    BY DEF Statuses, Settled
  <2> QED
    BY <2>1 DEF LedgerRecords, NotOnChain
<1>4. ASSUME NEW r \in LedgerRecords, NEW s \in Statuses, NEW v \in 0 .. MaxHistory
      PROVE  /\ [r EXCEPT !.status = s, !.version = v] \in LedgerRecords
             /\ [r EXCEPT !.status = s, !.version = v].status = s
             /\ [r EXCEPT !.status = s, !.version = v].quote = r.quote
  BY DEF LedgerRecords
<1>5. \A r \in LedgerRecords : r.version \in 0 .. MaxHistory /\ r.status \in Statuses \cup {"none"}
  BY DEF LedgerRecords
<1> QED
  BY <1>1, <1>2, <1>3, <1>4, <1>5

LEMMA SuccessorsAgree ==
  ASSUME NEW from, NEW to \in Successors(from)
  PROVE  CanTransition(from, to) /\ from # "none" /\ to \in Statuses
BY DEF Successors, CanTransition, Statuses, Settled

\* What is resolved is a quote, and one of the feed is fresh.
LEMMA ResolvedQuotes ==
  ASSUME FeedTypeOK, NEW quote \in Resolved
  PROVE  /\ quote \in Quotes
         /\ quote.source = "oracle" =>
              quote.at + maxAge >= priceTime /\ ~feedPaused /\ ~managerPaused
<1>1. /\ entry.price \in Prices \cup {0} /\ entry.at \in 0 .. PriceEnd
      /\ fallback \in Prices \cup {0} /\ priceTime \in 0 .. PriceEnd /\ maxAge \in Nat
  BY LedgerNumbers DEF FeedTypeOK
<1>2. CASE quote = [source |-> "oracle", price |-> entry.price, at |-> entry.at] /\ FeedAnswers /\ ~managerPaused
  <2>1. quote \in Quotes
    BY <1>1, <1>2 DEF Quotes
  <2>2. entry.at + maxAge >= priceTime /\ ~feedPaused
    BY <1>1, <1>2, LedgerNumbers DEF FeedAnswers, Fresh
  <2> QED
    BY <1>2, <2>1, <2>2
<1>3. CASE quote = [source |-> "fallback", price |-> fallback, at |-> priceTime]
  BY <1>1, <1>3 DEF Quotes
<1> QED
  BY <1>2, <1>3 DEF Resolved

-----------------------------------------------------------------------------
LEMMA LedgerStarts == TaskLedgerInit => LedgerIInv
<1> SUFFICES ASSUME TaskLedgerInit PROVE LedgerIInv
  OBVIOUS
<1>1. FeedTypeOK
  <2>1. entry \in [price : Prices \cup {0}, at : 0 .. PriceEnd]
    BY LedgerNumbers DEF TaskLedgerInit, FeedInit, NoEntry
  <2>2. {feedPaused, feedSet, managerPaused} \subseteq BOOLEAN
    BY DEF TaskLedgerInit, FeedInit
  <2> QED
    BY <2>1, <2>2, LedgerNumbers DEF TaskLedgerInit, FeedInit, FeedTypeOK
<1>2. onChain \in [LedgerTasks -> [Paths -> LedgerRecords]]
  BY LedgerRecordFacts DEF TaskLedgerInit
<1>3. history \in [LedgerTasks -> Seq(Paths \X Statuses)] /\ \A t \in LedgerTasks : Len(history[t]) = 0
  BY DEF TaskLedgerInit
<1>4. TaskLedgerTypeOK
  <2>1. {managerSet, storePaused} \subseteq BOOLEAN /\ creatorOf \in [LedgerTasks -> Accounts \cup {Coordinator}]
    BY DEF TaskLedgerInit
  <2>2. \A t \in LedgerTasks : Len(history[t]) <= MaxHistory
    BY <1>3, LedgerNumbers
  <2> QED
    BY <1>1, <1>2, <1>3, <2>1, <2>2 DEF TaskLedgerTypeOK
<1>5. \A t \in LedgerTasks, path \in Paths : onChain[t][path] = NotOnChain /\ Written(t, path) = {}
  <2>1. \A t \in LedgerTasks : history[t] = <<>>
    BY DEF TaskLedgerInit
  <2> QED
    BY <2>1 DEF TaskLedgerInit, Written
<1>6. HistoryExplains
  BY <1>5 DEF HistoryExplains
<1>7. RecordsTell
  <2>1. NotOnChain.status = "none" /\ "life" \in Paths /\ "dag" \in Paths
    BY DEF NotOnChain, Paths
  <2>2. Passed("life", "none") = 0 /\ Passed("dag", "none") = 0
    BY DEF Passed
  <2> QED
    BY <1>3, <1>5, <2>1, <2>2 DEF RecordsTell
<1> QED
  BY <1>4, <1>6, <1>7 DEF LedgerIInv

-----------------------------------------------------------------------------
\* What writing a status with its entry in the history comes to.
Advance(t, path, status) ==
  /\ AppendVersion(t, path, status)
  /\ \E r \in LedgerRecords : r.status = status /\ onChain' = [onChain EXCEPT ![t][path] = r]
  /\ status \in Statuses
  /\ IF onChain[t][path] = NotOnChain THEN status = FirstStatus(path)
     ELSE status \in Successors(onChain[t][path].status)

LEMMA PassedGrows ==
  ASSUME NEW path \in Paths, NEW from, NEW to \in Statuses, path = "dag" => from \notin {"created", "queued"},
         IF from = "none" THEN to = FirstStatus(path) ELSE to \in Successors(from)
  PROVE  /\ Passed(path, from) + 1 <= Passed(path, to)
         /\ Passed(path, from) \in Nat /\ Passed(path, to) \in Nat
         /\ path = "dag" => to \notin {"created", "queued"}
         /\ Passed(path, to) <= IF path = "life" THEN 5 ELSE 3
BY DEF Passed, Paths, FirstStatus, Successors, Statuses, Settled

LEMMA PassedBound ==
  ASSUME NEW path \in Paths, NEW status
  PROVE  Passed(path, status) \in Nat /\ Passed(path, status) <= IF path = "life" THEN 5 ELSE 3
BY DEF Passed, Paths

\* There is room for another entry, and it comes last.
LEMMA EntryAppended ==
  ASSUME LedgerIInv, NEW t \in LedgerTasks, NEW path \in Paths, NEW status, Advance(t, path, status)
  PROVE  /\ history' = [history EXCEPT ![t] = Append(@, <<path, status>>)]
         /\ history'[t] \in Seq(Paths \X Statuses)
         /\ Len(history[t]) \in Nat /\ Len(history'[t]) = Len(history[t]) + 1
         /\ Len(history'[t]) <= MaxHistory
         /\ \A i \in 1 .. Len(history[t]) : history'[t][i] = history[t][i]
         /\ history'[t][Len(history[t]) + 1] = <<path, status>>
         /\ Len(history'[t]) <= Passed("life", onChain'[t]["life"].status) + Passed("dag", onChain'[t]["dag"].status)
<1>1. /\ history \in [LedgerTasks -> Seq(Paths \X Statuses)]
      /\ onChain \in [LedgerTasks -> [Paths -> LedgerRecords]]
      /\ history[t] \in Seq(Paths \X Statuses) /\ onChain[t] \in [Paths -> LedgerRecords]
  BY DEF LedgerIInv, TaskLedgerTypeOK
<1>2. Len(history[t]) \in Nat
  BY <1>1, SeqFacts
<1>3. "life" \in Paths /\ "dag" \in Paths /\ Paths = {"life", "dag"}
  BY DEF Paths
<1>4. PICK r \in LedgerRecords : r.status = status /\ onChain' = [onChain EXCEPT ![t][path] = r]
  BY DEF Advance
<1>5. onChain'[t][path].status = status /\ \A q \in Paths : q # path => onChain'[t][q] = onChain[t][q]
  BY <1>1, <1>4
<1>6. /\ Passed(path, onChain[t][path].status) + 1 <= Passed(path, status)
      /\ Passed(path, status) <= IF path = "life" THEN 5 ELSE 3
  <2>1. path = "dag" => onChain[t][path].status \notin {"created", "queued"}
    BY DEF LedgerIInv, RecordsTell
  <2>2. onChain[t][path] = NotOnChain <=> onChain[t][path].status = "none"
    BY DEF LedgerIInv, RecordsTell
  <2>3. status \in Statuses
    BY DEF Advance
  <2>4. IF onChain[t][path].status = "none" THEN status = FirstStatus(path)
        ELSE status \in Successors(onChain[t][path].status)
    BY <2>2 DEF Advance
  <2> QED
    BY <2>1, <2>3, <2>4, PassedGrows
<1>7. /\ Len(history[t]) <= Passed("life", onChain[t]["life"].status) + Passed("dag", onChain[t]["dag"].status)
  BY DEF LedgerIInv, RecordsTell
<1>8. /\ \A s : Passed("life", s) \in Nat /\ Passed("life", s) <= 5
      /\ \A s : Passed("dag", s) \in Nat /\ Passed("dag", s) <= 3
  BY <1>3, PassedBound
<1>9. /\ Len(history[t]) + 1 <= Passed("life", onChain'[t]["life"].status) + Passed("dag", onChain'[t]["dag"].status)
      /\ Len(history[t]) + 1 <= 8
  <2>1. CASE path = "life"
    <3>1. /\ Passed("life", onChain'[t]["life"].status) = Passed("life", status)
          /\ Passed("dag", onChain'[t]["dag"].status) = Passed("dag", onChain[t]["dag"].status)
          /\ Passed("life", onChain[t]["life"].status) + 1 <= Passed("life", status)
      BY <1>3, <1>5, <1>6, <2>1
    <3>2. /\ Passed("life", status) \in Nat /\ Passed("life", status) <= 5
          /\ Passed("life", onChain[t]["life"].status) \in Nat
          /\ Passed("dag", onChain[t]["dag"].status) \in Nat
          /\ Passed("dag", onChain[t]["dag"].status) <= 3
      BY <1>8
    <3> QED
      BY ONLY <1>2, <1>7, <3>1, <3>2
  <2>2. CASE path = "dag"
    <3>1. /\ Passed("dag", onChain'[t]["dag"].status) = Passed("dag", status)
          /\ Passed("life", onChain'[t]["life"].status) = Passed("life", onChain[t]["life"].status)
          /\ Passed("dag", onChain[t]["dag"].status) + 1 <= Passed("dag", status)
      BY <1>3, <1>5, <1>6, <2>2
    <3>2. /\ Passed("dag", status) \in Nat /\ Passed("dag", status) <= 3
          /\ Passed("life", onChain[t]["life"].status) \in Nat
          /\ Passed("dag", onChain[t]["dag"].status) \in Nat
          /\ Passed("life", onChain[t]["life"].status) <= 5
      BY <1>8
    <3> QED
      BY ONLY <1>2, <1>7, <3>1, <3>2
  <2> QED
    BY <1>3, <2>1, <2>2
<1>10. ~(Len(history[t]) >= MaxHistory) /\ Len(history[t]) + 1 <= MaxHistory
  BY <1>2, <1>9, LedgerNumbers
<1>11. history' = [history EXCEPT ![t] = Append(@, <<path, status>>)]
  BY <1>1, <1>10 DEF Advance, AppendVersion
<1>12. <<path, status>> \in Paths \X Statuses
  BY DEF Advance
<1>13. history'[t] = Append(history[t], <<path, status>>)
  BY <1>1, <1>11
<1>14. /\ history'[t] \in Seq(Paths \X Statuses) /\ Len(history'[t]) = Len(history[t]) + 1
       /\ \A i \in 1 .. Len(history[t]) : history'[t][i] = history[t][i]
       /\ history'[t][Len(history[t]) + 1] = <<path, status>>
  BY <1>1, <1>12, <1>13, AppendProperties
<1> QED
  BY <1>2, <1>9, <1>10, <1>11, <1>14

LEMMA AdvanceKeeps ==
  ASSUME LedgerIInv, NEW t \in LedgerTasks, NEW path \in Paths, NEW status, Advance(t, path, status)
  PROVE  /\ onChain' \in [LedgerTasks -> [Paths -> LedgerRecords]]
         /\ history' \in [LedgerTasks -> Seq(Paths \X Statuses)]
         /\ \A x \in LedgerTasks : Len(history'[x]) <= MaxHistory
         /\ HistoryExplains' /\ RecordsTell'
<1>0. PICK n \in Nat : n = Len(history[t])
  BY SeqFacts DEF LedgerIInv, TaskLedgerTypeOK
<1>1. /\ history \in [LedgerTasks -> Seq(Paths \X Statuses)]
      /\ onChain \in [LedgerTasks -> [Paths -> LedgerRecords]]
      /\ \A x \in LedgerTasks : /\ history[x] \in Seq(Paths \X Statuses) /\ Len(history[x]) <= MaxHistory
                                /\ onChain[x] \in [Paths -> LedgerRecords]
  BY DEF LedgerIInv, TaskLedgerTypeOK
<1>2. PICK r \in LedgerRecords : r.status = status /\ onChain' = [onChain EXCEPT ![t][path] = r]
  BY DEF Advance
<1>3. /\ onChain'[t][path] = r /\ onChain'[t] \in [Paths -> LedgerRecords]
      /\ \A q \in Paths : q # path => onChain'[t][q] = onChain[t][q]
      /\ \A x \in LedgerTasks : x # t => onChain'[x] = onChain[x]
      /\ onChain' \in [LedgerTasks -> [Paths -> LedgerRecords]]
  BY <1>1, <1>2
<1>4. /\ history' = [history EXCEPT ![t] = Append(@, <<path, status>>)]
      /\ history'[t] \in Seq(Paths \X Statuses)
      /\ n \in Nat /\ Len(history'[t]) = n + 1
      /\ Len(history'[t]) <= MaxHistory
      /\ \A i \in 1 .. n : history'[t][i] = history[t][i]
      /\ history'[t][n + 1] = <<path, status>>
      /\ Len(history'[t]) <= Passed("life", onChain'[t]["life"].status) + Passed("dag", onChain'[t]["dag"].status)
  <2>1. LedgerIInv /\ n = Len(history[t])
    BY <1>0
  <2> QED
    BY <2>1, EntryAppended, SMTT(30)
<1>5. \A x \in LedgerTasks : x # t => history'[x] = history[x]
  BY <1>1, <1>4
<1>6. history' \in [LedgerTasks -> Seq(Paths \X Statuses)]
  BY <1>1, <1>4
<1>7. \A x \in LedgerTasks : Len(history'[x]) <= MaxHistory
  BY <1>1, <1>4, <1>5
<1>8. DOMAIN history[t] = 1 .. n /\ DOMAIN history'[t] = 1 .. n + 1
  BY <1>0, <1>1, <1>4, SeqFacts
<1>9. status \in Statuses /\ status # "none" /\ r # NotOnChain
  <2>1. status \in Statuses
    BY DEF Advance
  <2> QED
    BY <1>2, <2>1 DEF Statuses, Settled, NotOnChain
<1>10. /\ Written(t, path)' = Written(t, path) \cup {n + 1}
       /\ WrittenStatus(t, n + 1)' = status
       /\ \A q \in Paths : Written(t, q) \subseteq 1 .. n
       /\ \A q \in Paths : q # path => Written(t, q)' = Written(t, q)
       /\ \A i \in 1 .. n : WrittenStatus(t, i)' = WrittenStatus(t, i)
  <2>1. history'[t][n + 1][1] = path /\ history'[t][n + 1][2] = status
    BY <1>4
  <2>2. \A q \in Paths : Written(t, q) \subseteq 1 .. n
    BY <1>8 DEF Written
  <2>3. \A q : \A i \in 1 .. n : i \in Written(t, q)' <=> i \in Written(t, q)
    BY <1>4, <1>8 DEF Written
  <2>4. \A q : n + 1 \in Written(t, q)' <=> q = path
    BY <1>4, <1>8, <2>1 DEF Written
  <2>5. \A q : Written(t, q)' \subseteq 1 .. n + 1
    BY <1>8 DEF Written
  <2>6. 1 .. n + 1 = (1 .. n) \cup {n + 1} /\ n + 1 \notin 1 .. n
    BY <1>4
  <2>7. Written(t, path)' = Written(t, path) \cup {n + 1}
    BY <2>2, <2>3, <2>4, <2>5, <2>6
  <2>8. \A q \in Paths : q # path => Written(t, q)' = Written(t, q)
    BY <2>2, <2>3, <2>4, <2>5, <2>6
  <2>9. \A i \in 1 .. n : WrittenStatus(t, i)' = WrittenStatus(t, i)
    BY <1>4 DEF WrittenStatus
  <2>10. WrittenStatus(t, n + 1)' = status
    BY <2>1 DEF WrittenStatus
  <2> QED
    BY <2>2, <2>7, <2>8, <2>9, <2>10
<1>11. \A x \in LedgerTasks : x # t =>
         \A q \in Paths : /\ Written(x, q)' = Written(x, q)
                          /\ \A i : WrittenStatus(x, i)' = WrittenStatus(x, i)
  BY <1>5 DEF Written, WrittenStatus
<1>12. HistoryExplains'
  <2> SUFFICES ASSUME NEW x \in LedgerTasks, NEW q \in Paths
               PROVE  IF onChain'[x][q] = NotOnChain THEN Written(x, q)' = {}
                      ELSE /\ Written(x, q)' # {}
                           /\ \A i \in Written(x, q)' :
                                /\ (\A j \in Written(x, q)' : i <= j) => WrittenStatus(x, i)' = FirstStatus(q)
                                /\ (\A j \in Written(x, q)' : j <= i) => WrittenStatus(x, i)' = onChain'[x][q].status
                           /\ \A i, j \in Written(x, q)' :
                                i < j /\ (\A k \in Written(x, q)' : k <= i \/ j <= k)
                                  => CanTransition(WrittenStatus(x, i)', WrittenStatus(x, j)')
    BY DEF HistoryExplains
  <2>1. IF onChain[x][q] = NotOnChain THEN Written(x, q) = {}
        ELSE /\ Written(x, q) # {}
             /\ \A i \in Written(x, q) :
                  /\ (\A j \in Written(x, q) : i <= j) => WrittenStatus(x, i) = FirstStatus(q)
                  /\ (\A j \in Written(x, q) : j <= i) => WrittenStatus(x, i) = onChain[x][q].status
             /\ \A i, j \in Written(x, q) :
                  i < j /\ (\A k \in Written(x, q) : k <= i \/ j <= k)
                    => CanTransition(WrittenStatus(x, i), WrittenStatus(x, j))
    BY DEF LedgerIInv, HistoryExplains
  <2>2. CASE x # t
    BY <1>3, <1>11, <2>1, <2>2
  <2>3. CASE x = t /\ q # path
    <3>1. onChain'[x][q] = onChain[x][q] /\ Written(x, q)' = Written(x, q)
          /\ \A i \in Written(x, q) : WrittenStatus(x, i)' = WrittenStatus(x, i)
      BY <1>3, <1>10, <2>3
    <3> QED
      BY <2>1, <3>1
  <2>4. CASE x = t /\ q = path /\ onChain[t][path] = NotOnChain
    <3>1. Written(x, q)' = {n + 1}
      BY <1>10, <2>1, <2>4
    <3>2. status = FirstStatus(path)
      BY <2>4 DEF Advance
    <3>3. ~(n + 1 < n + 1) /\ WrittenStatus(t, n + 1)' = status /\ status = FirstStatus(q)
      BY <1>4, <1>10, <2>4, <3>2
    <3>4. onChain'[x][q] = r /\ r.status = status /\ r # NotOnChain
      BY <1>2, <1>3, <1>9, <2>4
    <3> QED
      BY <2>4, <3>1, <3>3, <3>4
  <2>5. CASE x = t /\ q = path /\ onChain[t][path] # NotOnChain
    <3> DEFINE W == Written(t, path)
    <3>1. /\ W # {} /\ W \subseteq 1 .. n /\ Written(x, q)' = W \cup {n + 1}
          /\ \A i \in W : WrittenStatus(t, i)' = WrittenStatus(t, i)
          /\ WrittenStatus(t, n + 1)' = status
      BY <1>10, <2>1, <2>5
    <3>2. \A i \in W : i \in Nat /\ i < n + 1
      BY <1>4, <3>1
    <3>3. /\ \A i \in W : /\ (\A j \in W : i <= j) => WrittenStatus(t, i) = FirstStatus(path)
                          /\ (\A j \in W : j <= i) => WrittenStatus(t, i) = onChain[t][path].status
          /\ \A i, j \in W : i < j /\ (\A k \in W : k <= i \/ j <= k)
               => CanTransition(WrittenStatus(t, i), WrittenStatus(t, j))
      BY <2>1, <2>5
    <3>4. CanTransition(onChain[t][path].status, status)
      BY <2>5, SuccessorsAgree DEF Advance
    <3> HIDE DEF W
    <3>5. ASSUME NEW i \in W \cup {n + 1}
          PROVE  /\ (\A j \in W \cup {n + 1} : i <= j) => WrittenStatus(t, i)' = FirstStatus(path)
                 /\ (\A j \in W \cup {n + 1} : j <= i) => WrittenStatus(t, i)' = status
      <4>1. CASE i \in W
        BY <1>4, <3>1, <3>2, <3>3, <4>1
      <4>2. CASE i = n + 1
        <5>1. PICK w \in W : TRUE
          BY <3>1
        <5>2. ~(i <= w)
          BY <1>4, <3>2, <4>2, <5>1
        <5>3. WrittenStatus(t, i)' = status
          BY <3>1, <4>2
        <5> QED
          BY <5>1, <5>2, <5>3
      <4> QED
        BY <4>1, <4>2
    <3>6. ASSUME NEW i \in W \cup {n + 1}, NEW j \in W \cup {n + 1}, i < j,
                 \A k \in W \cup {n + 1} : k <= i \/ j <= k
          PROVE  CanTransition(WrittenStatus(t, i)', WrittenStatus(t, j)')
      <4>0. i \in W
        BY <1>4, <3>2, <3>6
      <4>1. CASE j \in W
        BY <3>1, <3>3, <3>6, <4>0, <4>1
      <4>2. CASE j = n + 1
        <5>1. \A k \in W : k <= i
          BY <1>4, <3>2, <3>6, <4>2
        <5>2. WrittenStatus(t, i) = onChain[t][path].status
          BY <3>3, <4>0, <5>1
        <5>3. WrittenStatus(t, i)' = onChain[t][path].status /\ WrittenStatus(t, j)' = status
          BY <3>1, <4>0, <4>2, <5>2
        <5> QED
          BY <3>4, <5>3
      <4> QED
        BY <4>1, <4>2
    <3>7. onChain'[x][q] = r /\ r.status = status
      BY <1>2, <1>3, <2>5
    <3> QED
      BY <1>9, <2>5, <3>1, <3>5, <3>6, <3>7
  <2> QED
    BY <2>2, <2>3, <2>4, <2>5
<1>13. RecordsTell'
  <2> SUFFICES ASSUME NEW x \in LedgerTasks
               PROVE  /\ \A q \in Paths : onChain'[x][q] = NotOnChain <=> onChain'[x][q].status = "none"
                      /\ onChain'[x]["dag"].status \notin {"created", "queued"}
                      /\ Len(history'[x]) <= Passed("life", onChain'[x]["life"].status)
                                               + Passed("dag", onChain'[x]["dag"].status)
    BY DEF RecordsTell
  <2>1. /\ \A q \in Paths : onChain[x][q] = NotOnChain <=> onChain[x][q].status = "none"
        /\ onChain[x]["dag"].status \notin {"created", "queued"}
        /\ Len(history[x]) <= Passed("life", onChain[x]["life"].status) + Passed("dag", onChain[x]["dag"].status)
    BY DEF LedgerIInv, RecordsTell
  <2>2. CASE x # t
    BY <1>3, <1>5, <2>1, <2>2
  <2>3. CASE x = t
    <3>1. \A q \in Paths : onChain'[x][q] = NotOnChain <=> onChain'[x][q].status = "none"
      BY <1>2, <1>3, <1>9, <2>1, <2>3
    <3>2. path = "dag" => status \notin {"created", "queued"}
      BY <2>1, <2>3 DEF Advance, FirstStatus, Successors
    <3>3. onChain'[x]["dag"].status \notin {"created", "queued"}
      BY <1>2, <1>3, <2>1, <2>3, <3>2 DEF Paths
    <3> QED
      BY <1>4, <2>3, <3>1, <3>3
  <2> QED
    BY <2>2, <2>3
<1> QED
  BY <1>3, <1>6, <1>7, <1>12, <1>13

-----------------------------------------------------------------------------
\* The calls that write a record.
LEMMA RecordedAdvances ==
  ASSUME LedgerIInv, NEW t \in LedgerTasks, NEW path \in Paths, NEW by \in Accounts, NEW quote \in Quotes,
         Recorded(t, path, by, FirstStatus(path), quote)
  PROVE  Advance(t, path, FirstStatus(path)) /\ LedgerIInv'
<1> DEFINE r == [status |-> FirstStatus(path), by |-> by, since |-> priceTime, version |-> Version(t), quote |-> quote]
<1>1. /\ onChain \in [LedgerTasks -> [Paths -> LedgerRecords]] /\ FeedTypeOK
      /\ creatorOf \in [LedgerTasks -> Accounts \cup {Coordinator}]
      /\ {managerSet, storePaused} \subseteq BOOLEAN
  BY DEF LedgerIInv, TaskLedgerTypeOK
<1>2. priceTime \in 0 .. PriceEnd
  BY <1>1 DEF FeedTypeOK
<1>3. Version(t) \in 0 .. MaxHistory
  <2>1. /\ history \in [LedgerTasks -> Seq(Paths \X Statuses)] /\ \A x \in LedgerTasks : Len(history[x]) <= MaxHistory
    BY DEF LedgerIInv, TaskLedgerTypeOK
  <2>2. <<path, FirstStatus(path)>> \in Paths \X Statuses
    BY DEF FirstStatus, Statuses
  <2>3. /\ history[t] \in Seq(Paths \X Statuses) /\ Len(history[t]) \in Nat /\ Len(history[t]) <= MaxHistory
    BY <2>1, SeqFacts
  <2>4. history'[t] = IF Len(history[t]) >= MaxHistory THEN history[t]
                      ELSE Append(history[t], <<path, FirstStatus(path)>>)
    BY <2>1 DEF Recorded, AppendVersion
  <2>5. Len(Append(history[t], <<path, FirstStatus(path)>>)) = Len(history[t]) + 1
    BY <2>2, <2>3, AppendProperties
  <2> QED
    BY <2>3, <2>4, <2>5, LedgerNumbers DEF Version
<1>4. FirstStatus(path) \in Statuses
  BY DEF FirstStatus, Statuses
<1>5. r \in LedgerRecords /\ r.status = FirstStatus(path)
  BY <1>2, <1>3, <1>4, LedgerRecordFacts
<1>6. onChain' = [onChain EXCEPT ![t][path] = r] /\ onChain[t][path] = NotOnChain
  BY DEF Recorded
<1> HIDE DEF r
<1>7. Advance(t, path, FirstStatus(path))
  BY <1>4, <1>5, <1>6 DEF Advance, Recorded
<1>8. TaskLedgerTypeOK'
  <2>1. creatorOf' \in [LedgerTasks -> Accounts \cup {Coordinator}]
    BY <1>1 DEF Recorded
  <2>2. FeedTypeOK' /\ ({managerSet, storePaused} \subseteq BOOLEAN)'
    BY <1>1 DEF Recorded, Ongoing, FeedTypeOK, feedVars, managerVars
  <2> QED
    BY <1>7, <2>1, <2>2, AdvanceKeeps DEF TaskLedgerTypeOK
<1> QED
  BY <1>7, <1>8, AdvanceKeeps DEF LedgerIInv

LEMMA UpdateKeeps ==
  ASSUME LedgerIInv, NEW t \in LedgerTasks, NEW path \in Paths, NEW by, NEW status \in Statuses,
         UpdateStatus(t, path, by, status)
  PROVE  LedgerIInv'
<1>1. /\ onChain \in [LedgerTasks -> [Paths -> LedgerRecords]] /\ FeedTypeOK
      /\ creatorOf \in [LedgerTasks -> Accounts \cup {Coordinator}]
      /\ {managerSet, storePaused} \subseteq BOOLEAN /\ onChain[t][path] \in LedgerRecords
  BY DEF LedgerIInv, TaskLedgerTypeOK
<1>2. Version(t) \in 0 .. MaxHistory
  <2>1. /\ history \in [LedgerTasks -> Seq(Paths \X Statuses)] /\ \A x \in LedgerTasks : Len(history[x]) <= MaxHistory
    BY DEF LedgerIInv, TaskLedgerTypeOK
  <2>2. <<path, status>> \in Paths \X Statuses
    OBVIOUS
  <2>3. /\ history[t] \in Seq(Paths \X Statuses) /\ Len(history[t]) \in Nat /\ Len(history[t]) <= MaxHistory
    BY <2>1, SeqFacts
  <2>4. history'[t] = IF Len(history[t]) >= MaxHistory THEN history[t] ELSE Append(history[t], <<path, status>>)
    BY <2>1 DEF UpdateStatus, AppendVersion
  <2>5. Len(Append(history[t], <<path, status>>)) = Len(history[t]) + 1
    BY <2>2, <2>3, AppendProperties
  <2> QED
    BY <2>3, <2>4, <2>5, LedgerNumbers DEF Version
<1> DEFINE v == IF path = "life" THEN Version(t) ELSE onChain[t][path].version
           r == [onChain[t][path] EXCEPT !.status = status, !.version = v]
<1>3. v \in 0 .. MaxHistory
  BY <1>1, <1>2, LedgerRecordFacts
<1>4. onChain' = [onChain EXCEPT ![t][path] = r]
  <2>1. onChain' = [onChain EXCEPT ![t][path].status = status,
                                   ![t][path].version = IF path = "life" THEN Version(t) ELSE @]
    BY DEF UpdateStatus
  <2> QED
    BY <1>1, <2>1 DEF LedgerRecords
<1> HIDE DEF v
<1>5. r \in LedgerRecords /\ r.status = status
  BY ONLY <1>1, <1>3, status \in Statuses DEF LedgerRecords
<1> HIDE DEF r
<1>6. onChain[t][path] # NotOnChain
  BY DEF UpdateStatus, Live
<1>7. Advance(t, path, status)
  BY <1>4, <1>5, <1>6 DEF Advance, UpdateStatus
<1>8. TaskLedgerTypeOK'
  <2>1. creatorOf' \in [LedgerTasks -> Accounts \cup {Coordinator}]
    BY <1>1 DEF UpdateStatus
  <2>2. FeedTypeOK' /\ ({managerSet, storePaused} \subseteq BOOLEAN)'
    BY <1>1 DEF UpdateStatus, Ongoing, FeedTypeOK, feedVars, managerVars
  <2> QED
    BY <1>7, <2>1, <2>2, AdvanceKeeps DEF TaskLedgerTypeOK
<1> QED
  BY <1>7, <1>8, AdvanceKeeps DEF LedgerIInv

\* With no record written, records and history go on telling what they told.
LEMMA RecordsUntouched ==
  ASSUME LedgerIInv, UNCHANGED <<onChain, history>>, TaskLedgerTypeOK'
  PROVE  LedgerIInv'
<1>1. HistoryExplains'
  BY DEF LedgerIInv, HistoryExplains, Written, WrittenStatus
<1>2. RecordsTell'
  BY DEF LedgerIInv, RecordsTell
<1> QED
  BY <1>1, <1>2 DEF LedgerIInv

LEMMA FeedStepKeeps ==
  ASSUME FeedTypeOK, PriceStep \/ PriceTick
  PROVE  FeedTypeOK'
<1>1. /\ entry \in [price : Prices \cup {0}, at : 0 .. PriceEnd]
      /\ maxAge \in MaxAges /\ fallback \in Prices \cup {0}
      /\ feedPaused \in BOOLEAN /\ feedSet \in BOOLEAN /\ managerPaused \in BOOLEAN
      /\ priceTime \in 0 .. PriceEnd
  BY DEF FeedTypeOK
<1>2. ASSUME /\ entry' \in [price : Prices \cup {0}, at : 0 .. PriceEnd]
             /\ maxAge' \in MaxAges /\ fallback' \in Prices \cup {0}
             /\ feedPaused' \in BOOLEAN /\ feedSet' \in BOOLEAN /\ managerPaused' \in BOOLEAN
             /\ priceTime' \in 0 .. PriceEnd
      PROVE  FeedTypeOK'
  BY <1>2 DEF FeedTypeOK
<1>3. ASSUME NEW price \in Prices, NEW at \in 0 .. PriceEnd, SubmitPrice(price, at) PROVE FeedTypeOK'
  BY <1>1, <1>2, <1>3 DEF SubmitPrice, managerVars
<1>4. ASSUME NEW price \in Prices, SetFallbackPrice(price) PROVE FeedTypeOK'
  BY <1>1, <1>2, <1>4 DEF SetFallbackPrice, feedVars
<1>5. ASSUME NEW age \in MaxAges, SetMaxPriceAge(age) PROVE FeedTypeOK'
  BY <1>1, <1>2, <1>5 DEF SetMaxPriceAge, managerVars
<1>6. CASE PauseFeed
  <2>1. feedPaused' \in BOOLEAN
    BY <1>6 DEF PauseFeed
  <2> QED
    BY <1>1, <1>2, <1>6, <2>1 DEF PauseFeed, managerVars
<1>7. CASE SetOracle
  <2>1. feedSet' \in BOOLEAN
    BY <1>7 DEF SetOracle
  <2> QED
    BY <1>1, <1>2, <1>7, <2>1 DEF SetOracle, feedVars
<1>8. CASE PauseManager
  <2>1. managerPaused' \in BOOLEAN
    BY <1>8 DEF PauseManager
  <2> QED
    BY <1>1, <1>2, <1>8, <2>1 DEF PauseManager, feedVars
<1>9. CASE PriceTick
  <2>1. priceTime' \in 0 .. PriceEnd
    BY <1>1, <1>9, LedgerNumbers DEF PriceTick
  <2> QED
    BY <1>1, <1>2, <1>9, <2>1 DEF PriceTick, feedVars, managerVars
<1> QED
  BY <1>3, <1>4, <1>5, <1>6, <1>7, <1>8, <1>9 DEF PriceStep

LEMMA StoreStepKeeps ==
  ASSUME LedgerIInv, StoreStep
  PROVE  LedgerIInv'
<1>0. TaskLedgerTypeOK /\ FeedTypeOK /\ "life" \in Paths /\ "dag" \in Paths
  BY DEF LedgerIInv, TaskLedgerTypeOK, Paths
<1>1. ASSUME NEW t \in LedgerTasks, NEW by \in Accounts, CreateTask(t, by) PROVE LedgerIInv'
  <2>1. FirstStatus("life") = "created" /\ NoQuote \in Quotes
    BY LedgerRecordFacts DEF FirstStatus
  <2> QED
    BY <1>0, <1>1, <2>1, RecordedAdvances DEF CreateTask
<1>2. ASSUME NEW t \in LedgerTasks, NEW by \in Accounts, StoreTaskMetadata(t, by) PROVE LedgerIInv'
  <2>1. FirstStatus("dag") = "assigned"
    BY DEF FirstStatus
  <2>2. PICK quote \in IF managerSet THEN Resolved ELSE {NoQuote} : Recorded(t, "dag", by, "assigned", quote)
    BY <1>2 DEF StoreTaskMetadata
  <2>3. quote \in Quotes
    BY <1>0, <2>2, LedgerRecordFacts, ResolvedQuotes
  <2> QED
    BY <1>0, <2>1, <2>2, <2>3, RecordedAdvances
<1>3. ASSUME NEW t \in LedgerTasks, NEW by, NEW status \in Statuses,
             UpdateStatus(t, "life", by, status) \/ UpdateStatus(t, "dag", by, status)
      PROVE  LedgerIInv'
  BY <1>0, <1>3, UpdateKeeps
<1>4. CASE SetOracleManager
  <2>1. managerSet' \in BOOLEAN /\ storePaused' \in BOOLEAN
    BY <1>0, <1>4 DEF SetOracleManager, TaskLedgerTypeOK
  <2>2. TaskLedgerTypeOK'
    BY <1>0, <1>4, <2>1 DEF SetOracleManager, TaskLedgerTypeOK, FeedTypeOK, feedVars, managerVars
  <2> QED
    BY <1>4, <2>2, RecordsUntouched DEF SetOracleManager
<1>5. CASE PauseStore
  <2>1. managerSet' \in BOOLEAN /\ storePaused' \in BOOLEAN
    BY <1>0, <1>5 DEF PauseStore, TaskLedgerTypeOK
  <2>2. TaskLedgerTypeOK'
    BY <1>0, <1>5, <2>1 DEF PauseStore, TaskLedgerTypeOK, FeedTypeOK, feedVars, managerVars
  <2> QED
    BY <1>5, <2>2, RecordsUntouched DEF PauseStore
<1> QED
  BY <1>1, <1>2, <1>3, <1>4, <1>5 DEF StoreStep, BudgetTaskCalls, DagTaskCalls

LEMMA LedgerStepKeeps == LedgerIInv /\ [TaskLedgerNext]_taskLedgerVars => LedgerIInv'
<1> SUFFICES ASSUME LedgerIInv, [TaskLedgerNext]_taskLedgerVars PROVE LedgerIInv'
  OBVIOUS
<1>1. CASE StoreStep
  BY <1>1, StoreStepKeeps
<1>2. CASE (PriceStep \/ PriceTick) /\ UNCHANGED storeVars
  <2>1. FeedTypeOK'
    BY <1>2, FeedStepKeeps DEF LedgerIInv, TaskLedgerTypeOK
  <2>2. TaskLedgerTypeOK'
    BY <1>2, <2>1 DEF LedgerIInv, TaskLedgerTypeOK, storeVars
  <2> QED
    BY <1>2, <2>2, RecordsUntouched DEF storeVars
<1>3. CASE UNCHANGED taskLedgerVars
  <2>1. TaskLedgerTypeOK'
    BY <1>3 DEF LedgerIInv, TaskLedgerTypeOK, FeedTypeOK, taskLedgerVars, storeVars, feedVars, managerVars
  <2> QED
    BY <1>3, <2>1, RecordsUntouched DEF taskLedgerVars, storeVars
<1> QED
  BY <1>1, <1>2, <1>3 DEF TaskLedgerNext

\* For any tasks, accounts and prices: the history that create_task, store_task_metadata and
\* both kinds of status update share bears out every record, and its limit of
\* MAX_HISTORY_RECORDS never costs a record an entry.
THEOREM TaskLedgerHolds == TaskLedgerSpec => []TaskLedgerInv
<1>1. LedgerIInv => TaskLedgerInv
  BY DEF LedgerIInv, TaskLedgerInv
<1> QED
  BY <1>1, LedgerStarts, LedgerStepKeeps, PTL DEF TaskLedgerSpec

\* For any prices, ages and orders of submissions, pauses and changes of the oracle: a task that
\* store_task_metadata records at a price of the feed has one the feed still answers with.
THEOREM QuotesWereFreshHolds == TaskLedgerSpec => QuotesWereFresh
<1> DEFINE F == \A t \in LedgerTasks :
                  LET quote == onChain'[t]["dag"].quote IN
                  onChain[t]["dag"] = NotOnChain /\ quote.source = "oracle"
                    => quote.at + maxAge >= priceTime /\ ~feedPaused /\ ~managerPaused
<1>1. ASSUME LedgerIInv, [TaskLedgerNext]_taskLedgerVars PROVE F
  <2> SUFFICES ASSUME NEW t \in LedgerTasks, onChain[t]["dag"] = NotOnChain,
                      onChain'[t]["dag"].quote.source = "oracle"
               PROVE  LET quote == onChain'[t]["dag"].quote IN
                      quote.at + maxAge >= priceTime /\ ~feedPaused /\ ~managerPaused
    OBVIOUS
  <2>0. onChain \in [LedgerTasks -> [Paths -> LedgerRecords]] /\ FeedTypeOK /\ "dag" \in Paths
    BY <1>1 DEF LedgerIInv, TaskLedgerTypeOK, Paths
  <2>1. onChain'[t]["dag"] # onChain[t]["dag"]
    BY DEF NotOnChain, NoQuote
  <2>2. ~UNCHANGED onChain
    BY <2>1
  <2>3. StoreStep /\ ~SetOracleManager /\ ~PauseStore
    BY <1>1, <2>2 DEF TaskLedgerNext, storeVars, taskLedgerVars, SetOracleManager, PauseStore
  <2>4. PICK x \in LedgerTasks : BudgetTaskCalls(x) \/ DagTaskCalls(x)
    BY <2>3 DEF StoreStep
  <2>5. ASSUME NEW y \in LedgerTasks, NEW path \in Paths, NEW by, NEW s, UpdateStatus(y, path, by, s)
        PROVE  FALSE
    <3>1. onChain[y][path] # NotOnChain
      BY <2>5 DEF UpdateStatus, Live
    <3>2. onChain' = [onChain EXCEPT ![y][path].status = s,
                                     ![y][path].version = IF path = "life" THEN Version(y) ELSE @]
      BY <2>5 DEF UpdateStatus
    <3>3. ~(y = t /\ path = "dag")
      BY <3>1
    <3>4. onChain'[t]["dag"] = onChain[t]["dag"]
      BY <2>0, <3>2, <3>3
    <3> QED
      BY <2>1, <3>4
  <2>6. ASSUME NEW y \in LedgerTasks, NEW by, CreateTask(y, by)
        PROVE  FALSE
    <3>1. onChain'[t]["dag"] = onChain[t]["dag"]
      BY <2>0, <2>6 DEF CreateTask, Recorded
    <3> QED
      BY <2>1, <3>1
  <2>7. PICK by \in Accounts : StoreTaskMetadata(x, by)
    BY <2>4, <2>5, <2>6 DEF BudgetTaskCalls, DagTaskCalls, Paths
  <2>8. PICK quote \in IF managerSet THEN Resolved ELSE {NoQuote} : Recorded(x, "dag", by, "assigned", quote)
    BY <2>7 DEF StoreTaskMetadata
  <2>9. x = t
    BY <2>0, <2>1, <2>8 DEF Recorded
  <2>10. onChain'[t]["dag"].quote = quote
    BY <2>0, <2>8, <2>9 DEF Recorded
  <2>11. quote \in Resolved
    BY <2>8, <2>10 DEF NoQuote
  <2> QED
    BY <2>0, <2>10, <2>11, ResolvedQuotes
<1>2. TaskLedgerSpec => []LedgerIInv
  BY LedgerStarts, LedgerStepKeeps, PTL DEF TaskLedgerSpec
<1>3. TaskLedgerSpec => [][F]_taskLedgerVars
  BY <1>1, <1>2, PTL DEF TaskLedgerSpec
<1> QED
  BY <1>3 DEF F, QuotesWereFresh

-----------------------------------------------------------------------------
USE EscrowAssumption, ReconciliationAssumption

RowRecord  == [status : RowStatuses, balance : Balances \cup {NoBalance}, byHand : BOOLEAN]
CallRecord == [op : {"none", "lock"} \cup Claims, key : Keys \cup {NoKey},
               balance : Balances \cup {NoBalance}, landed : BOOLEAN]
Known(k) == row[k].status # "none"

\* A call that is under way has its key and its balance; a claim is of the balance that the row
\* names, and once it has landed the chain says so.
CallsStand ==
  \A a \in Actors :
    /\ call[a] = NoCall <=> call[a].op = "none"
    /\ call[a] # NoCall => call[a].key \in Keys /\ call[a].balance \in Balances
    /\ call[a].op \in Claims =>
         /\ Known(call[a].key) /\ row[call[a].key].balance = call[a].balance
         /\ call[a].landed => chain[call[a].balance] = call[a].op

LockUnder(a) == call[a].op = "lock" /\ ~call[a].landed

\* A lock that may still land has a balance of its own, which is not on chain yet.
LocksAreFresh ==
  /\ \A a \in Actors : LockUnder(a) =>
       /\ chain[call[a].balance] = "absent"
       /\ \A b \in Actors \ {a} : call[b].op = "lock" => call[b].balance # call[a].balance
       /\ \A tx \in floating : tx.op = "lock" => tx.balance # call[a].balance
  /\ \A tx \in floating : tx.op = "lock" => chain[tx.balance] = "absent"

\* A row that was inserted names a balance.
RowsStand ==
  \A k \in Keys : /\ Known(k) <=> row[k].balance \in Balances
                  /\ ~Known(k) <=> row[k] = NoRow

TableInv == EscrowTypeOK /\ CallsStand /\ LocksAreFresh /\ RowsStand /\ RowTellsClaim

\* What passes and the table of pending drift hold on to has a row.
PassRecord0 == [at : {"idle", "listing", "working", "alerting"}, seen : [Keys -> RowRecord],
                todo : SUBSET Drifts, foreign : SUBSET Balances, doing : Drifts \cup {NoDrift},
                parked : SUBSET Keys]
PassesStand ==
  /\ pass \in [Passes -> PassRecord0]
  /\ \A p \in Passes :
       /\ \A k \in Keys : pass[p].seen[k].status # "none" => Known(k)
       /\ \A d \in pass[p].todo : Known(d.key)
       /\ pass[p].doing # NoDrift => Known(pass[p].doing.key)
       /\ pass[p].at # "working" => pass[p].doing = NoDrift
       /\ (pass[p].doing = NoDrift) = (call[p] = NoCall)
  /\ pending \in [Ids -> {"none", "open", "acknowledged"}]
  /\ \A k \in Keys : pending[k] # "none" => Known(k)
  /\ doomed \subseteq Keys /\ aged \subseteq Keys

ReconIInv == TableInv /\ PassesStand

-----------------------------------------------------------------------------
LEMMA TableTypes ==
  ASSUME EscrowTypeOK
  PROVE  /\ chain \in [Balances -> ChainStates] /\ row \in [Keys -> RowRecord]
         /\ call \in [Actors -> CallRecord] /\ floating \subseteq Tx /\ faults \in 0 .. MaxFaults
BY DEF EscrowTypeOK, RowRecord, CallRecord

LEMMA TableTyped ==
  ASSUME chain \in [Balances -> ChainStates], row \in [Keys -> RowRecord],
         call \in [Actors -> CallRecord], floating \subseteq Tx, faults \in 0 .. MaxFaults
  PROVE  EscrowTypeOK
BY DEF EscrowTypeOK, RowRecord, CallRecord

LEMMA FaultTyped ==
  ASSUME faults \in 0 .. MaxFaults, Fault
  PROVE  faults' \in 0 .. MaxFaults
BY DEF Fault

LEMMA Nothing ==
  /\ NoCall \in CallRecord /\ NoCall.op = "none" /\ ~NoCall.landed /\ NoCall.balance = NoBalance
  /\ NoRow \in RowRecord /\ NoRow.status = "none" /\ NoRow.balance = NoBalance /\ ~NoRow.byHand
  /\ NoRow.balance \notin Balances
BY DEF NoCall, NoRow, CallRecord, RowRecord, RowStatuses

\* Steps that leave rows and chain alone, but for one call that begins.
LEMMA SubmitKeeps ==
  ASSUME TableInv, NEW a \in Actors, NEW op \in {"lock"} \cup Claims, NEW k \in Keys, NEW b \in Balances,
         Submit(a, op, k, b), UNCHANGED <<chain, row, floating, faults>>,
         op \in Claims => Known(k) /\ row[k].balance = b,
         op = "lock" => /\ chain[b] = "absent" /\ \A c \in Actors : call[c].balance # b
                        /\ \A tx \in floating : tx.balance # b
  PROVE  TableInv'
<1> DEFINE new == [op |-> op, key |-> k, balance |-> b, landed |-> FALSE]
<1>0. /\ chain \in [Balances -> ChainStates] /\ row \in [Keys -> RowRecord]
      /\ call \in [Actors -> CallRecord] /\ floating \subseteq Tx /\ faults \in 0 .. MaxFaults
  BY TableTypes DEF TableInv
<1>1. new \in CallRecord /\ new.op = op /\ new.key = k /\ new.balance = b /\ ~new.landed
      /\ new # NoCall /\ op # "none"
  BY DEF CallRecord, NoCall, Claims
<1>2. call' = [call EXCEPT ![a] = new]
  BY DEF Submit
<1> HIDE DEF new
<1>3. /\ call'[a] = new /\ \A c \in Actors : c # a => call'[c] = call[c]
      /\ call' \in [Actors -> CallRecord]
  BY <1>0, <1>1, <1>2
<1>4. EscrowTypeOK'
  BY <1>0, <1>3, TableTyped DEF EscrowTypeOK, RowRecord, CallRecord
<1>5. CallsStand'
  <2> SUFFICES ASSUME NEW c \in Actors
               PROVE  /\ call'[c] = NoCall <=> call'[c].op = "none"
                      /\ call'[c] # NoCall => call'[c].key \in Keys /\ call'[c].balance \in Balances
                      /\ call'[c].op \in Claims =>
                           /\ row[call'[c].key].status # "none" /\ row[call'[c].key].balance = call'[c].balance
                           /\ call'[c].landed => chain[call'[c].balance] = call'[c].op
    BY DEF CallsStand, Known
  <2>1. CASE c = a
    BY <1>1, <1>3, <2>1 DEF Known
  <2>2. CASE c # a
    BY <1>3, <2>2 DEF TableInv, CallsStand, Known
  <2> QED
    BY <2>1, <2>2
<1>6. LocksAreFresh'
  <2>1. ASSUME NEW c \in Actors, LockUnder(c)'
        PROVE  /\ chain[call'[c].balance] = "absent"
               /\ \A d \in Actors \ {c} : call'[d].op = "lock" => call'[d].balance # call'[c].balance
               /\ \A tx \in floating : tx.op = "lock" => tx.balance # call'[c].balance
    <3>1. CASE c = a
      BY <1>1, <1>3, <2>1, <3>1 DEF LockUnder
    <3>2. CASE c # a
      <4>1. LockUnder(c) /\ call'[c] = call[c]
        BY <1>3, <2>1, <3>2 DEF LockUnder
      <4>2. /\ chain[call[c].balance] = "absent"
            /\ \A d \in Actors \ {c} : call[d].op = "lock" => call[d].balance # call[c].balance
            /\ \A tx \in floating : tx.op = "lock" => tx.balance # call[c].balance
        BY <4>1 DEF TableInv, LocksAreFresh
      <4>3. call'[a].op = "lock" => call'[a].balance # call[c].balance
        BY <1>1, <1>3
      <4> QED
        BY <1>3, <4>1, <4>2, <4>3
    <3> QED
      BY <3>1, <3>2
  <2>2. \A tx \in floating : tx.op = "lock" => chain[tx.balance] = "absent"
    BY DEF TableInv, LocksAreFresh
  <2> QED
    BY <2>1, <2>2 DEF LocksAreFresh
<1>7. RowsStand' /\ RowTellsClaim'
  BY DEF TableInv, RowsStand, RowTellsClaim, Known
<1> QED
  BY <1>4, <1>5, <1>6, <1>7 DEF TableInv

\* Whatever becomes of the others, a transaction that lands changes the state of a balance
\* that nobody has claimed.
LEMMA ChainMoves ==
  ASSUME TableInv, NEW tx \in Tx, Applicable(tx), chain' = Applied(tx), row' = row,
         tx.op = "lock" => chain[tx.balance] = "absent"
  PROVE  /\ chain' \in [Balances -> ChainStates]
         /\ chain'[tx.balance] = IF tx.op = "lock" THEN "held" ELSE tx.op
         /\ chain[tx.balance] \in {"absent", "held"}
         /\ \A b \in Balances : b # tx.balance => chain'[b] = chain[b]
         /\ RowsStand' /\ RowTellsClaim'
<1>0. chain \in [Balances -> ChainStates] /\ row \in [Keys -> RowRecord]
  BY TableTypes DEF TableInv
<1>1. tx.balance \in Balances /\ tx.op \in {"lock"} \cup Claims
  BY DEF Tx
<1>2. /\ chain' \in [Balances -> ChainStates]
      /\ chain'[tx.balance] = IF tx.op = "lock" THEN "held" ELSE tx.op
      /\ \A b \in Balances : b # tx.balance => chain'[b] = chain[b]
  BY <1>0, <1>1 DEF Applied, ChainStates
<1>3. chain[tx.balance] \in {"absent", "held"}
  BY DEF Applicable
<1>4. RowsStand'
  BY DEF TableInv, RowsStand, Known
<1>5. RowTellsClaim'
  <2> SUFFICES ASSUME NEW k \in Keys, row[k].status \in {"released", "refunded"}, ~row[k].byHand
               PROVE  \E op \in Claims : chain'[row[k].balance] = op /\ row[k].status = Outcome[op]
    BY DEF RowTellsClaim
  <2>1. PICK op \in Claims : chain[row[k].balance] = op /\ row[k].status = Outcome[op]
    BY DEF TableInv, RowTellsClaim
  <2>2. row[k].balance \in Balances
    BY DEF TableInv, RowsStand, Known
  <2>3. row[k].balance # tx.balance
    BY <1>3, <2>1 DEF Claims
  <2> QED
    BY <1>2, <2>1, <2>2, <2>3
<1> QED
  BY <1>2, <1>3, <1>4, <1>5

LEMMA LandKeeps ==
  ASSUME TableInv, NEW a \in Actors, Land(a), UNCHANGED <<row, floating, faults>>
  PROVE  TableInv' /\ \A c \in Actors : call'[c] = NoCall <=> call[c] = NoCall
<1>0. /\ chain \in [Balances -> ChainStates] /\ row \in [Keys -> RowRecord]
      /\ call \in [Actors -> CallRecord] /\ floating \subseteq Tx /\ faults \in 0 .. MaxFaults
  BY TableTypes DEF TableInv
<1> DEFINE tx == TxOf(call[a])
           new == [call[a] EXCEPT !.landed = TRUE]
<1>1. /\ call[a] \in CallRecord /\ call[a] # NoCall /\ ~call[a].landed
      /\ call[a].op # "none" /\ call[a].balance \in Balances /\ call[a].key \in Keys
  BY <1>0 DEF Land, TableInv, CallsStand
<1>2. tx \in Tx /\ tx.op = call[a].op /\ tx.balance = call[a].balance
  BY <1>1 DEF CallRecord, Tx, TxOf
<1>3. tx.op = "lock" => LockUnder(a) /\ chain[tx.balance] = "absent"
  BY <1>1, <1>2 DEF LockUnder, TableInv, LocksAreFresh
<1>4. Applicable(tx) /\ chain' = Applied(tx) /\ call' = [call EXCEPT ![a] = new]
  BY <1>0 DEF Land
<1>5. /\ new \in CallRecord /\ new.op = call[a].op /\ new.key = call[a].key
      /\ new.balance = call[a].balance /\ new.landed
  BY <1>1 DEF CallRecord
<1> HIDE DEF tx, new
<1>6. /\ chain' \in [Balances -> ChainStates]
      /\ chain'[tx.balance] = IF tx.op = "lock" THEN "held" ELSE tx.op
      /\ chain[tx.balance] \in {"absent", "held"}
      /\ \A b \in Balances : b # tx.balance => chain'[b] = chain[b]
      /\ RowsStand' /\ RowTellsClaim'
  BY <1>2, <1>3, <1>4, ChainMoves
<1>7. /\ call' \in [Actors -> CallRecord] /\ call'[a] = new
      /\ \A c \in Actors : c # a => call'[c] = call[c]
  BY <1>0, <1>4, <1>5
<1>8. EscrowTypeOK'
  BY <1>0, <1>6, <1>7 DEF EscrowTypeOK, RowRecord, CallRecord
<1>9. new # NoCall
  BY <1>5, Nothing
<1>10. CallsStand'
  <2> SUFFICES ASSUME NEW c \in Actors
               PROVE  /\ call'[c] = NoCall <=> call'[c].op = "none"
                      /\ call'[c] # NoCall => call'[c].key \in Keys /\ call'[c].balance \in Balances
                      /\ call'[c].op \in Claims =>
                           /\ row[call'[c].key].status # "none" /\ row[call'[c].key].balance = call'[c].balance
                           /\ call'[c].landed => chain'[call'[c].balance] = call'[c].op
    BY DEF CallsStand, Known
  <2>1. CASE c = a
    <3>1. call[a].op \in Claims => row[call[a].key].status # "none" /\ row[call[a].key].balance = call[a].balance
      BY DEF TableInv, CallsStand, Known
    <3>2. call[a].op \in Claims => chain'[call[a].balance] = call[a].op
      BY <1>2, <1>6 DEF Claims
    <3> QED
      BY <1>1, <1>5, <1>7, <1>9, <2>1, <3>1, <3>2
  <2>2. CASE c # a
    <3>1. /\ call[c] = NoCall <=> call[c].op = "none"
          /\ call[c] # NoCall => call[c].key \in Keys /\ call[c].balance \in Balances
          /\ call[c].op \in Claims =>
               /\ row[call[c].key].status # "none" /\ row[call[c].key].balance = call[c].balance
               /\ call[c].landed => chain[call[c].balance] = call[c].op
      BY DEF TableInv, CallsStand, Known
    <3>2. call[c].op \in Claims /\ call[c].landed => chain'[call[c].balance] = call[c].op
      <4>1. call[c].op \in Claims => call[c] # NoCall
        BY Nothing DEF Claims
      <4> QED
        BY <1>6, <3>1, <4>1 DEF Claims
    <3> QED
      BY <1>7, <2>2, <3>1, <3>2
  <2> QED
    BY <2>1, <2>2
<1>11. LocksAreFresh'
  <2>1. ASSUME NEW c \in Actors, LockUnder(c)'
        PROVE  /\ chain'[call'[c].balance] = "absent"
               /\ \A d \in Actors \ {c} : call'[d].op = "lock" => call'[d].balance # call'[c].balance
               /\ \A x \in floating : x.op = "lock" => x.balance # call'[c].balance
    <3>1. c # a
      BY <1>5, <1>7, <2>1 DEF LockUnder
    <3>2. LockUnder(c) /\ call'[c] = call[c]
      BY <1>7, <2>1, <3>1 DEF LockUnder
    <3>3. /\ chain[call[c].balance] = "absent"
          /\ \A d \in Actors \ {c} : call[d].op = "lock" => call[d].balance # call[c].balance
          /\ \A x \in floating : x.op = "lock" => x.balance # call[c].balance
      BY <3>2 DEF TableInv, LocksAreFresh
    <3>4. call[c].balance # tx.balance
      BY <1>2, <1>4, <3>1, <3>3 DEF Applicable
    <3>5. call[c].balance \in Balances
      BY <3>2, Nothing DEF LockUnder, TableInv, CallsStand
    <3> QED
      BY <1>5, <1>6, <1>7, <3>1, <3>2, <3>3, <3>4, <3>5
  <2>2. \A x \in floating : x.op = "lock" => chain'[x.balance] = "absent"
    <3> SUFFICES ASSUME NEW x \in floating, x.op = "lock" PROVE chain'[x.balance] = "absent"
      OBVIOUS
    <3>1. chain[x.balance] = "absent" /\ x.balance \in Balances
      BY <1>0 DEF TableInv, LocksAreFresh, Tx
    <3>2. x.balance # tx.balance
      <4>1. CASE tx.op = "lock"
        BY <1>2, <1>3, <4>1 DEF TableInv, LocksAreFresh
      <4>2. CASE tx.op # "lock"
        BY <1>4, <3>1, <4>2 DEF Applicable
      <4> QED
        BY <4>1, <4>2
    <3> QED
      BY <1>6, <3>1, <3>2
  <2> QED
    BY <2>1, <2>2 DEF LocksAreFresh
<1>12. \A c \in Actors : call'[c] = NoCall <=> call[c] = NoCall
  BY <1>1, <1>7, <1>9
<1> QED
  BY <1>6, <1>8, <1>10, <1>11, <1>12 DEF TableInv

LEMMA LandLateKeeps ==
  ASSUME TableInv, NEW tx \in floating, LandLate(tx), UNCHANGED <<row, call, faults>>
  PROVE  TableInv'
<1>0. /\ chain \in [Balances -> ChainStates] /\ row \in [Keys -> RowRecord]
      /\ call \in [Actors -> CallRecord] /\ floating \subseteq Tx /\ faults \in 0 .. MaxFaults
  BY TableTypes DEF TableInv
<1>1. tx \in Tx /\ tx.balance \in Balances /\ tx.op \in {"lock"} \cup Claims
  BY <1>0 DEF Tx
<1>2. tx.op = "lock" => chain[tx.balance] = "absent"
  BY DEF TableInv, LocksAreFresh
<1>3. floating' = floating \ {tx}
  BY DEF LandLate
<1>4. /\ chain' \in [Balances -> ChainStates] /\ RowsStand' /\ RowTellsClaim'
      /\ \A b \in Balances : chain'[b] # chain[b] => b = tx.balance /\ Applicable(tx) /\ chain[b] \in {"absent", "held"}
  <2>1. CASE Applicable(tx)
    BY <1>1, <1>2, <2>1, ChainMoves DEF LandLate
  <2>2. CASE ~Applicable(tx)
    BY <1>0, <2>2 DEF LandLate, TableInv, RowsStand, RowTellsClaim, Known
  <2> QED
    BY <2>1, <2>2
<1>5. EscrowTypeOK'
  BY <1>0, <1>3, <1>4 DEF EscrowTypeOK, RowRecord, CallRecord
<1>6. CallsStand'
  <2> SUFFICES ASSUME NEW c \in Actors, call[c].op \in Claims, call[c].landed
               PROVE  chain'[call[c].balance] = call[c].op
    BY DEF TableInv, CallsStand, Known
  <2>1. chain[call[c].balance] = call[c].op /\ call[c].balance \in Balances
    BY Nothing DEF TableInv, CallsStand
  <2> QED
    BY <1>4, <2>1 DEF Claims
<1>7. LocksAreFresh'
  <2>1. ASSUME NEW x \in floating', x.op = "lock"
        PROVE  chain'[x.balance] = "absent"
    <3>1. x \in floating /\ x # tx /\ x \in Tx /\ x.balance \in Balances
      BY <1>0, <1>3 DEF Tx
    <3>2. chain[x.balance] = "absent"
      BY <2>1, <3>1 DEF TableInv, LocksAreFresh
    <3>3. ~(x.balance = tx.balance /\ Applicable(tx))
      <4>1. CASE tx.op = "lock"
        BY <1>1, <2>1, <3>1, <4>1 DEF Tx
      <4>2. CASE tx.op # "lock"
        BY <3>2, <4>2 DEF Applicable
      <4> QED
        BY <4>1, <4>2
    <3> QED
      BY <1>4, <3>1, <3>2, <3>3
  <2>2. ASSUME NEW c \in Actors, LockUnder(c)
        PROVE  /\ chain'[call[c].balance] = "absent"
               /\ \A d \in Actors \ {c} : call[d].op = "lock" => call[d].balance # call[c].balance
               /\ \A x \in floating' : x.op = "lock" => x.balance # call[c].balance
    <3>1. /\ chain[call[c].balance] = "absent"
          /\ \A d \in Actors \ {c} : call[d].op = "lock" => call[d].balance # call[c].balance
          /\ \A x \in floating : x.op = "lock" => x.balance # call[c].balance
      BY <2>2 DEF TableInv, LocksAreFresh
    <3>2. call[c].balance \in Balances
      BY <2>2, Nothing DEF LockUnder, TableInv, CallsStand
    <3>3. ~(call[c].balance = tx.balance /\ Applicable(tx))
      BY <3>1 DEF Applicable
    <3> QED
      BY <1>3, <1>4, <3>1, <3>2, <3>3
  <2> QED
    BY <2>1, <2>2 DEF LocksAreFresh, LockUnder
<1> QED
  BY <1>4, <1>5, <1>6, <1>7 DEF TableInv

\* Calls that end without an answer, for good or with their transactions adrift.
LEMMA CallsEndKeeps ==
  ASSUME TableInv, NEW As \in SUBSET Actors,
         call' \in [Actors -> CallRecord],
         \A c \in Actors : call'[c] = IF c \in As THEN NoCall ELSE call[c],
         floating' \subseteq floating \cup Adrift(As), floating \subseteq floating',
         UNCHANGED <<chain, row>>, faults' \in 0 .. MaxFaults
  PROVE  TableInv'
<1>0. /\ chain \in [Balances -> ChainStates] /\ row \in [Keys -> RowRecord]
      /\ call \in [Actors -> CallRecord] /\ floating \subseteq Tx
  BY TableTypes DEF TableInv
<1>1. \A tx \in floating' : tx \in floating \/ \E c \in As : tx = TxOf(call[c]) /\ call[c] # NoCall /\ ~call[c].landed
  BY DEF Adrift
<1>2. \A c \in Actors : /\ TxOf(call[c]).op = call[c].op /\ TxOf(call[c]).balance = call[c].balance
                        /\ call[c] # NoCall => TxOf(call[c]) \in Tx
  <2> SUFFICES ASSUME NEW c \in Actors
               PROVE  /\ TxOf(call[c]).op = call[c].op /\ TxOf(call[c]).balance = call[c].balance
                      /\ call[c] # NoCall => TxOf(call[c]) \in Tx
    OBVIOUS
  <2>1. call[c] \in CallRecord /\ (call[c] # NoCall => call[c].op # "none" /\ call[c].balance \in Balances)
    BY <1>0 DEF TableInv, CallsStand
  <2> QED
    BY <2>1 DEF TxOf, Tx, CallRecord
<1>3. floating' \subseteq Tx
  BY <1>0, <1>1, <1>2
<1>4. EscrowTypeOK'
  BY <1>0, <1>3 DEF EscrowTypeOK, RowRecord, CallRecord
<1>5. CallsStand'
  <2> SUFFICES ASSUME NEW c \in Actors
               PROVE  /\ call'[c] = NoCall <=> call'[c].op = "none"
                      /\ call'[c] # NoCall => call'[c].key \in Keys /\ call'[c].balance \in Balances
                      /\ call'[c].op \in Claims =>
                           /\ row[call'[c].key].status # "none" /\ row[call'[c].key].balance = call'[c].balance
                           /\ call'[c].landed => chain[call'[c].balance] = call'[c].op
    BY DEF CallsStand, Known
  <2>1. CASE c \in As
    BY <2>1, Nothing DEF Claims
  <2>2. CASE c \notin As
    BY <2>2 DEF TableInv, CallsStand, Known
  <2> QED
    BY <2>1, <2>2
<1>6. LocksAreFresh'
  <2>1. ASSUME NEW x \in floating', x.op = "lock" PROVE chain[x.balance] = "absent"
    <3>1. CASE x \in floating
      BY <2>1, <3>1 DEF TableInv, LocksAreFresh
    <3>2. CASE x \notin floating
      <4>1. PICK c \in As : x = TxOf(call[c]) /\ ~call[c].landed
        BY <1>1, <3>2
      <4>2. LockUnder(c) /\ x.balance = call[c].balance
        BY <1>2, <2>1, <4>1 DEF LockUnder
      <4> QED
        BY <4>2 DEF TableInv, LocksAreFresh
    <3> QED
      BY <3>1, <3>2
  <2>2. ASSUME NEW c \in Actors, LockUnder(c)'
        PROVE  /\ chain[call'[c].balance] = "absent"
               /\ \A d \in Actors \ {c} : call'[d].op = "lock" => call'[d].balance # call'[c].balance
               /\ \A x \in floating' : x.op = "lock" => x.balance # call'[c].balance
    <3>1. c \notin As /\ LockUnder(c) /\ call'[c] = call[c]
      BY <2>2, Nothing DEF LockUnder
    <3>2. /\ chain[call[c].balance] = "absent"
          /\ \A d \in Actors \ {c} : call[d].op = "lock" => call[d].balance # call[c].balance
          /\ \A x \in floating : x.op = "lock" => x.balance # call[c].balance
      BY <3>1 DEF TableInv, LocksAreFresh
    <3>3. \A d \in Actors \ {c} : call'[d].op = "lock" => call'[d].balance # call'[c].balance
      BY <3>1, <3>2, Nothing
    <3>4. \A x \in floating' : x.op = "lock" => x.balance # call'[c].balance
      BY <1>1, <1>2, <3>1, <3>2
    <3> QED
      BY <3>1, <3>2, <3>3, <3>4
  <2> QED
    BY <2>1, <2>2 DEF LocksAreFresh
<1>7. RowsStand' /\ RowTellsClaim'
  BY DEF TableInv, RowsStand, RowTellsClaim, Known
<1> QED
  BY <1>4, <1>5, <1>6, <1>7 DEF TableInv

LEMMA GiveUpKeeps ==
  ASSUME TableInv, NEW a \in Actors, GiveUp(a), UNCHANGED <<chain, row>>
  PROVE  TableInv' /\ call' = [call EXCEPT ![a] = NoCall]
<1>1. /\ call \in [Actors -> CallRecord] /\ faults \in 0 .. MaxFaults
  BY TableTypes DEF TableInv
<1>2. call' = [call EXCEPT ![a] = NoCall] /\ floating' = floating \cup Adrift({a}) /\ faults' \in 0 .. MaxFaults
  BY <1>1, FaultTyped DEF GiveUp
<1>3. call' \in [Actors -> CallRecord] /\ \A c \in Actors : call'[c] = IF c \in {a} THEN NoCall ELSE call[c]
  BY <1>1, <1>2, Nothing
<1>4. {a} \in SUBSET Actors /\ floating' \subseteq floating \cup Adrift({a}) /\ floating \subseteq floating'
  BY <1>2
<1> QED
  BY <1>2, <1>3, <1>4, CallsEndKeeps

LEMMA CallsLostKeeps ==
  ASSUME TableInv, CallsLost, UNCHANGED <<chain, row>>
  PROVE  TableInv' /\ \A c \in Actors : call'[c] = NoCall
<1>1. /\ call \in [Actors -> CallRecord] /\ faults \in 0 .. MaxFaults
  BY TableTypes DEF TableInv
<1>2. call' = [c \in Actors |-> NoCall] /\ floating' = floating \cup Adrift(Actors) /\ faults' \in 0 .. MaxFaults
  BY <1>1, FaultTyped DEF CallsLost
<1>3. call' \in [Actors -> CallRecord] /\ \A c \in Actors : call'[c] = IF c \in Actors THEN NoCall ELSE call[c]
  BY <1>2, Nothing
<1>4. Actors \in SUBSET Actors /\ floating' \subseteq floating \cup Adrift(Actors) /\ floating \subseteq floating'
  BY <1>2
<1> QED
  BY <1>2, <1>3, <1>4, CallsEndKeeps

LEMMA RefusedKeeps ==
  ASSUME TableInv, NEW a \in Actors, Refused(a), UNCHANGED <<chain, floating, faults>>
  PROVE  TableInv' /\ call' = [call EXCEPT ![a] = NoCall] /\ row' = row
<1>1. /\ call \in [Actors -> CallRecord] /\ faults \in 0 .. MaxFaults
  BY TableTypes DEF TableInv
<1>2. call' = [call EXCEPT ![a] = NoCall] /\ row' = row
  BY DEF Refused, RefusedRow
<1>3. call' \in [Actors -> CallRecord] /\ \A c \in Actors : call'[c] = IF c \in {a} THEN NoCall ELSE call[c]
  BY <1>1, <1>2, Nothing
<1>4. {a} \in SUBSET Actors /\ floating' \subseteq floating \cup Adrift({a}) /\ floating \subseteq floating'
  OBVIOUS
<1> QED
  BY <1>1, <1>2, <1>3, <1>4, CallsEndKeeps

\* A write of a row, perhaps with the end of the call that makes it.
LEMMA RowWrite ==
  ASSUME TableInv, NEW k \in Keys, NEW r \in RowRecord, row' = [row EXCEPT ![k] = r],
         call' \in [Actors -> CallRecord], \A c \in Actors : call'[c] = NoCall \/ call'[c] = call[c],
         r.status # "none", r.balance \in Balances, Known(k) => r.balance = row[k].balance,
         r.status \in {"released", "refunded"} /\ ~r.byHand =>
           \E op \in Claims : chain[r.balance] = op /\ r.status = Outcome[op],
         UNCHANGED <<chain, floating, faults>>
  PROVE  TableInv' /\ \A j \in Keys : Known(j) => Known(j)'
<1>0. /\ chain \in [Balances -> ChainStates] /\ row \in [Keys -> RowRecord]
      /\ call \in [Actors -> CallRecord] /\ floating \subseteq Tx /\ faults \in 0 .. MaxFaults
  BY TableTypes DEF TableInv
<1>1. row' \in [Keys -> RowRecord] /\ row'[k] = r /\ \A j \in Keys : j # k => row'[j] = row[j]
  BY <1>0
<1>2. \A j \in Keys : Known(j) => Known(j)' /\ row'[j].balance = row[j].balance
  BY <1>1 DEF Known
<1>3. EscrowTypeOK'
  BY <1>0, <1>1 DEF EscrowTypeOK, RowRecord, CallRecord
<1>4. CallsStand'
  <2> SUFFICES ASSUME NEW c \in Actors
               PROVE  /\ call'[c] = NoCall <=> call'[c].op = "none"
                      /\ call'[c] # NoCall => call'[c].key \in Keys /\ call'[c].balance \in Balances
                      /\ call'[c].op \in Claims =>
                           /\ row'[call'[c].key].status # "none" /\ row'[call'[c].key].balance = call'[c].balance
                           /\ call'[c].landed => chain[call'[c].balance] = call'[c].op
    BY DEF CallsStand, Known
  <2>1. CASE call'[c] = NoCall
    BY <2>1, Nothing DEF Claims
  <2>2. CASE call'[c] = call[c] /\ call[c] # NoCall
    <3>1. /\ call[c] = NoCall <=> call[c].op = "none"
          /\ call[c].key \in Keys /\ call[c].balance \in Balances
          /\ call[c].op \in Claims => Known(call[c].key) /\ row[call[c].key].balance = call[c].balance
                                     /\ (call[c].landed => chain[call[c].balance] = call[c].op)
      BY <2>2 DEF TableInv, CallsStand
    <3>2. call[c].op \in Claims => row'[call[c].key].status # "none"
                                  /\ row'[call[c].key].balance = row[call[c].key].balance
      BY <1>2, <3>1 DEF Known
    <3> QED
      BY <2>2, <3>1, <3>2
  <2> QED
    BY <2>1, <2>2
<1>5. LocksAreFresh'
  <2>1. \A c \in Actors : /\ LockUnder(c)' => LockUnder(c) /\ call'[c] = call[c]
                          /\ call'[c].op = "lock" => call'[c] = call[c]
    BY Nothing DEF LockUnder
  <2> QED
    BY <2>1 DEF TableInv, LocksAreFresh
<1>6. RowsStand'
  BY <1>1, Nothing DEF TableInv, RowsStand, Known
<1>7. RowTellsClaim'
  BY <1>1 DEF TableInv, RowTellsClaim
<1> QED
  BY <1>2, <1>3, <1>4, <1>5, <1>6, <1>7 DEF TableInv

\* The same for a status, which is all that is ever rewritten.
LEMMA StatusWrite ==
  ASSUME TableInv, NEW k \in Keys, Known(k), NEW status \in RowStatuses \ {"none"}, NEW hand \in BOOLEAN,
         row' = [row EXCEPT ![k].status = status, ![k].byHand = hand],
         call' \in [Actors -> CallRecord], \A c \in Actors : call'[c] = NoCall \/ call'[c] = call[c],
         status \in {"released", "refunded"} /\ ~hand =>
           \E op \in Claims : chain[row[k].balance] = op /\ status = Outcome[op],
         UNCHANGED <<chain, floating, faults>>
  PROVE  TableInv' /\ \A j \in Keys : Known(j) => Known(j)'
<1> DEFINE r == [row[k] EXCEPT !.status = status, !.byHand = hand]
<1>0. row \in [Keys -> RowRecord] /\ row[k] \in RowRecord
  BY TableTypes DEF TableInv
<1>1. row' = [row EXCEPT ![k] = r]
  BY <1>0
<1>2. r \in RowRecord /\ r.status = status /\ r.byHand = hand /\ r.balance = row[k].balance
  BY <1>0 DEF RowRecord
<1>3. row[k].balance \in Balances
  BY DEF TableInv, RowsStand
<1>4. /\ r.status # "none" /\ r.balance \in Balances /\ (Known(k) => r.balance = row[k].balance)
  BY <1>2, <1>3 DEF Known
<1>5. r.status \in {"released", "refunded"} /\ ~r.byHand =>
        \E op \in Claims : chain[r.balance] = op /\ r.status = Outcome[op]
  BY <1>2
<1> HIDE DEF r
<1> QED
  BY <1>1, <1>2, <1>4, <1>5, RowWrite

LEMMA RecordKeeps ==
  ASSUME TableInv, NEW a \in Actors, Record(a), UNCHANGED <<chain, floating, faults>>
  PROVE  /\ TableInv' /\ call' = [call EXCEPT ![a] = NoCall] /\ call[a] # NoCall
         /\ \A j \in Keys : Known(j) => Known(j)'
<1>0. /\ call \in [Actors -> CallRecord] /\ row \in [Keys -> RowRecord] /\ call[a] \in CallRecord
  BY TableTypes DEF TableInv
<1>1. call' = [call EXCEPT ![a] = NoCall] /\ call[a].landed
  BY DEF Record
<1>2. /\ call' \in [Actors -> CallRecord]
      /\ \A c \in Actors : call'[c] = NoCall \/ call'[c] = call[c]
  BY <1>0, <1>1, Nothing
<1>3. /\ call[a] # NoCall /\ call[a].key \in Keys /\ call[a].balance \in Balances
      /\ call[a].op \in {"lock"} \cup Claims
  BY <1>0, <1>1, Nothing DEF TableInv, CallsStand, CallRecord
<1>4. CASE call[a].op # "lock"
  <2>1. call[a].op \in Claims /\ Known(call[a].key) /\ row[call[a].key].balance = call[a].balance
        /\ chain[call[a].balance] = call[a].op
    BY <1>1, <1>3, <1>4 DEF TableInv, CallsStand
  <2>2. row' = [row EXCEPT ![call[a].key].status = Outcome[call[a].op], ![call[a].key].byHand = FALSE]
    BY <1>4 DEF Record, UpdatedRow
  <2>3. Outcome[call[a].op] \in RowStatuses \ {"none"}
    BY <2>1 DEF Outcome, Claims, RowStatuses, FinalStatuses
  <2> DEFINE k == call[a].key
             status == Outcome[call[a].op]
  <2>4. k \in Keys /\ Known(k) /\ status \in RowStatuses \ {"none"} /\ FALSE \in BOOLEAN
    BY <1>3, <2>1, <2>3
  <2>5. \E op \in Claims : chain[row[k].balance] = op /\ status = Outcome[op]
    BY <2>1
  <2>6. row' = [row EXCEPT ![k].status = status, ![k].byHand = FALSE]
    BY <2>2
  <2> HIDE DEF k, status
  <2>7. TableInv' /\ \A j \in Keys : Known(j) => Known(j)'
    BY <1>2, <2>4, <2>5, <2>6, StatusWrite
  <2> QED
    BY <1>1, <1>3, <2>7
<1>5. CASE call[a].op = "lock" /\ row[call[a].key] = NoRow
  <2> DEFINE r == [status |-> "locked", balance |-> call[a].balance, byHand |-> FALSE]
  <2>1. r \in RowRecord /\ r.status = "locked" /\ r.balance = call[a].balance
    BY <1>3 DEF RowRecord, RowStatuses
  <2>2. row' = [row EXCEPT ![call[a].key] = r]
    BY <1>5 DEF Record, UpdatedRow
  <2>3. ~Known(call[a].key)
    BY <1>5, Nothing DEF Known
  <2> HIDE DEF r
  <2> QED
    BY <1>1, <1>2, <1>3, <2>1, <2>2, <2>3, RowWrite
<1>6. CASE call[a].op = "lock" /\ row[call[a].key] # NoRow
  <2>1. row' = row
    BY <1>6 DEF Record, UpdatedRow
  <2>2. faults' \in 0 .. MaxFaults
    BY TableTypes DEF TableInv
  <2>3. \A c \in Actors : call'[c] = IF c \in {a} THEN NoCall ELSE call[c]
    BY <1>0, <1>1
  <2>4. {a} \in SUBSET Actors /\ floating' \subseteq floating \cup Adrift({a}) /\ floating \subseteq floating'
    OBVIOUS
  <2>5. TableInv'
    BY <1>2, <2>1, <2>2, <2>3, <2>4, CallsEndKeeps
  <2> QED
    BY <1>1, <1>3, <2>1, <2>5 DEF Known
<1> QED
  BY <1>4, <1>5, <1>6

-----------------------------------------------------------------------------
Growing == \A k \in Keys : Known(k) => Known(k)'

LEMMA NoSuchDrift ==
  /\ NoDrift \notin Drifts /\ \A d \in Drifts : d.key \in Keys
  /\ Idle \in PassRecord0 /\ Idle.at = "idle" /\ Idle.todo = {} /\ Idle.doing = NoDrift
  /\ Idle.parked = {} /\ Idle.foreign = {} /\ \A k \in Keys : Idle.seen[k].status = "none"
<1>1. NoDrift \notin Drifts /\ \A d \in Drifts : d.key \in Keys
  BY DEF NoDrift, Drifts
<1>2. [k \in Keys |-> NoRow] \in [Keys -> RowRecord]
  BY Nothing
<1>3. \A k \in Keys : Idle.seen[k].status = "none"
  BY Nothing DEF Idle
<1> QED
  BY <1>1, <1>2, <1>3 DEF Idle, PassRecord0

\* A step of no pass.
LEMMA PassesRest ==
  ASSUME PassesStand, Growing, pass' = pass,
         \A p \in Passes : call'[p] = NoCall <=> call[p] = NoCall,
         pending' \in [Ids -> {"none", "open", "acknowledged"}],
         \A k \in Keys : pending'[k] # "none" => Known(k)', doomed' \subseteq Keys, aged' \subseteq Keys
  PROVE  PassesStand'
<1>1. \A p \in Passes : /\ \A k \in Keys : pass[p].seen[k].status # "none" => Known(k)'
                        /\ \A d \in pass[p].todo : Known(d.key)'
                        /\ pass[p].doing # NoDrift => Known(pass[p].doing.key)'
  BY NoSuchDrift DEF PassesStand, Growing, PassRecord0
<1>2. \A p \in Passes : (pass[p].doing = NoDrift) = (call'[p] = NoCall)
  BY DEF PassesStand
<1> QED
  BY <1>1, <1>2 DEF PassesStand

\* A step of one pass.
LEMMA PassMoves ==
  ASSUME PassesStand, Growing, NEW p \in Passes, NEW r \in PassRecord0, pass' = [pass EXCEPT ![p] = r],
         \A k \in Keys : r.seen[k].status # "none" => Known(k)',
         \A d \in r.todo : Known(d.key)', r.doing # NoDrift => Known(r.doing.key)',
         r.doing = NoDrift <=> call'[p] = NoCall, r.at # "working" => r.doing = NoDrift,
         \A q \in Passes \ {p} : call'[q] = call[q],
         pending' \in [Ids -> {"none", "open", "acknowledged"}],
         \A k \in Keys : pending'[k] # "none" => Known(k)', doomed' \subseteq Keys, aged' \subseteq Keys
  PROVE  PassesStand'
<1>0. /\ pass' \in [Passes -> PassRecord0] /\ pass'[p] = r
      /\ \A q \in Passes : q # p => pass'[q] = pass[q]
  BY DEF PassesStand
<1>1. \A q \in Passes : /\ \A k \in Keys : pass'[q].seen[k].status # "none" => row'[k].status # "none"
                        /\ \A d \in pass'[q].todo : row'[d.key].status # "none"
                        /\ pass'[q].doing # NoDrift => row'[pass'[q].doing.key].status # "none"
  <2> SUFFICES ASSUME NEW q \in Passes
               PROVE  /\ \A k \in Keys : pass'[q].seen[k].status # "none" => row'[k].status # "none"
                      /\ \A d \in pass'[q].todo : row'[d.key].status # "none"
                      /\ pass'[q].doing # NoDrift => row'[pass'[q].doing.key].status # "none"
    OBVIOUS
  <2>1. CASE q = p
    BY <1>0, <2>1 DEF Known
  <2>2. CASE q # p
    <3>1. pass'[q] = pass[q] /\ pass[q] \in PassRecord0
      BY <1>0, <2>2 DEF PassesStand
    <3>2. /\ \A k \in Keys : pass[q].seen[k].status # "none" => Known(k)'
          /\ \A d \in pass[q].todo : Known(d.key)'
          /\ pass[q].doing # NoDrift => Known(pass[q].doing.key)'
      BY <3>1, NoSuchDrift DEF PassesStand, Growing, PassRecord0
    <3> QED
      BY <3>1, <3>2 DEF Known
  <2> QED
    BY <2>1, <2>2
<1>2. \A q \in Passes : /\ pass'[q].at # "working" => pass'[q].doing = NoDrift
                        /\ (pass'[q].doing = NoDrift) = (call'[q] = NoCall)
  BY <1>0 DEF PassesStand
<1> QED
  BY <1>0, <1>1, <1>2 DEF PassesStand, Known

LEMMA KeptPending ==
  ASSUME PassesStand, Growing, Outside
  PROVE  /\ pending' \in [Ids -> {"none", "open", "acknowledged"}]
         /\ \A k \in Keys : pending'[k] # "none" => Known(k)'
         /\ doomed' \subseteq Keys /\ aged' \subseteq Keys
BY DEF PassesStand, Growing, Outside

LEMMA RowsStay ==
  ASSUME row' = row
  PROVE  Growing
BY DEF Growing, Known

\* A call of the service by whoever is no pass.
LEMMA CallerStep ==
  ASSUME ReconIInv, NEW a \in PaymentCallers, CallerStarts(a) \/ CallerEnds(a) \/ CallerGivesUp(a)
  PROVE  ReconIInv'
<1>0. TableInv /\ PassesStand /\ a \in Actors /\ a \notin Passes /\ Passes \subseteq Actors
  BY DEF ReconIInv
<1>1. call \in [Actors -> CallRecord] /\ EscrowTypeOK
  BY <1>0, TableTypes DEF TableInv
<1>2. CASE CallerStarts(a)
  <2>1. PICK k \in Keys : (\E b \in Balances : Lock(a, k, b)) \/ ReleasePayment(a, k) \/ RefundPayment(a, k)
    BY <1>2 DEF CallerStarts
  <2>2. UNCHANGED <<chain, row, floating, faults, pass, pending, doomed, aged>>
    BY <1>2 DEF CallerStarts, Others
  <2>3. ASSUME \E b \in Balances : Lock(a, k, b)
        PROVE  TableInv'
    <3>1. PICK b \in Balances : Lock(a, k, b)
      BY <2>3
    <3>2. /\ Submit(a, "lock", k, b) /\ "lock" \in {"lock"} \cup Claims /\ "lock" \notin Claims
          /\ chain[b] = "absent" /\ \A c \in Actors : call[c].balance # b
          /\ \A tx \in floating : tx.balance # b
      BY <3>1 DEF Lock, Claims
    <3>3. TableInv'
      BY <1>0, <2>2, <3>2, SubmitKeeps
    <3> QED
      BY <3>3
  <2>4. ASSUME ReleasePayment(a, k) \/ RefundPayment(a, k)
        PROVE  TableInv'
    <3>1. PICK op \in Claims : Submit(a, op, k, row[k].balance)
      BY <2>4 DEF ReleasePayment, RefundPayment, Claims
    <3>2. Known(k) /\ row[k].balance \in Balances /\ op \in {"lock"} \cup Claims /\ op # "lock"
      BY <1>0, <2>4 DEF ReleasePayment, RefundPayment, Known, TableInv, RowsStand, Claims
    <3> DEFINE b == row[k].balance
    <3>3. b \in Balances /\ row[k].balance = b /\ Submit(a, op, k, b)
      BY <3>1, <3>2
    <3> HIDE DEF b
    <3>4. TableInv'
      BY <1>0, <2>2, <3>2, <3>3, SubmitKeeps
    <3> QED
      BY <3>4
  <2>5. TableInv' /\ \A p \in Passes : call'[p] = call[p]
    <3>1. TableInv'
      BY <2>1, <2>3, <2>4
    <3>2. \A c \in Actors \ {a} : call'[c] = call[c]
      BY <1>1, <2>1 DEF Lock, ReleasePayment, RefundPayment, Submit
    <3> QED
      BY <1>0, <3>1, <3>2
  <2>6. Growing /\ pass' = pass /\ Outside
    BY <2>2, RowsStay DEF Outside
  <2> QED
    BY <1>0, <2>5, <2>6, PassesRest, KeptPending DEF ReconIInv
<1>3. CASE CallerEnds(a)
  <2>1. UNCHANGED <<chain, floating, faults>> /\ pass' = pass /\ Outside
    BY <1>3 DEF CallerEnds, Others, Outside
  <2>2. TableInv' /\ call' = [call EXCEPT ![a] = NoCall] /\ Growing
    <3>1. CASE Record(a)
      BY <1>0, <2>1, <3>1, RecordKeeps DEF Growing
    <3>2. CASE Refused(a)
      BY <1>0, <2>1, <3>2, RefusedKeeps, RowsStay
    <3> QED
      BY <1>3, <3>1, <3>2 DEF CallerEnds
  <2>3. \A p \in Passes : call'[p] = call[p]
    BY <1>0, <1>1, <2>2
  <2> QED
    BY <1>0, <2>1, <2>2, <2>3, PassesRest, KeptPending DEF ReconIInv
<1>4. CASE CallerGivesUp(a)
  <2>1. UNCHANGED <<chain, row>> /\ pass' = pass /\ Outside /\ GiveUp(a)
    BY <1>4 DEF CallerGivesUp, Others, Outside
  <2>2. TableInv' /\ Growing
    BY <1>0, <2>1, GiveUpKeeps, RowsStay
  <2>3. \A p \in Passes : call'[p] = call[p]
    BY <1>0, <1>1, <2>1 DEF GiveUp
  <2> QED
    BY <1>0, <2>1, <2>2, <2>3, PassesRest, KeptPending DEF ReconIInv
<1> QED
  BY <1>2, <1>3, <1>4

LEMMA LandingStep ==
  ASSUME ReconIInv, NEW a \in Actors, Landing(a)
  PROVE  ReconIInv'
<1>1. TableInv /\ PassesStand /\ Land(a) /\ UNCHANGED <<row, floating, faults>> /\ pass' = pass /\ Outside
  BY DEF ReconIInv, Landing, Others, Outside
<1>2. TableInv' /\ \A c \in Actors : call'[c] = NoCall <=> call[c] = NoCall
  BY <1>1, LandKeeps
<1>3. \A p \in Passes : call'[p] = NoCall <=> call[p] = NoCall
  BY <1>2
<1>4. Growing
  BY <1>1, RowsStay
<1> QED
  BY <1>1, <1>2, <1>3, <1>4, PassesRest, KeptPending DEF ReconIInv

LEMMA LateStep ==
  ASSUME ReconIInv, LateLanding
  PROVE  ReconIInv'
<1>1. PICK tx \in floating : LandLate(tx)
  BY DEF LateLanding
<1>2. TableInv /\ PassesStand /\ UNCHANGED <<row, call, faults>> /\ pass' = pass /\ Outside
  BY DEF ReconIInv, LateLanding, Others, Outside
<1>3. TableInv'
  BY <1>1, <1>2, LandLateKeeps
<1>4. Growing
  BY <1>2, RowsStay
<1> QED
  BY <1>2, <1>3, <1>4, PassesRest, KeptPending DEF ReconIInv

LEMMA CrashStep ==
  ASSUME ReconIInv, Crash
  PROVE  ReconIInv'
<1>1. TableInv /\ PassesStand /\ CallsLost /\ UNCHANGED <<chain, row>> /\ Outside
      /\ pass' = [p \in Passes |-> Idle]
  BY DEF ReconIInv, Crash
<1>2. TableInv'
  BY <1>1, CallsLostKeeps
<1>3. Growing
  BY <1>1, RowsStay
<1>4. \A p \in Passes : call'[p] = NoCall
  BY <1>1 DEF CallsLost
<1>5. /\ pass' \in [Passes -> PassRecord0]
      /\ \A p \in Passes : /\ \A k \in Keys : pass'[p].seen[k].status = "none"
                           /\ pass'[p].todo = {} /\ pass'[p].doing = NoDrift
  BY <1>1, NoSuchDrift
<1> QED
  BY <1>1, <1>2, <1>3, <1>4, <1>5, KeptPending DEF ReconIInv, PassesStand

LEMMA OperatorStep ==
  ASSUME ReconIInv, Operator
  PROVE  ReconIInv'
<1>1. PICK i \in Ids, s \in FinalStatuses : Resolve(i, s)
  BY DEF Operator
<1>2. TableInv /\ PassesStand /\ UNCHANGED <<chain, call, floating, faults, pass, doomed, aged>>
      /\ pending[i] # "none" /\ pending' = [pending EXCEPT ![i] = "acknowledged"]
  BY <1>1 DEF ReconIInv, Resolve, Acknowledged
<1>3. TableInv' /\ Growing
  <2>1. CASE i \in Keys
    <3>1. Known(i) /\ row' = [row EXCEPT ![i].status = s, ![i].byHand = TRUE]
      BY <1>1, <1>2, <2>1 DEF Resolve, PassesStand
    <3>2. /\ s \in RowStatuses \ {"none"} /\ TRUE \in BOOLEAN
      BY DEF RowStatuses, FinalStatuses
    <3>3. /\ call' \in [Actors -> CallRecord]
          /\ \A c \in Actors : call'[c] = NoCall \/ call'[c] = call[c]
      BY <1>2, TableTypes DEF TableInv
    <3>4. s \in {"released", "refunded"} /\ ~TRUE =>
            \E op \in Claims : chain[row[i].balance] = op /\ s = Outcome[op]
      OBVIOUS
    <3> QED
      BY <1>2, <2>1, <3>1, <3>2, <3>3, <3>4, StatusWrite DEF Growing
  <2>2. CASE i \notin Keys
    <3>1. row' = row
      BY <1>1, <2>2 DEF Resolve
    <3> QED
      BY <1>2, <3>1, RowsStay DEF TableInv, EscrowTypeOK, CallsStand, LocksAreFresh, LockUnder,
        RowsStand, RowTellsClaim, Known
  <2> QED
    BY <2>1, <2>2
<1>4. /\ pending' \in [Ids -> {"none", "open", "acknowledged"}]
      /\ \A k \in Keys : pending'[k] # "none" => Known(k)'
      /\ doomed' \subseteq Keys /\ aged' \subseteq Keys
  <2>1. \A k \in Keys : pending'[k] # "none" => pending[k] # "none"
    BY <1>2 DEF PassesStand
  <2> QED
    BY <1>2, <1>3, <2>1 DEF PassesStand, Growing
<1> QED
  BY <1>2, <1>3, <1>4, PassesRest DEF ReconIInv

LEMMA TableStays ==
  ASSUME TableInv, Table, faults' \in 0 .. MaxFaults
  PROVE  TableInv' /\ Growing /\ call' = call
<1>1. call' = call /\ row' = row /\ chain' = chain /\ floating' = floating
  BY DEF Table
<1> QED
  BY <1>1, RowsStay DEF TableInv, EscrowTypeOK, CallsStand, LocksAreFresh, LockUnder,
    RowsStand, RowTellsClaim, Known

LEMMA FaultsTyped ==
  ASSUME TableInv, Fault \/ UNCHANGED faults
  PROVE  faults' \in 0 .. MaxFaults
BY FaultTyped, TableTypes DEF TableInv

LEMMA WorldStep ==
  ASSUME ReconIInv, World
  PROVE  ReconIInv'
<1>1. TableInv /\ PassesStand /\ Table /\ pass' = pass /\ pending' = pending
  BY DEF ReconIInv, World
<1>2. /\ Fault \/ UNCHANGED faults
      /\ doomed' \subseteq Keys /\ aged' \subseteq Keys
  BY DEF ReconIInv, World, PassesStand, TaskFails, TaskRevives, Ages
<1>3. TableInv' /\ Growing /\ call' = call
  BY <1>1, <1>2, TableStays, FaultsTyped
<1>4. /\ pending' \in [Ids -> {"none", "open", "acknowledged"}]
      /\ \A k \in Keys : pending'[k] # "none" => Known(k)'
  BY <1>1, <1>3 DEF PassesStand, Growing
<1> QED
  BY <1>1, <1>2, <1>3, <1>4, PassesRest DEF ReconIInv

LEMMA PassFacts ==
  ASSUME ReconIInv, NEW p \in Passes
  PROVE  /\ TableInv /\ PassesStand /\ p \in Actors
         /\ pass \in [Passes -> PassRecord0] /\ pass[p] \in PassRecord0
         /\ call \in [Actors -> CallRecord] /\ Passes \subseteq Actors
         /\ pass[p].doing = NoDrift <=> call[p] = NoCall
         /\ pass[p].at # "working" => pass[p].doing = NoDrift
         /\ \A k \in Keys : pass[p].seen[k].status # "none" => Known(k)
         /\ \A d \in pass[p].todo : d \in Drifts /\ d.key \in Keys /\ Known(d.key)
         /\ pass[p].doing # NoDrift =>
              pass[p].doing \in Drifts /\ pass[p].doing.key \in Keys /\ Known(pass[p].doing.key)
<1>1. TableInv /\ PassesStand /\ p \in Actors /\ Passes \subseteq Actors
      /\ pass \in [Passes -> PassRecord0] /\ pass[p] \in PassRecord0
  BY DEF ReconIInv, PassesStand
<1>2. call \in [Actors -> CallRecord]
  BY <1>1, TableTypes DEF TableInv
<1>3. /\ pass[p].doing = NoDrift <=> call[p] = NoCall
      /\ pass[p].at # "working" => pass[p].doing = NoDrift
      /\ \A k \in Keys : pass[p].seen[k].status # "none" => Known(k)
      /\ \A d \in pass[p].todo : Known(d.key)
      /\ pass[p].doing # NoDrift => Known(pass[p].doing.key)
  BY <1>1 DEF PassesStand
<1>4. pass[p].todo \subseteq Drifts /\ pass[p].doing \in Drifts \cup {NoDrift}
  BY <1>1 DEF PassRecord0
<1> QED
  BY <1>1, <1>2, <1>3, <1>4, NoSuchDrift

\* What Park does to the table of pending drift.
LEMMA ParkedPending ==
  ASSUME PassesStand, Growing, NEW k \in Keys, Known(k), pending' = [pending EXCEPT ![k] = Upserted(k)],
         UNCHANGED <<doomed, aged>>
  PROVE  /\ pending' \in [Ids -> {"none", "open", "acknowledged"}]
         /\ \A j \in Keys : pending'[j] # "none" => Known(j)'
         /\ doomed' \subseteq Keys /\ aged' \subseteq Keys
<1>1. pending \in [Ids -> {"none", "open", "acknowledged"}] /\ k \in Ids
  BY DEF PassesStand, Ids
<1>2. Upserted(k) \in {"none", "open", "acknowledged"}
  BY <1>1 DEF Upserted
<1>3. \A j \in Keys : pending'[j] # "none" => Known(j)
  BY <1>1 DEF PassesStand
<1> QED
  BY <1>1, <1>2, <1>3 DEF PassesStand, Growing

\* A pass that begins, ends or looks at the network.
LEMMA PassTurns ==
  ASSUME ReconIInv, NEW p \in Passes, PassStart(p) \/ PassAlerted(p)
  PROVE  ReconIInv'
<1>0. /\ TableInv /\ PassesStand /\ pass \in [Passes -> PassRecord0] /\ pass[p] \in PassRecord0
      /\ pass[p].doing = NoDrift <=> call[p] = NoCall
      /\ pass[p].at # "working" => pass[p].doing = NoDrift
      /\ \A d \in pass[p].todo : d \in Drifts /\ d.key \in Keys /\ Known(d.key)
      /\ pass[p].doing # NoDrift => pass[p].doing.key \in Keys /\ Known(pass[p].doing.key)
  BY PassFacts
<1>1. Table /\ Outside /\ faults' = faults /\ faults \in 0 .. MaxFaults /\ row \in [Keys -> RowRecord]
  BY <1>0, TableTypes DEF PassStart, PassAlerted, TableInv
<1>2. TableInv' /\ Growing /\ call' = call
  BY <1>0, <1>1, TableStays
<1>3. CASE PassStart(p)
  <2>1. PICK r : r = [pass[p] EXCEPT !.at = "listing", !.seen = row]
    OBVIOUS
  <2>2. r \in PassRecord0 /\ pass' = [pass EXCEPT ![p] = r] /\ r.seen = row
        /\ r.todo = pass[p].todo /\ r.doing = pass[p].doing
    BY <1>0, <1>1, <1>3, <2>1 DEF PassStart, PassRecord0
  <2>3. /\ \A k \in Keys : r.seen[k].status # "none" => Known(k)'
        /\ \A d \in r.todo : Known(d.key)'
        /\ r.doing # NoDrift => Known(r.doing.key)'
    BY <1>0, <1>2, <2>2 DEF Growing, Known
  <2>4. r.doing = NoDrift <=> call'[p] = NoCall
    BY <1>0, <1>2, <2>2
  <2>5. r.doing = NoDrift
    BY <1>0, <1>3, <2>2 DEF PassStart
  <2> QED
    BY <1>0, <1>1, <1>2, <2>2, <2>3, <2>4, <2>5, PassMoves, KeptPending DEF ReconIInv
<1>4. CASE PassAlerted(p)
  <2>1. pass' = [pass EXCEPT ![p] = Idle]
    BY <1>4 DEF PassAlerted
  <2>2. pass[p].doing = NoDrift
    BY <1>0, <1>4 DEF PassAlerted
  <2> QED
    BY <1>0, <1>1, <1>2, <2>1, <2>2, PassMoves, KeptPending, NoSuchDrift DEF ReconIInv
<1> QED
  BY <1>3, <1>4

\* A pass compares its copy of the table: every drift it finds is one of a row.
LEMMA DetectedKnown ==
  ASSUME NEW seen \in [Keys -> RowRecord], NEW listed \in SUBSET Balances,
         NEW unverified \in SUBSET Keys, NotFound(seen, unverified)
  PROVE  /\ Detected(seen, listed, unverified) \in SUBSET Drifts
         /\ \A d \in Detected(seen, listed, unverified) : seen[d.key].status # "none"
         /\ MissingLocal(seen, listed) \in SUBSET Balances
<1>1. /\ OrphanedLock(seen, listed) \subseteq Keys /\ UnconfirmedRelease(seen, listed) \subseteq Keys
      /\ MissingReleaseTx(seen, listed, unverified) \subseteq Keys /\ PastDeadline(seen, listed) \subseteq Keys
  BY DEF OrphanedLock, UnconfirmedRelease, MissingReleaseTx, PastDeadline, With, Gone
<1>2. /\ \A k \in OrphanedLock(seen, listed) : seen[k].status # "none"
      /\ \A k \in UnconfirmedRelease(seen, listed) : seen[k].status # "none"
      /\ \A k \in MissingReleaseTx(seen, listed, unverified) : seen[k].status # "none"
      /\ \A k \in PastDeadline(seen, listed) : seen[k].status # "none"
  BY DEF OrphanedLock, UnconfirmedRelease, MissingReleaseTx, PastDeadline, With, Gone, NotFound,
    Verifiable, FinalStatuses
<1>3. MissingLocal(seen, listed) \in SUBSET Balances
  BY DEF MissingLocal
<1> QED
  BY <1>1, <1>2, <1>3 DEF Detected, Drifts, DriftTypes

LEMMA PassListStep ==
  ASSUME ReconIInv, NEW p \in Passes, NEW listed \in SUBSET Balances, NEW unverified \in SUBSET Keys,
         PassList(p, listed, unverified)
  PROVE  ReconIInv'
<1>0. /\ TableInv /\ PassesStand /\ pass \in [Passes -> PassRecord0] /\ pass[p] \in PassRecord0
      /\ pass[p].doing = NoDrift <=> call[p] = NoCall
      /\ pass[p].at # "working" => pass[p].doing = NoDrift
      /\ \A k \in Keys : pass[p].seen[k].status # "none" => Known(k)
  BY PassFacts
<1>1. Table /\ Outside /\ (Fault \/ UNCHANGED faults) /\ pass[p].at = "listing"
      /\ NotFound(pass[p].seen, unverified)
  BY DEF PassList
<1>2. TableInv' /\ Growing /\ call' = call
  BY <1>0, <1>1, TableStays, FaultsTyped
<1>3. pass[p].seen \in [Keys -> RowRecord]
  BY <1>0 DEF PassRecord0
<1>4. PICK ds : ds = Detected(pass[p].seen, listed, unverified)
  OBVIOUS
<1>5. PICK bs : bs = MissingLocal(pass[p].seen, listed)
  OBVIOUS
<1>6. ds \in SUBSET Drifts /\ bs \in SUBSET Balances /\ \A d \in ds : pass[p].seen[d.key].status # "none"
  BY <1>1, <1>3, <1>4, <1>5, DetectedKnown
<1>7. PICK r : r = [pass[p] EXCEPT !.at = "working", !.seen = Idle.seen, !.todo = ds, !.foreign = bs]
  OBVIOUS
<1>8. Idle.seen \in [Keys -> RowRecord] /\ \A k \in Keys : Idle.seen[k].status = "none"
  BY NoSuchDrift DEF PassRecord0
<1>9. /\ r \in PassRecord0 /\ r.seen = Idle.seen /\ r.todo = ds /\ r.doing = pass[p].doing
  BY <1>0, <1>6, <1>7, <1>8 DEF PassRecord0
<1>10. pass' = [pass EXCEPT ![p] = r]
  BY <1>0, <1>4, <1>5, <1>7 DEF PassList
<1>11. /\ \A k \in Keys : r.seen[k].status # "none" => Known(k)'
       /\ \A d \in r.todo : Known(d.key)'
       /\ r.doing = NoDrift
  BY <1>0, <1>1, <1>2, <1>6, <1>8, <1>9, NoSuchDrift DEF Growing
<1>12. r.doing = NoDrift <=> call'[p] = NoCall
  BY <1>0, <1>2, <1>9
<1> QED
  BY <1>0, <1>1, <1>2, <1>9, <1>10, <1>11, <1>12, PassMoves, KeptPending DEF ReconIInv

LEMMA PassEndStep ==
  ASSUME ReconIInv, NEW p \in Passes, PassEnd(p)
  PROVE  ReconIInv'
<1>0. /\ TableInv /\ PassesStand /\ pass \in [Passes -> PassRecord0] /\ pass[p] \in PassRecord0
      /\ pass[p].doing = NoDrift <=> call[p] = NoCall
  BY PassFacts
<1>1. Table /\ doomed' = doomed /\ aged' = aged /\ faults' = faults /\ pass[p].doing = NoDrift
      /\ pass' = [pass EXCEPT ![p] = [Idle EXCEPT !.at = "alerting"]]
  BY DEF PassEnd
<1>2. TableInv' /\ Growing /\ call' = call
  BY <1>0, <1>1, TableStays, FaultsTyped
<1>3. PICK r : r = [Idle EXCEPT !.at = "alerting"]
  OBVIOUS
<1>4. r \in PassRecord0 /\ r.todo = {} /\ r.doing = NoDrift /\ \A k \in Keys : r.seen[k].status = "none"
  BY <1>3, NoSuchDrift DEF PassRecord0
<1>5. pass[p].foreign \subseteq Balances /\ pending \in [Ids -> {"none", "open", "acknowledged"}]
  BY <1>0 DEF PassRecord0, PassesStand
<1>6. /\ pending' \in [Ids -> {"none", "open", "acknowledged"}]
      /\ \A k \in Keys : pending'[k] # "none" => pending[k] # "none"
  <2>1. pending' = [i \in Ids |-> IF i \in pass[p].foreign THEN Upserted(i)
                                  ELSE Retained(i, pass[p].parked)]
    BY DEF PassEnd
  <2>2. \A i \in Ids : /\ Upserted(i) \in {"none", "open", "acknowledged"}
                       /\ Retained(i, pass[p].parked) \in {"none", "open", "acknowledged"}
    BY <1>5 DEF Upserted, Retained
  <2>3. \A k \in Keys : k \in Ids /\ k \notin pass[p].foreign
    BY <1>5 DEF Ids
  <2> QED
    BY <2>1, <2>2, <2>3 DEF Retained
<1>7. /\ \A k \in Keys : pending'[k] # "none" => Known(k)'
      /\ doomed' \subseteq Keys /\ aged' \subseteq Keys
  BY <1>0, <1>1, <1>2, <1>6 DEF PassesStand, Growing
<1>8. pass' = [pass EXCEPT ![p] = r] /\ (r.doing = NoDrift <=> call'[p] = NoCall)
  BY <1>0, <1>1, <1>2, <1>3, <1>4
<1> QED
  BY <1>0, <1>2, <1>4, <1>6, <1>7, <1>8, PassMoves DEF ReconIInv

\* A drift is done with, remediated or parked, or its submission begins.
LEMMA PassDone ==
  ASSUME PassesStand, NEW p \in Passes, Growing, NEW d \in Drifts, Known(d.key),
         NEW r \in PassRecord0, pass' = [pass EXCEPT ![p] = r], r.at = "working", r.seen = pass[p].seen,
         r.todo \subseteq pass[p].todo, r.doing \in {NoDrift, d},
         r.doing = NoDrift <=> call'[p] = NoCall, \A q \in Passes \ {p} : call'[q] = call[q],
         pending' \in [Ids -> {"none", "open", "acknowledged"}],
         \A k \in Keys : pending'[k] # "none" => Known(k)', doomed' \subseteq Keys, aged' \subseteq Keys
  PROVE  PassesStand'
<1>0. /\ pass \in [Passes -> PassRecord0] /\ pass[p] \in PassRecord0 /\ pass[p].todo \subseteq Drifts
      /\ \A k \in Keys : pass[p].seen[k].status # "none" => Known(k)
      /\ \A e \in pass[p].todo : Known(e.key)
  BY DEF PassesStand, PassRecord0
<1>1. d.key \in Keys /\ \A e \in r.todo : e.key \in Keys /\ Known(e.key)
  <2>1. \A e \in r.todo : e \in pass[p].todo /\ e \in Drifts
    BY <1>0
  <2> QED
    BY <1>0, <2>1, NoSuchDrift
<1>2. \A k \in Keys : r.seen[k].status # "none" => Known(k)'
  BY <1>0 DEF Growing
<1>3. \A e \in r.todo : Known(e.key)'
  BY <1>1 DEF Growing, Known
<1>4. r.doing # NoDrift => Known(r.doing.key)'
  BY <1>1 DEF Growing, Known
<1>5. r.at # "working" => r.doing = NoDrift
  OBVIOUS
<1> QED
  BY <1>2, <1>3, <1>4, <1>5, PassMoves

\* The three ways in which Work and the end of a call leave the pass.
LEMMA PassForms ==
  ASSUME ReconIInv, NEW p \in Passes, NEW d \in Drifts, pass[p].at = "working"
  PROVE  /\ Remediated(p, d) => \E r \in PassRecord0 :
              /\ pass' = [pass EXCEPT ![p] = r] /\ r.at = "working" /\ r.seen = pass[p].seen
              /\ r.todo \subseteq pass[p].todo /\ r.doing = pass[p].doing
         /\ StartSubmission(p, d) => \E r \in PassRecord0 :
              /\ pass' = [pass EXCEPT ![p] = r] /\ r.at = "working" /\ r.seen = pass[p].seen
              /\ r.todo \subseteq pass[p].todo /\ r.doing = d
         /\ Park(p, d) \/ pass' = [pass EXCEPT ![p].doing = NoDrift] => \E r \in PassRecord0 :
              /\ pass' = [pass EXCEPT ![p] = r] /\ r.at = "working" /\ r.seen = pass[p].seen
              /\ r.todo \subseteq pass[p].todo /\ r.doing = NoDrift
<1>0. pass \in [Passes -> PassRecord0] /\ pass[p] \in PassRecord0 /\ d.key \in Keys
  BY NoSuchDrift DEF ReconIInv, PassesStand
<1>1. ASSUME Remediated(p, d)
      PROVE  \E r \in PassRecord0 :
               /\ pass' = [pass EXCEPT ![p] = r] /\ r.at = "working" /\ r.seen = pass[p].seen
               /\ r.todo \subseteq pass[p].todo /\ r.doing = pass[p].doing
  <2> DEFINE r == [pass[p] EXCEPT !.todo = pass[p].todo \ {d}]
  <2>1. r \in PassRecord0 /\ r.at = "working" /\ r.seen = pass[p].seen
        /\ r.todo \subseteq pass[p].todo /\ r.doing = pass[p].doing
    BY <1>0 DEF PassRecord0
  <2>2. pass' = [pass EXCEPT ![p] = r]
    BY <1>0, <1>1 DEF Remediated
  <2> QED
    BY <2>1, <2>2
<1>2. ASSUME StartSubmission(p, d)
      PROVE  \E r \in PassRecord0 :
               /\ pass' = [pass EXCEPT ![p] = r] /\ r.at = "working" /\ r.seen = pass[p].seen
               /\ r.todo \subseteq pass[p].todo /\ r.doing = d
  <2> DEFINE r == [pass[p] EXCEPT !.todo = pass[p].todo \ {d}, !.doing = d]
  <2>1. r \in PassRecord0 /\ r.at = "working" /\ r.seen = pass[p].seen
        /\ r.todo \subseteq pass[p].todo /\ r.doing = d
    BY <1>0 DEF PassRecord0
  <2>2. pass' = [pass EXCEPT ![p] = r]
    BY <1>0, <1>2 DEF StartSubmission
  <2> QED
    BY <2>1, <2>2
<1>3. ASSUME Park(p, d)
      PROVE  \E r \in PassRecord0 :
               /\ pass' = [pass EXCEPT ![p] = r] /\ r.at = "working" /\ r.seen = pass[p].seen
               /\ r.todo \subseteq pass[p].todo /\ r.doing = NoDrift
  <2> DEFINE r == [pass[p] EXCEPT !.todo = pass[p].todo \ {d}, !.doing = NoDrift,
                                  !.parked = pass[p].parked \cup {d.key}]
  <2>1. r \in PassRecord0 /\ r.at = "working" /\ r.seen = pass[p].seen
        /\ r.todo \subseteq pass[p].todo /\ r.doing = NoDrift
    BY <1>0 DEF PassRecord0
  <2>2. pass' = [pass EXCEPT ![p] = r]
    BY <1>0, <1>3 DEF Park
  <2> QED
    BY <2>1, <2>2
<1>4. ASSUME pass' = [pass EXCEPT ![p].doing = NoDrift]
      PROVE  \E r \in PassRecord0 :
               /\ pass' = [pass EXCEPT ![p] = r] /\ r.at = "working" /\ r.seen = pass[p].seen
               /\ r.todo \subseteq pass[p].todo /\ r.doing = NoDrift
  <2> DEFINE r == [pass[p] EXCEPT !.doing = NoDrift]
  <2>1. r \in PassRecord0 /\ r.at = "working" /\ r.seen = pass[p].seen
        /\ r.todo \subseteq pass[p].todo /\ r.doing = NoDrift
    BY <1>0 DEF PassRecord0
  <2>2. pass' = [pass EXCEPT ![p] = r]
    BY <1>0, <1>4
  <2> QED
    BY <2>1, <2>2
<1> QED
  BY <1>1, <1>2, <1>3, <1>4

LEMMA WorkStep ==
  ASSUME ReconIInv, NEW p \in Passes, Work(p)
  PROVE  ReconIInv'
<1>0. /\ TableInv /\ PassesStand /\ p \in Actors /\ Passes \subseteq Actors
      /\ pass \in [Passes -> PassRecord0] /\ call \in [Actors -> CallRecord]
      /\ pass[p].doing = NoDrift <=> call[p] = NoCall
      /\ \A e \in pass[p].todo : e \in Drifts /\ e.key \in Keys /\ Known(e.key)
  BY PassFacts
<1>1. pass[p].at = "working" /\ pass[p].doing = NoDrift /\ call[p] = NoCall
  BY <1>0 DEF Work
<1>2. PICK d \in pass[p].todo :
        MarkOrphaned(p, d) \/ RequeueRelease(p, d) \/ RefundEscrow(p, d) \/ ManualReview(p, d)
  BY DEF Work
<1>3. d \in Drifts /\ d.key \in Keys /\ Known(d.key) /\ d # NoDrift /\ row[d.key].balance \in Balances
  <2>1. d \in Drifts /\ d.key \in Keys /\ Known(d.key)
    BY <1>0
  <2>2. row[d.key].balance \in Balances
    BY <1>0, <2>1 DEF TableInv, RowsStand
  <2> QED
    BY <2>1, <2>2, NoSuchDrift
\* The drift is done with at once: the call stays as it is.
<1>4. ASSUME TableInv', Growing, call' = call, Remediated(p, d) \/ Park(p, d)
      PROVE  ReconIInv'
  <2>1. PICK r \in PassRecord0 :
          /\ pass' = [pass EXCEPT ![p] = r] /\ r.at = "working" /\ r.seen = pass[p].seen
          /\ r.todo \subseteq pass[p].todo /\ r.doing = NoDrift
    BY <1>1, <1>3, <1>4, PassForms
  <2>2. /\ pending' \in [Ids -> {"none", "open", "acknowledged"}]
        /\ \A k \in Keys : pending'[k] # "none" => Known(k)'
        /\ doomed' \subseteq Keys /\ aged' \subseteq Keys
    <3>1. CASE Remediated(p, d)
      BY <1>0, <1>4, <3>1, KeptPending DEF Remediated
    <3>2. CASE Park(p, d)
      BY <1>0, <1>3, <1>4, <3>2, ParkedPending DEF Park
    <3> QED
      BY <1>4, <3>1, <3>2
  <2>3. r.doing = NoDrift <=> call'[p] = NoCall
    BY <1>1, <1>4, <2>1
  <2>4. /\ \A q \in Passes \ {p} : call'[q] = call[q]
        /\ r.doing \in {NoDrift, d}
    BY <1>4, <2>1
  <2>5. PassesStand'
    BY <1>0, <1>3, <1>4, <2>1, <2>2, <2>3, <2>4, PassDone
  <2> QED
    BY <1>4, <2>5 DEF ReconIInv
\* A call begins for the drift.
<1>5. ASSUME NEW op \in Claims, Submit(p, op, d.key, row[d.key].balance), StartSubmission(p, d),
             UNCHANGED <<chain, row, floating, faults>>
      PROVE  ReconIInv'
  <2>0. PICK b \in Balances : row[d.key].balance = b
    BY <1>3
  <2>1. op \in {"lock"} \cup Claims /\ op # "lock" /\ Submit(p, op, d.key, b)
    BY <1>5, <2>0 DEF Claims
  <2>2. TableInv'
    BY <1>0, <1>3, <1>5, <2>0, <2>1, SubmitKeeps
  <2>3. Growing
    BY <1>5, RowsStay
  <2>4. PICK r \in PassRecord0 :
          /\ pass' = [pass EXCEPT ![p] = r] /\ r.at = "working" /\ r.seen = pass[p].seen
          /\ r.todo \subseteq pass[p].todo /\ r.doing = d
    BY <1>1, <1>3, <1>5, PassForms
  <2>5. call'[p].op = op /\ \A q \in Passes \ {p} : call'[q] = call[q]
    BY <1>0, <2>1 DEF Submit
  <2>6. r.doing = NoDrift <=> call'[p] = NoCall
    BY <1>3, <2>4, <2>5, Nothing DEF Claims
  <2>7. Outside
    BY <1>5 DEF StartSubmission
  <2>8. r.doing \in {NoDrift, d}
    BY <2>4
  <2>9. PassesStand'
    BY <1>0, <1>3, <2>3, <2>4, <2>5, <2>6, <2>7, <2>8, PassDone, KeptPending
  <2> QED
    BY <2>2, <2>9 DEF ReconIInv
<1>6. ASSUME UNCHANGED <<chain, row, call, floating, faults>>
      PROVE  TableInv' /\ Growing /\ call' = call
  BY <1>0, <1>6, TableStays, FaultsTyped DEF Table
<1>7. CASE MarkOrphaned(p, d)
  <2>1. CASE row[d.key].status = "locked"
    <3>1. /\ row' = [row EXCEPT ![d.key].status = "orphaned", ![d.key].byHand = FALSE]
          /\ UNCHANGED <<chain, call, floating, faults>> /\ Remediated(p, d)
      BY <1>7, <2>1 DEF MarkOrphaned
    <3>2. "orphaned" \in RowStatuses \ {"none"} /\ FALSE \in BOOLEAN
      BY DEF RowStatuses, FinalStatuses
    <3>3. /\ call' \in [Actors -> CallRecord]
          /\ \A c \in Actors : call'[c] = NoCall \/ call'[c] = call[c]
      BY <1>0, <3>1
    <3>4. "orphaned" \in {"released", "refunded"} /\ ~FALSE =>
            \E op \in Claims : chain[row[d.key].balance] = op /\ "orphaned" = Outcome[op]
      OBVIOUS
    <3>5. PICK k \in Keys : k = d.key
      BY <1>3
    <3>6. TableInv' /\ Growing
      BY <1>0, <1>3, <3>1, <3>2, <3>3, <3>4, <3>5, StatusWrite DEF Growing
    <3> QED
      BY <1>4, <3>1, <3>6
  <2>2. CASE row[d.key].status # "locked"
    BY <1>4, <1>6, <1>7, <2>2 DEF MarkOrphaned
  <2> QED
    BY <2>1, <2>2
<1>8. CASE RequeueRelease(p, d)
  <2>1. CASE row[d.key].status = "released"
    BY <1>4, <1>6, <1>8, <2>1 DEF RequeueRelease
  <2>2. CASE row[d.key].status # "released"
    <3>1. /\ Submit(p, "release", d.key, row[d.key].balance) /\ StartSubmission(p, d)
          /\ UNCHANGED <<chain, row, floating, faults>> /\ "release" \in Claims
      BY <1>8, <2>2 DEF RequeueRelease, ReleasePayment, Claims
    <3> QED
      BY <1>5, <3>1
  <2> QED
    BY <2>1, <2>2
<1>9. CASE RefundEscrow(p, d)
  <2>1. CASE row[d.key].status # "locked"
    BY <1>4, <1>6, <1>9, <2>1 DEF RefundEscrow
  <2>2. CASE row[d.key].status = "locked"
    <3>1. /\ Submit(p, "refund", d.key, row[d.key].balance) /\ StartSubmission(p, d)
          /\ UNCHANGED <<chain, row, floating, faults>> /\ "refund" \in Claims
      BY <1>9, <2>2 DEF RefundEscrow, RefundPayment, Claims
    <3> QED
      BY <1>5, <3>1
  <2> QED
    BY <2>1, <2>2
<1>10. CASE ManualReview(p, d)
  BY <1>4, <1>6, <1>10 DEF ManualReview, Table
<1> QED
  BY <1>2, <1>7, <1>8, <1>9, <1>10

\* The call of a pass ends: its answer is recorded, it is refused or given up.
LEMMA PassCallEnds ==
  ASSUME ReconIInv, NEW p \in Passes, PassRecord(p) \/ PassRefused(p) \/ PassGivesUp(p)
  PROVE  ReconIInv'
<1>0. /\ TableInv /\ PassesStand /\ p \in Actors /\ Passes \subseteq Actors
      /\ pass \in [Passes -> PassRecord0] /\ call \in [Actors -> CallRecord]
      /\ pass[p].at # "working" => pass[p].doing = NoDrift
      /\ pass[p].doing # NoDrift =>
           pass[p].doing \in Drifts /\ pass[p].doing.key \in Keys /\ Known(pass[p].doing.key)
  BY PassFacts
<1>1. pass[p].doing # NoDrift /\ pass[p].at = "working"
  BY <1>0 DEF PassRecord, PassRefused, PassGivesUp
<1>2. PICK d \in Drifts : d = pass[p].doing
  BY <1>0, <1>1
<1>3. d.key \in Keys /\ Known(d.key)
  BY <1>0, <1>1, <1>2
<1>4. TableInv' /\ Growing /\ call' = [call EXCEPT ![p] = NoCall]
  <2>1. CASE PassRecord(p)
    BY <1>0, <2>1, RecordKeeps DEF PassRecord, Growing
  <2>2. CASE PassRefused(p)
    BY <1>0, <2>2, RefusedKeeps, RowsStay DEF PassRefused
  <2>3. CASE PassGivesUp(p)
    BY <1>0, <2>3, GiveUpKeeps, RowsStay DEF PassGivesUp
  <2> QED
    BY <2>1, <2>2, <2>3
<1>5. call'[p] = NoCall /\ \A q \in Passes \ {p} : call'[q] = call[q]
  BY <1>0, <1>4
<1>6. Park(p, d) \/ (Outside /\ pass' = [pass EXCEPT ![p].doing = NoDrift])
  BY <1>2 DEF PassRecord, PassRefused, PassGivesUp
<1>7. PICK r \in PassRecord0 :
        /\ pass' = [pass EXCEPT ![p] = r] /\ r.at = "working" /\ r.seen = pass[p].seen
        /\ r.todo \subseteq pass[p].todo /\ r.doing = NoDrift
  BY <1>1, <1>6, PassForms
<1>8. /\ pending' \in [Ids -> {"none", "open", "acknowledged"}]
      /\ \A k \in Keys : pending'[k] # "none" => Known(k)'
      /\ doomed' \subseteq Keys /\ aged' \subseteq Keys
  <2>1. CASE Outside
    BY <1>0, <1>4, <2>1, KeptPending
  <2>2. CASE Park(p, d)
    BY <1>0, <1>3, <1>4, <2>2, ParkedPending DEF Park
  <2> QED
    BY <1>6, <2>1, <2>2
<1>9. r.doing \in {NoDrift, d} /\ (r.doing = NoDrift <=> call'[p] = NoCall)
  BY <1>5, <1>7
<1>10. PassesStand'
  BY <1>0, <1>3, <1>4, <1>5, <1>7, <1>8, <1>9, PassDone
<1> QED
  BY <1>4, <1>10 DEF ReconIInv

-----------------------------------------------------------------------------
LEMMA ReconStarts ==
  ASSUME ReconInit
  PROVE  ReconIInv
<1>1. /\ \A b \in Balances : chain[b] = "absent"
      /\ \A k \in Keys : row[k] = NoRow
      /\ \A a \in Actors : call[a] = NoCall
      /\ floating = {} /\ faults = 0
      /\ chain \in [Balances -> ChainStates] /\ row \in [Keys -> RowRecord] /\ call \in [Actors -> CallRecord]
  BY Nothing DEF ReconInit, EscrowInit, ChainStates
<1>2. EscrowTypeOK
  BY <1>1, TableTyped
<1>3. CallsStand /\ LocksAreFresh
  BY <1>1, Nothing DEF CallsStand, LocksAreFresh, LockUnder, Claims
<1>4. RowsStand /\ RowTellsClaim
  BY <1>1, Nothing DEF RowsStand, Known, RowTellsClaim
<1>5. /\ pass \in [Passes -> PassRecord0] /\ pending \in [Ids -> {"none", "open", "acknowledged"}]
      /\ \A p \in Passes : /\ \A k \in Keys : pass[p].seen[k].status = "none"
                           /\ pass[p].todo = {} /\ pass[p].doing = NoDrift
      /\ \A k \in Keys : pending[k] = "none"
      /\ doomed = {} /\ aged = {} /\ Passes \subseteq Actors
  BY NoSuchDrift DEF ReconInit, Ids
<1>6. PassesStand
  BY <1>1, <1>5 DEF PassesStand
<1> QED
  BY <1>2, <1>3, <1>4, <1>6 DEF ReconIInv, TableInv

LEMMA ReconStutters ==
  ASSUME ReconIInv, UNCHANGED reconVars
  PROVE  ReconIInv'
<1>1. Table /\ faults' = faults /\ pass' = pass /\ Outside
  BY DEF reconVars, escrowVars, Table, Outside
<1>2. TableInv' /\ Growing /\ call' = call
  BY <1>1, TableStays, FaultsTyped DEF ReconIInv
<1> QED
  BY <1>1, <1>2, PassesRest, KeptPending DEF ReconIInv

LEMMA ReconSteps ==
  ASSUME ReconIInv, [ReconNext]_reconVars
  PROVE  ReconIInv'
<1>1. ASSUME NEW a \in PaymentCallers, CallerStarts(a) \/ CallerGoesOn(a) \/ CallerGivesUp(a)
      PROVE  ReconIInv'
  BY <1>1, CallerStep, LandingStep DEF CallerGoesOn
<1>2. ASSUME NEW p \in Passes, PassGoesOn(p) \/ PassGivesUp(p)
      PROVE  ReconIInv'
  <2>1. CASE \E listed \in SUBSET Balances, unverified \in SUBSET Keys : PassList(p, listed, unverified)
    BY <2>1, PassListStep
  <2>2. p \in Actors
    OBVIOUS
  <2> QED
    BY <1>2, <2>1, <2>2, PassTurns, WorkStep, LandingStep, PassCallEnds, PassEndStep DEF PassGoesOn
<1> QED
  BY <1>1, <1>2, LateStep, CrashStep, OperatorStep, WorldStep, ReconStutters DEF ReconNext

LEMMA ReconImplies ==
  ASSUME ReconIInv
  PROVE  ReconInv
<1>1. EscrowTypeOK /\ RowTellsClaim
  BY DEF ReconIInv, TableInv
<1>2. \A p \in Passes :
        /\ pass[p].at \in {"idle", "listing", "working", "alerting"}
        /\ pass[p].todo \subseteq Drifts
        /\ pass[p].doing \in Drifts \cup {NoDrift}
        /\ (pass[p].doing = NoDrift) = (call[p] = NoCall)
        /\ pass[p].parked \subseteq Keys /\ pass[p].foreign \subseteq Balances
  BY DEF ReconIInv, PassesStand, PassRecord0
<1> QED
  BY <1>1, <1>2 DEF ReconIInv, PassesStand, ReconInv, ReconTypeOK

\* In every reachable state a payment row that the service or the reconciler has settled
\* (payment.ts, reconciliation.ts) names what the claim of its balance was, for any number of
\* keys, balances, callers and passes, and whatever is lost, given up or lands late.
THEOREM ReconHolds == ReconSpec => []ReconInv
<1>1. ReconInit => ReconIInv
  BY ReconStarts
<1>2. ReconIInv /\ [ReconNext]_reconVars => ReconIInv'
  BY ReconSteps
<1>3. ReconIInv => ReconInv
  BY ReconImplies
<1> QED
  BY <1>1, <1>2, <1>3, PTL DEF ReconSpec
=============================================================================
