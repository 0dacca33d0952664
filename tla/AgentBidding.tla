---------------------------- MODULE AgentBidding ----------------------------
(***************************************************************************)
(* One sealed-bid auction of the agent bidding contract                    *)
(* (src/smart-contracts/contracts/agent_bidding/src/lib.rs) and the money  *)
(* in the contract's custody, which auctions share.  A call is a           *)
(* transaction: it happens as a whole or not at all, at the time of its    *)
(* ledger.                                                                 *)
(***************************************************************************)
EXTENDS Integers, FiniteSets, Sequences, Functions

CONSTANTS Bidders,
          RepOf,           \* the reputation that a bidder declares
          BidPrices,       \* prices that bidders commit to
          Reserve, PriceCap, BondSize,   \* the auction's configuration
          BidSeconds, RevealSeconds,
          SnipeWindow, SnipeExtension, PhaseMax, ClaimWindow,   \* types.rs
          OtherCustody,    \* what other auctions have in custody
          AuctionEnd       \* bound on the ledger's time

ASSUME AuctionAssumption ==
  /\ IsFiniteSet(Bidders) /\ "nobody" \notin Bidders /\ RepOf \in [Bidders -> 0 .. 100]
  /\ BidPrices \subseteq Nat \ {0}
  /\ {Reserve, PriceCap, BondSize, BidSeconds, RevealSeconds} \subseteq Nat \ {0}
  /\ Reserve <= PriceCap /\ BidSeconds <= PhaseMax
  /\ {SnipeWindow, SnipeExtension, PhaseMax, ClaimWindow, OtherCustody, AuctionEnd} \subseteq Nat

VARIABLES auction,   \* the Auction record, with the winner
          bidders,   \* the index of bidders, in the order of their bids
          bid,       \* bid[b]: the SealedBid of b
          escrow,    \* the Escrow record
          custody,   \* the contract's balance of the payment asset
          bidPaused,
          ledgerTime

auctionVars == <<auction, bidders, bid, escrow, custody, bidPaused, ledgerTime>>

NoBid    == [sealed |-> FALSE, price |-> 0, revealed |-> FALSE, refunded |-> FALSE, forfeited |-> FALSE]
NoEscrow == [amount |-> 0, state |-> "none"]

Has(b) == bid[b].sealed
InAuction(phases) == auction.phase \in phases
AuctionPhases == {"None", "Bidding", "Reveal", "Awarded", "Cancelled"}

AuctionTypeOK ==
  /\ auction \in [phase : AuctionPhases, deadline : Nat, revealDeadline : Nat,
                  winner : Bidders \cup {"nobody"}]
  /\ bidders \in Seq(Bidders)
  /\ bid \in [Bidders -> [sealed : BOOLEAN, price : BidPrices \cup {0}, revealed : BOOLEAN,
                          refunded : BOOLEAN, forfeited : BOOLEAN]]
  /\ escrow \in [amount : BidPrices \cup {0}, state : {"none", "locked", "released", "refunded"}]
  /\ custody \in Nat /\ bidPaused \in BOOLEAN /\ ledgerTime \in 0 .. AuctionEnd

AuctionInit ==
  /\ auction = [phase |-> "None", deadline |-> 0, revealDeadline |-> 0, winner |-> "nobody"]
  /\ bidders = <<>> /\ bid = [b \in Bidders |-> NoBid] /\ escrow = NoEscrow
  /\ custody = OtherCustody /\ bidPaused = FALSE /\ ledgerTime = 0

Unpaused == ~bidPaused /\ UNCHANGED <<bidPaused, ledgerTime>>

\* push_funds: a transfer that the balance does not cover fails the call.
PushFunds(amount) == custody >= amount /\ custody' = custody - amount
PullFunds(amount) == custody' = custody + amount

-----------------------------------------------------------------------------
\* The creator's whole budget is locked with the auction.
CreateAuction ==
  /\ Unpaused /\ InAuction({"None"})
  /\ auction' = [auction EXCEPT !.phase = "Bidding", !.deadline = ledgerTime + BidSeconds,
                                !.revealDeadline = ledgerTime + BidSeconds + RevealSeconds]
  /\ PullFunds(PriceCap)
  /\ UNCHANGED <<bidders, bid, escrow>>

\* A bid shortly before the deadline moves the deadlines, up to the cap of a phase;
\* the auction is created at time 0.
Extension ==
  IF auction.deadline - ledgerTime <= SnipeWindow
  THEN (IF auction.deadline + SnipeExtension < PhaseMax
        THEN auction.deadline + SnipeExtension ELSE PhaseMax) - auction.deadline
  ELSE 0

SubmitBid(b, price) ==
  /\ Unpaused /\ InAuction({"Bidding"})
  /\ ledgerTime < auction.deadline
  /\ ~Has(b)
  /\ bid' = [bid EXCEPT ![b] = [NoBid EXCEPT !.sealed = TRUE, !.price = price]]
  /\ bidders' = Append(bidders, b)
  /\ auction' = [auction EXCEPT !.deadline = @ + Extension, !.revealDeadline = @ + Extension]
  /\ PullFunds(BondSize)
  /\ UNCHANGED escrow

RevealBid(b) ==
  /\ Unpaused /\ InAuction({"Bidding"})
  /\ auction.deadline <= ledgerTime /\ ledgerTime < auction.revealDeadline
  /\ Has(b) /\ ~bid[b].revealed
  /\ bid[b].price \in Reserve .. PriceCap
  /\ bid' = [bid EXCEPT ![b].revealed = TRUE]
  /\ UNCHANGED <<auction, bidders, escrow, custody>>

-----------------------------------------------------------------------------
RevealedSet == {b \in Bidders : bid[b].revealed}

Least(S) == CHOOSE x \in S : \A y \in S : x <= y
Most(S)  == CHOOSE x \in S : \A y \in S : x >= y

ScaledRatio(numerator, denominator) ==
  IF denominator = 0 THEN 1000 ELSE (1000 * numerator) \div denominator

Score(b) ==
  LET prices == {bid[x].price : x \in RevealedSet}
      reps   == {RepOf[x] : x \in RevealedSet} IN
  (60 * ScaledRatio(Most(prices) - bid[b].price, Most(prices) - Least(prices))
     + 40 * ScaledRatio(RepOf[b] - Least(reps), Most(reps) - Least(reps))) \div 100

Beats(a, b) ==
  \/ Score(a) > Score(b)
  \/ Score(a) = Score(b) /\ bid[a].price < bid[b].price

\* The loop over the revealed bids, in the order of the index.
Winner ==
  LET best[i \in 0 .. Len(bidders)] ==
        IF i = 0 THEN "nobody"
        ELSE IF bid[bidders[i]].revealed
                /\ (best[i - 1] = "nobody" \/ Beats(bidders[i], best[i - 1]))
             THEN bidders[i] ELSE best[i - 1]
  IN best[Len(bidders)]

\* reveal_bids, by anyone.
FinaliseReveals ==
  /\ Unpaused /\ InAuction({"Bidding"})
  /\ auction.deadline <= ledgerTime
  /\ auction.revealDeadline <= ledgerTime \/ \A b \in Bidders : Has(b) => bid[b].revealed
  /\ RevealedSet # {}
  /\ auction' = [auction EXCEPT !.phase = "Reveal", !.winner = Winner]
  /\ UNCHANGED <<bidders, bid, escrow, custody>>

Refund(b) ==
  /\ Has(b) /\ ~bid[b].refunded
  /\ bid' = [bid EXCEPT ![b].refunded = TRUE]
  /\ PushFunds(BondSize)
  /\ UNCHANGED <<auction, bidders, escrow>>

\* A bidder who lost need not wait for the award.
ClaimBidRefund(b) ==
  /\ Unpaused /\ InAuction({"Reveal"})
  /\ b # auction.winner
  /\ Refund(b)

\* A bidder whose auction does not get on.
ClaimRefund(b) ==
  /\ Unpaused /\ ~InAuction({"None"})
  /\ auction.deadline <= ledgerTime /\ ledgerTime < auction.deadline + ClaimWindow
  /\ Refund(b)

\* Mutant: the award settles the bonds that were refunded before, too.
MutantUnsettled == {b \in Bidders : Has(b) /\ ~bid[b].forfeited}

Unsettled == {b \in Bidders : Has(b) /\ ~bid[b].refunded /\ ~bid[b].forfeited}

\* By the creator or the winner: revealed bonds go back, the others to the creator
\* together with the unused budget; the price stays as escrow.
AwardContract ==
  /\ Unpaused /\ InAuction({"Reveal"})
  /\ bid' = [b \in Bidders |-> IF b \notin Unsettled THEN bid[b]
                               ELSE IF bid[b].revealed THEN [bid[b] EXCEPT !.refunded = TRUE]
                               ELSE [bid[b] EXCEPT !.forfeited = TRUE]]
  /\ escrow' = [amount |-> bid[auction.winner].price, state |-> "locked"]
  /\ auction' = [auction EXCEPT !.phase = "Awarded"]
  /\ PushFunds(Cardinality(Unsettled) * BondSize + PriceCap - bid[auction.winner].price)
  /\ UNCHANGED bidders

\* By anyone, when nobody has revealed: everything goes back.
AbortAuction ==
  /\ Unpaused /\ InAuction({"Bidding"})
  /\ auction.revealDeadline <= ledgerTime /\ RevealedSet = {}
  /\ bid' = [b \in Bidders |-> IF b \in Unsettled THEN [bid[b] EXCEPT !.refunded = TRUE] ELSE bid[b]]
  /\ auction' = [auction EXCEPT !.phase = "Cancelled"]
  /\ PushFunds(Cardinality(Unsettled) * BondSize + PriceCap)
  /\ UNCHANGED <<bidders, escrow>>

\* release_escrow, by the creator, and refund_escrow, by the admin.
SettleEscrow(how) ==
  /\ Unpaused /\ escrow.state = "locked"
  /\ escrow' = [escrow EXCEPT !.state = how]
  /\ PushFunds(escrow.amount)
  /\ UNCHANGED <<auction, bidders, bid>>

\* pause, unpause, set_paused and pause_by_pause_admin.
TogglePause ==
  /\ bidPaused' = ~bidPaused
  /\ UNCHANGED <<auction, bidders, bid, escrow, custody, ledgerTime>>

LedgerCloses ==
  /\ ~InAuction({"None"}) /\ ledgerTime < AuctionEnd
  /\ ledgerTime' = ledgerTime + 1
  /\ UNCHANGED <<auction, bidders, bid, escrow, custody, bidPaused>>

AuctionNext ==
  \/ CreateAuction \/ FinaliseReveals \/ AwardContract \/ AbortAuction
  \/ SettleEscrow("released") \/ SettleEscrow("refunded")
  \/ TogglePause \/ LedgerCloses
  \/ \E b \in Bidders :
       \/ RevealBid(b) \/ ClaimBidRefund(b) \/ ClaimRefund(b)
       \/ \E price \in BidPrices : SubmitBid(b, price)

AuctionSpec == AuctionInit /\ [][AuctionNext]_auctionVars

-----------------------------------------------------------------------------
Times(p) == IF p THEN 1 ELSE 0
\* What the contract still has of the bond of b.
Bonds == [b \in Bidders |->
            IF Has(b) THEN BondSize * (1 - Times(bid[b].refunded) - Times(bid[b].forfeited)) ELSE 0]

\* What it still has of the creator's money.
Budget == CASE auction.phase \in {"Bidding", "Reveal"} -> PriceCap
            [] escrow.state = "locked" -> escrow.amount
            [] OTHER -> 0

\* Custody is the creator's budget or the escrow, the bonds of bids and what belongs to
\* other auctions, less what refunds, forfeits, awards and settlements paid out.
CustodyExact == custody = OtherCustody + Budget + SumFunctionOnSet(Bonds, Bidders)

PlaceOf(b) == CHOOSE i \in DOMAIN bidders : bidders[i] = b

\* The documented choice: the best score of the revealed bids, then the lowest price,
\* then the earliest bid; and a bid that was not revealed cannot win.
WinnerIsBest ==
  auction.winner # "nobody" =>
    /\ bid[auction.winner].revealed
    /\ \A b \in RevealedSet \ {auction.winner} :
         \/ Score(b) < Score(auction.winner)
         \/ Score(b) = Score(auction.winner) /\ bid[b].price > bid[auction.winner].price
         \/ Score(b) = Score(auction.winner) /\ bid[b].price = bid[auction.winner].price
            /\ PlaceOf(b) > PlaceOf(auction.winner)

\* A bond is paid out once: to the bidder, or to the creator when it is forfeited.
BondsLeaveOnce == \A b \in Bidders : ~(bid[b].refunded /\ bid[b].forfeited)

\* The contract holds what it owes, and the best bid wins.
AuctionInv == AuctionTypeOK /\ CustodyExact /\ WinnerIsBest
=============================================================================
