-------------------------- MODULE AgentMarketplace --------------------------
(***************************************************************************)
(* The agent marketplace contract                                          *)
(* (src/smart-contracts/contracts/agent_marketplace/src/lib.rs): services  *)
(* are listed, booked with the payment in the contract's custody, and      *)
(* completed or cancelled; privileged changes wait out a timelock, and one *)
(* of them is a change of the payment asset while bookings are open.       *)
(***************************************************************************)
EXTENDS Naturals, FiniteSets, Functions

CONSTANTS Listings, Bookings, Assets, FirstAsset,
          OfferOf,        \* OfferOf[l]: the agent and capability of a listing
          ListPrices,
          TimelockDelay, MinimumListing,
          AssetReserve,   \* what the contract holds of each asset besides bookings
          MarketEnd       \* bound on the ledger's time

ASSUME MarketAssumption ==
  /\ IsFiniteSet(Bookings) /\ IsFiniteSet(Assets) /\ FirstAsset \in Assets
  /\ ListPrices \subseteq Nat \ {0}
  /\ {TimelockDelay, MinimumListing, AssetReserve, MarketEnd} \subseteq Nat

VARIABLES listing,       \* listing[l]: the ServiceListing, with its last price change
          booking,       \* booking[k]: the Booking
          funds,         \* funds[a]: the contract's balance of asset a
          payAsset,      \* the configured PaymentAsset
          queued,        \* queued admin actions with their eta
          marketPaused,
          ratingOf,      \* ratingOf[agent]: the AgentRating
          marketTime

marketVars == <<listing, booking, funds, payAsset, queued, marketPaused, ratingOf, marketTime>>

Agents == {OfferOf[l][1] : l \in Listings}
AdminActions == {"unpause"} \cup Assets
NoListing == [active |-> FALSE, price |-> 0, since |-> 0]

MarketTypeOK ==
  /\ listing \in [Listings -> [active : BOOLEAN, price : ListPrices \cup {0}, since : 0 .. MarketEnd]]
  /\ booking \in [Bookings -> [state : {"none", "open", "completed", "cancelled"},
                               of : Listings \cup {"none"}, amount : Nat, rating : 0 .. 5]]
  /\ funds \in [Assets -> Nat] /\ payAsset \in Assets
  /\ queued \subseteq AdminActions \X (0 .. MarketEnd + TimelockDelay)
  /\ marketPaused \in BOOLEAN
  /\ ratingOf \in [Agents -> [total : Nat, sum : Nat]]
  /\ marketTime \in 0 .. MarketEnd

MarketInit ==
  /\ listing = [l \in Listings |-> NoListing]
  /\ booking = [k \in Bookings |-> [state |-> "none", of |-> "none", amount |-> 0, rating |-> 0]]
  /\ funds = [a \in Assets |-> AssetReserve] /\ payAsset = FirstAsset
  /\ queued = {} /\ marketPaused = FALSE
  /\ ratingOf = [g \in Agents |-> [total |-> 0, sum |-> 0]]
  /\ marketTime = 0

Trading == ~marketPaused /\ UNCHANGED <<payAsset, queued, marketPaused, marketTime>>

-----------------------------------------------------------------------------
\* One active listing for an agent's capability; agents are eligible.
ListService(l, price) ==
  /\ Trading
  /\ listing[l] = NoListing
  /\ ~\E x \in Listings : OfferOf[x] = OfferOf[l] /\ listing[x].active
  /\ listing' = [listing EXCEPT ![l] = [active |-> TRUE, price |-> price, since |-> marketTime]]
  /\ UNCHANGED <<booking, funds, ratingOf>>

UpdateListingPrice(l, price) ==
  /\ Trading
  /\ listing[l].active /\ marketTime - listing[l].since >= MinimumListing
  /\ listing' = [listing EXCEPT ![l].price = price, ![l].since = marketTime]
  /\ UNCHANGED <<booking, funds, ratingOf>>

\* A client may pay more than the price.
BookAgent(k, l, amount) ==
  /\ Trading
  /\ listing[l].active /\ amount >= listing[l].price
  /\ booking[k].state = "none"
  /\ booking' = [booking EXCEPT ![k] = [state |-> "open", of |-> l, amount |-> amount, rating |-> 0]]
  /\ funds' = [funds EXCEPT ![payAsset] = @ + amount]
  /\ UNCHANGED <<listing, ratingOf>>

\* Mutant: what was cancelled can still be completed.
MutantOpen(k) == booking[k].state \in {"open", "cancelled"}

Open(k) == booking[k].state = "open"

\* complete_booking pays the agent's owner, cancel_booking the client, in the asset that
\* is configured by then.
CloseBooking(k, how) ==
  /\ Trading /\ Open(k)
  /\ funds[payAsset] >= booking[k].amount
  /\ booking' = [booking EXCEPT ![k].state = how]
  /\ funds' = [funds EXCEPT ![payAsset] = @ - booking[k].amount]
  /\ UNCHANGED <<listing, ratingOf>>

Rateable(k) == booking[k].state = "completed" /\ booking[k].rating = 0

RateBooking(k, rating) ==
  /\ Trading /\ Rateable(k)
  /\ booking' = [booking EXCEPT ![k].rating = rating]
  /\ ratingOf' = [ratingOf EXCEPT ![OfferOf[booking[k].of][1]] =
                    [total |-> @.total + 1, sum |-> @.sum + rating]]
  /\ UNCHANGED <<listing, funds>>

-----------------------------------------------------------------------------
Bookkeeping == UNCHANGED <<listing, booking, funds, ratingOf, marketTime>>

PauseMarket ==
  /\ ~marketPaused
  /\ marketPaused' = TRUE
  /\ UNCHANGED <<payAsset, queued>> /\ Bookkeeping

QueueAction(action) ==
  /\ queued = {}
  /\ queued' = {<<action, marketTime + TimelockDelay>>}
  /\ UNCHANGED <<payAsset, marketPaused>> /\ Bookkeeping

ExecuteAction(q) ==
  /\ q \in queued /\ q[2] <= marketTime
  /\ queued' = queued \ {q}
  /\ marketPaused' = IF q[1] = "unpause" THEN FALSE ELSE marketPaused
  /\ payAsset' = IF q[1] = "unpause" THEN payAsset ELSE q[1]
  /\ Bookkeeping

CancelAction(q) ==
  /\ q \in queued
  /\ queued' = queued \ {q}
  /\ UNCHANGED <<payAsset, marketPaused>> /\ Bookkeeping

MarketTick ==
  /\ marketTime < MarketEnd
  /\ marketTime' = marketTime + 1
  /\ UNCHANGED <<listing, booking, funds, payAsset, queued, marketPaused, ratingOf>>

MarketNext ==
  \/ \E l \in Listings, price \in ListPrices :
       \/ ListService(l, price) \/ UpdateListingPrice(l, price)
       \/ \E k \in Bookings : BookAgent(k, l, price)
  \/ \E k \in Bookings :
       \/ CloseBooking(k, "completed") \/ CloseBooking(k, "cancelled")
       \/ \E rating \in {1, 5} : RateBooking(k, rating)
  \/ PauseMarket \/ MarketTick
  \/ \E action \in AdminActions : QueueAction(action)
  \/ \E q \in queued : ExecuteAction(q) \/ CancelAction(q)

MarketSpec == MarketInit /\ [][MarketNext]_marketVars

-----------------------------------------------------------------------------
Held == [k \in Bookings |-> IF booking[k].state = "open" THEN booking[k].amount ELSE 0]

\* What the contract holds besides its reserve is what open bookings have paid in,
\* counted over all assets: each booking pays out once, whatever its client and the
\* owner attempt, and a change of asset creates and destroys nothing.
EscrowsBalance ==
  SumFunctionOnSet(funds, Assets)
    = AssetReserve * Cardinality(Assets) + SumFunctionOnSet(Held, Bookings)

Rated(g) == {k \in Bookings : booking[k].rating > 0 /\ OfferOf[booking[k].of][1] = g}
RatingFor(g) == [k \in Bookings |-> IF k \in Rated(g) THEN booking[k].rating ELSE 0]

\* An agent's aggregate rating is that of its completed bookings.
RatingsAddUp ==
  \A g \in Agents :
    ratingOf[g] = [total |-> Cardinality(Rated(g)), sum |-> SumFunctionOnSet(RatingFor(g), Bookings)]

\* The contract holds what open bookings paid in, and ratings add up.
MarketInv == MarketTypeOK /\ EscrowsBalance /\ RatingsAddUp
=============================================================================
