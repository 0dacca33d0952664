----------------------------- MODULE MCMarkets -----------------------------
(***************************************************************************)
(* Auctions, bookings, votes, upgrades and the ledger of tasks: contracts   *)
(* that share no state.  As in MCBackend, `part` says which of them a       *)
(* behaviour is about.                                                      *)
(***************************************************************************)
EXTENDS AgentBidding, AgentMarketplace, AgentGovernance, UpgradeManager, TaskLedger, TLC

CONSTANTS b1, b2, b3, g1, l1, l2, m1, m2, u1, u2

VARIABLE part

MCRepOf     == (b1 :> 0) @@ (b2 :> 1) @@ (b3 :> 1)
MCOfferOf   == (l1 :> <<g1, "c">>) @@ (l2 :> <<g1, "d">>)
MCVersionOf == (u1 :> 1) @@ (u2 :> 2)
MCMultisigs == {[admins |-> {m1, m2}, threshold |-> 2, delay |-> 1]}

MarketsInit ==
  /\ part \in {"auction", "market", "governance", "upgrades", "tasks", "prices"}
  /\ AuctionInit /\ MarketInit /\ GovernanceInit /\ UpgradeInit /\ TaskLedgerInit

Only(contract) ==
  /\ part = contract /\ UNCHANGED part
  /\ contract # "auction" => UNCHANGED auctionVars
  /\ contract # "market" => UNCHANGED marketVars
  /\ contract # "governance" => UNCHANGED governanceVars
  /\ contract # "upgrades" => UNCHANGED upgradeVars
  /\ contract \notin {"tasks", "prices"} => UNCHANGED taskLedgerVars

TasksPart  == StoreStep \/ (PriceTick /\ UNCHANGED storeVars)
PricesPart ==
  \/ \E t \in LedgerTasks, by \in Accounts : StoreTaskMetadata(t, by)
  \/ SetOracleManager
  \/ (PriceStep \/ PriceTick) /\ UNCHANGED storeVars

MarketsNext ==
  \/ Only("auction") /\ AuctionNext
  \/ Only("market") /\ MarketNext
  \/ Only("governance") /\ GovernanceNext
  \/ Only("upgrades") /\ UpgradeNext
  \/ Only("tasks") /\ TasksPart
  \/ Only("prices") /\ PricesPart

marketsVars == <<part, auctionVars, marketVars, governanceVars, upgradeVars, taskLedgerVars>>

MarketsSpec == MarketsInit /\ [][MarketsNext]_marketsVars
=============================================================================
