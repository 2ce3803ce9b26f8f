--------------------------- MODULE LegacyMarkets ----------------------------
(***************************************************************************)
(* The legacy tip jar's markets, funds and feeds.  All of them hold their  *)
(* tokens in the one account of the jar, next to the creators' balances.   *)
(* A behaviour exercises one of them, chosen at the start, and tips.       *)
(***************************************************************************)
EXTENDS LegacyAmm, LegacyFutures, LegacyMarketMaking, LegacyFunding, LegacyOracles

CONSTANTS
  Tips,       \* the tips that arrive
  MaxCalls,   \* bound: for each market, the calls of a behaviour
  MaxOpen     \* bound: the pools, contracts, rounds... of a behaviour

ASSUME MarketsAssumption ==
  \A k \in Tips : /\ k.sender \in Party /\ k.creator \in Party /\ k.token \in Token
                  /\ k.amount \in Nat

VARIABLES
  focus,      \* the market this behaviour exercises
  calls       \* the calls it made so far

vars == <<focus, calls, ledgerVars, pools, predictionVars, futuresVars, stopVars, makerVars,
          curves, miningVars, fundingVars, funds, oracleVars>>

Init ==
  /\ focus \in DOMAIN MaxCalls
  /\ calls = 0
  /\ LedgerInit
  /\ AmmInit
  /\ PredictionInit
  /\ FuturesInit
  /\ StopLossInit
  /\ MarketMakingInit
  /\ BondingCurveInit
  /\ MiningInit
  /\ FundingInit
  /\ IndexFundInit
  /\ OraclesInit

Bounded ==
  \A n \in {Len(pools), Len(markets), Len(futures), Len(orders), Len(makers), Len(curves),
            Len(programs), Len(rounds), Len(retros), Len(funds), Len(oracles), Len(indices)} :
    n <= MaxOpen

Market ==
  /\ \/ focus = "amm" /\ AmmNext
     \/ focus = "prediction" /\ PredictionNext
     \/ focus = "futures" /\ FuturesNext
     \/ focus = "stops" /\ StopLossNext
     \/ focus = "makers" /\ MarketMakingNext
     \/ focus = "curves" /\ BondingCurveNext
     \/ focus = "mining" /\ MiningNext
     \/ focus = "quadratic" /\ QuadraticNext
     \/ focus = "retro" /\ RetroNext
     \/ focus = "funds" /\ IndexFundNext
     \/ focus = "twap" /\ TwapNext
     \/ focus = "volatility" /\ VolatilityNext
  /\ UNCHANGED <<books, adminVars, breaker, drift, now>>
  /\ IF focus = "amm" THEN TRUE ELSE UNCHANGED pools
  /\ IF focus = "prediction" THEN TRUE ELSE UNCHANGED predictionVars
  /\ IF focus = "futures" THEN TRUE ELSE UNCHANGED futuresVars
  /\ IF focus = "stops" THEN TRUE ELSE UNCHANGED stopVars
  /\ IF focus = "makers" THEN TRUE ELSE UNCHANGED makerVars
  /\ IF focus = "curves" THEN TRUE ELSE UNCHANGED curves
  /\ IF focus = "mining" THEN TRUE ELSE UNCHANGED miningVars
  /\ IF focus \in {"quadratic", "retro"} THEN TRUE ELSE UNCHANGED fundingVars
  /\ IF focus = "funds" THEN TRUE ELSE UNCHANGED funds
  /\ IF focus \in {"twap", "volatility"} THEN TRUE ELSE UNCHANGED oracleVars
  /\ Bounded'

\* What the markets see of a tip (its checks, fees and followers are in LegacyTips): it
\* fills the jar with what is not theirs, and moves the totals retroactive rounds read.
Tip ==
  /\ focus \in {"curves", "retro"}
  /\ \E k \in Tips : /\ Pay(k.token, k.sender, Jar, k.amount)
                     /\ books' = CreditTo(books, k.creator, k.token, k.amount, k.amount, 0, 0)
  /\ UNCHANGED <<adminVars, breaker, drift, now>>

Next ==
  /\ calls < MaxCalls[focus]
  /\ calls' = calls + 1
  /\ UNCHANGED focus
  /\ \/ Market
     \/ /\ Tip \/ Tick
        /\ UNCHANGED <<pools, predictionVars, futuresVars, stopVars, makerVars, curves, miningVars,
                       fundingVars, funds, oracleVars>>

Spec == Init /\ [][Next]_vars

\* The same with all the markets side by side: between calls, a behaviour may turn to
\* another market and its count of calls may start over.
marketVars == <<ledgerVars, pools, predictionVars, futuresVars, stopVars, makerVars, curves,
                miningVars, fundingVars, funds, oracleVars>>
MarketsSpec == Init /\ [][Next]_marketVars

\* What the jar holds of each token is what the records of the creators and of every
\* market add up to, all of them in one account: no trade, settlement, claim or
\* cancellation moves tokens that its own market's record does not follow.  Where the
\* code leaves a payment out of the record, the term subtracts it, so that there is no
\* other cause: rewards of pools, the tip tokens that curves send, what retroactive
\* rounds paid.  What negative withdrawals gave to makers is no token and not counted.
MarketsAccounted ==
  \A t \in Token :
    wallet[t][Jar] = Recorded(t) + PoolHoldings(t) + MarketEscrow(t) + FuturesEscrow(t)
                       + StopEscrow(t) + MakerInventory(t) + CurveHoldings(t) + MiningHoldings(t)
                       + RoundEscrow(t) + FundHoldings(t)

\* Claims and the records they are paid from stay together over any order of calls: a
\* pool's shares are those of its providers, the winners' shares of a market fit in
\* its bets, positions match their margins and settle within them, makers have no less
\* than nothing and, once closed, nothing that was ever brought in, mining pays what was
\* funded and vested, a quadratic round pays out what it took in and a fund's shares its
\* value.  The rewards of pools, curves and retroactive rounds are paid without such a
\* record.
ClaimsBacked ==
  /\ SharesAddUp
  /\ ClaimsCovered
  /\ PositionsCover
  /\ SettledWithinMargins
  /\ MakersSound
  /\ RewardsVested
  /\ RoundsPaidOut
  /\ FundsRedeemable

\* What is read off the records is what went into them: the average of a feed, the
\* latest index, the votes of a round, the list of active markets.
FeedsTrue ==
  /\ TwapIsAverage
  /\ IndexIsLatest
  /\ VotesCast
  /\ ActiveMarketsUnsettled

\* Prices move one way only, whoever calls what: the value behind a pool's share never
\* falls, a trailing stop never falls, and a curve's price follows its supply.
PricesMonotone ==
  /\ ShareValueKept
  /\ StopsOnlyRise
  /\ PriceFollowsSupply

-----------------------------------------------------------------------------
\* The inductive invariant behind the theorems of LegacyMarketsProofs.
MarketsInv ==
  /\ LedgerTypeOK
  /\ books.credit = PerParty(PerToken(None))
  /\ AmmInv
  /\ FuturesInv
  /\ PredictionInv
  /\ MakersInv
  /\ StopsInv
  /\ RoundsInv
  /\ RetrosInv
  /\ FundsInv
  /\ MiningInv
  /\ MarketsAccounted
=============================================================================
