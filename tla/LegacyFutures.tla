---------------------------- MODULE LegacyFutures ---------------------------
(***************************************************************************)
(* Futures of the legacy tip jar: a long opens a contract, a short matches *)
(* it, both put up margin, and the difference in price is settled in cash  *)
(* or the side that fell below its maintenance margin is liquidated.       *)
(***************************************************************************)
EXTENDS LegacyLedger, SequencesExt

CONSTANTS
  Margins,        \* what the admin sets with set_futures_config
  Prices,         \* contract prices, mark prices and final prices
  Sizes,          \* sizes of contracts
  MinSize,        \* MIN_CONTRACT_SIZE
  PriceUnit,      \* PRICE_PRECISION
  Terms           \* times until settlement

ASSUME FuturesAssumption ==
  /\ \A m \in Margins : m.initial \in Nat /\ m.maintenance \in Nat /\ m.penalty \in Nat
  /\ Prices \subseteq Nat /\ Sizes \subseteq Nat /\ Terms \subseteq Nat
  /\ PriceUnit \in Nat \ {0}
  /\ None \notin Party

VARIABLES
  margins,        \* DataKey::FuturesConfig
  futures,        \* DataKey::FuturesContract
  traders,        \* DataKey::FuturesPosition
  activeFutures   \* DataKey::FuturesActiveContracts

futuresVars == <<margins, futures, traders, activeFutures>>

Side == {"Long", "Short"}

FuturesInit ==
  /\ margins \in Margins
  /\ futures = <<>>
  /\ traders = PerParty([count |-> [s \in Side |-> 0], margin |-> 0, pnl |-> 0])
  /\ activeFutures = {}

Closed(f) == f.status \in {"Settled", "Liquidated", "Cancelled"}

set_futures_config(m) ==
  /\ m.maintenance < m.initial
  /\ margins' = m
  /\ UNCHANGED <<wallet, futures, traders, activeFutures>>

Notional(size, price) == (size * price) \div PriceUnit
required_margin(size, price, bps) == (Notional(size, price) * bps) \div Bps

Moved(r, side, count, margin) == [r EXCEPT !.count[side] = count, !.margin = margin]
Joined(p, side, x) ==
  LET r == traders[p]
  IN  traders' = [traders EXCEPT ![p] = Moved(r, side, r.count[side] + 1, r.margin + x)]
\* The counts stop at 0.
Left(ps, p, side, x) ==
  LET r == ps[p]
  IN  [ps EXCEPT ![p] = Moved(r, side, Larger(r.count[side] - 1, 0), r.margin - x)]

open_long(p, t, price, size, n) ==
  LET x == required_margin(size, price, margins.initial)
  IN  /\ Pay(t, p, Jar, x)
      /\ futures' = Append(futures,
           [party |-> [s \in Side |-> IF s = "Long" THEN p ELSE None],
            margin |-> [s \in Side |-> IF s = "Long" THEN x ELSE 0],
            token |-> t, price |-> price, size |-> size, settles_at |-> now + n,
            status |-> "Active", pnl |-> 0, terms |-> margins])
      /\ activeFutures' = activeFutures \cup {Len(futures) + 1}
      /\ Joined(p, "Long", x)
      /\ UNCHANGED margins
open_futures(p, t, price, size, n) ==
  /\ require_not_paused
  /\ size >= MinSize
  /\ n > 0
  /\ Whitelisted(t)
  /\ open_long(p, t, price, size, n)

Active(i) == futures[i].status = "Active"
Unmatched(i) == Active(i) /\ futures[i].party["Short"] = None

match_short(p, i) ==
  LET f == futures[i]
      x == required_margin(f.size, f.price, f.terms.initial)
  IN  /\ Pay(f.token, p, Jar, x)
      /\ futures' = [futures EXCEPT ![i] = [f EXCEPT !.party["Short"] = p, !.margin["Short"] = x]]
      /\ Joined(p, "Short", x)
      /\ UNCHANGED <<margins, activeFutures>>
match_futures(p, i) == require_not_paused /\ Unmatched(i) /\ match_short(p, i)

Gain(f, price) == Quotient((price - f.price) * f.size, PriceUnit)

update_mark_price(i, price) ==
  /\ futures' = [futures EXCEPT ![i].pnl = Gain(futures[i], price)]
  /\ UNCHANGED <<wallet, margins, traders, activeFutures>>
update_futures_mark_price(i, price) == Active(i) /\ update_mark_price(i, price)

add_margin(p, i, side, x) ==
  /\ futures[i].party[side] = p
  /\ Pay(futures[i].token, p, Jar, x)
  /\ futures' = [futures EXCEPT ![i].margin[side] = @ + x]
  /\ traders' = [traders EXCEPT ![p].margin = @ + x]
  /\ UNCHANGED <<margins, activeFutures>>
add_futures_margin(p, i, side, x) ==
  require_not_paused /\ Active(i) /\ add_margin(p, i, side, x)

Close(i, status, pnl) ==
  /\ futures' = [futures EXCEPT ![i] = [@ EXCEPT !.status = status, !.pnl = pnl]]
  /\ activeFutures' = activeFutures \ {i}
  /\ UNCHANGED margins

\* From accounts w on, the jar pays both parties.
PayOut(w, t, p, x, q, y) ==
  /\ w[t][Jar] >= x + y
  /\ wallet' = Transfer(Transfer(w, t, Jar, p, x), t, Jar, q, y)

Effective(f, side) == f.margin[side] + IF side = "Long" THEN f.pnl ELSE -f.pnl
Liquidatable(f, side) ==
  Effective(f, side) < required_margin(f.size, f.price, f.terms.maintenance)
Other(side) == IF side = "Long" THEN "Short" ELSE "Long"

\* Each gets back its own margin, the weak side less the penalty: the gain of
\* the other side is not paid, and its position is left as it was.
liquidate(p, i) ==
  LET f == futures[i]
      weak == IF Liquidatable(f, "Long") THEN "Long" ELSE "Short"
      penalty == Smaller((Notional(f.size, f.price) * f.terms.penalty) \div Bps, f.margin[weak])
  IN  /\ PayOut(Transfer(wallet, f.token, Jar, p, penalty), f.token,
                f.party[weak], f.margin[weak] - penalty, f.party[Other(weak)], f.margin[Other(weak)])
      /\ traders' = Left(traders, f.party[weak], weak, f.margin[weak])
      /\ Close(i, "Liquidated", f.pnl)
liquidate_futures(p, i) ==
  /\ Active(i) /\ ~Unmatched(i)
  /\ \E side \in Side : Liquidatable(futures[i], side)
  /\ liquidate(p, i)

\* Also a contract that nobody has matched, which then can no longer be cancelled.
mark_pending(i) ==
  /\ futures' = [futures EXCEPT ![i].status = "PendingSettlement"]
  /\ UNCHANGED <<wallet, margins, traders, activeFutures>>

mark_futures_pending(i) == Active(i) /\ now >= futures[i].settles_at /\ mark_pending(i)

\* What the short pays the long, or the long the short if negative: at most the
\* margin of the side that lost.
Exchanged(f, pnl) ==
  IF pnl >= 0 THEN Smaller(pnl, f.margin["Short"]) ELSE -Smaller(-pnl, f.margin["Long"])

settle(i, price) ==
  LET f == futures[i]
      pnl == Gain(f, price)
      x == Exchanged(f, pnl)
      out == Left(Left(traders, f.party["Long"], "Long", f.margin["Long"]),
                  f.party["Short"], "Short", f.margin["Short"])
  IN  /\ PayOut(wallet, f.token, f.party["Long"], f.margin["Long"] + x,
                f.party["Short"], f.margin["Short"] - x)
      /\ traders' = [p \in Party |-> [out[p] EXCEPT
           !.pnl = @ + (IF p = f.party["Long"] THEN pnl ELSE 0)
                     - (IF p = f.party["Short"] THEN pnl ELSE 0)]]
      /\ Close(i, "Settled", pnl)
settle_futures(i, price) ==
  /\ ~Closed(futures[i])
  /\ futures[i].party["Short"] # None
  /\ now >= futures[i].settles_at
  /\ settle(i, price)

cancel_contract(p, i) ==
  LET f == futures[i]
  IN  /\ Pay(f.token, Jar, p, f.margin["Long"])
      /\ traders' = Left(traders, p, "Long", f.margin["Long"])
      /\ Close(i, "Cancelled", f.pnl)
cancel_futures(p, i) ==
  Unmatched(i) /\ futures[i].party["Long"] = p /\ cancel_contract(p, i)

FuturesNext ==
  \/ \E m \in Margins : set_futures_config(m)
  \/ \E p \in Party, t \in Token, price \in Prices, size \in Sizes, n \in Terms :
       open_futures(p, t, price, size, n)
  \/ \E i \in DOMAIN futures :
       \/ \E price \in Prices : update_futures_mark_price(i, price) \/ settle_futures(i, price)
       \/ mark_futures_pending(i)
       \/ \E p \in Party :
            \/ match_futures(p, i) \/ liquidate_futures(p, i) \/ cancel_futures(p, i)
            \/ \E side \in Side, x \in Amounts : add_futures_margin(p, i, side, x)

-----------------------------------------------------------------------------
\* What the jar holds of a token as margin.
MarginHeld(f, t) ==
  IF f.token = t /\ ~Closed(f) THEN f.margin["Long"] + f.margin["Short"] ELSE 0
FuturesEscrow(t) == SumFunction([i \in DOMAIN futures |-> MarginHeld(futures[i], t)])

\* What an open contract holds for a trader, who may be on both sides of it.
HeldFor(f, p) ==
  IF Closed(f) THEN 0
  ELSE (IF f.party["Long"] = p THEN f.margin["Long"] ELSE 0)
         + (IF f.party["Short"] = p THEN f.margin["Short"] ELSE 0)

\* However contracts were matched, topped up, liquidated and settled, a trader's
\* position never shows less margin than its open contracts hold for it.
PositionsCover ==
  \A p \in Party :
    traders[p].margin >= SumFunction([i \in DOMAIN futures |-> HeldFor(futures[i], p)])

\* Settlement pays nobody more than the two margins, and neither side ends up owing.
SettledWithinMargins ==
  \A i \in DOMAIN futures : \A price \in Prices :
    ~Closed(futures[i]) =>
      LET f == futures[i]
          x == Exchanged(f, Gain(f, price))
      IN  f.margin["Long"] + x >= 0 /\ f.margin["Short"] - x >= 0

-----------------------------------------------------------------------------
(***************************************************************************)
(* Prediction markets of the legacy tip jar: bets on yes or no, a resolver *)
(* who names the outcome, and payouts in proportion to the stakes.         *)
(***************************************************************************)
CONSTANTS
  MinBet,         \* MIN_BET_AMOUNT
  BetFees,        \* fees of markets, in Bps
  MaxBetFee,      \* 1000
  CloseTimes      \* times until betting closes

ASSUME PredictionAssumption ==
  BetFees \subseteq Nat /\ CloseTimes \subseteq Nat

VARIABLES
  betFee,         \* DataKey::PredMarketFeeBps
  markets,        \* DataKey::PredMarket; paid is history: what was claimed of it
  stakes,         \* DataKey::PredBettorPosition
  activeMarkets   \* DataKey::PredActiveMarkets

predictionVars == <<betFee, markets, stakes, activeMarkets>>

Outcome == {"Yes", "No"}

PredictionInit ==
  /\ betFee \in BetFees
  /\ markets = <<>>
  /\ stakes = <<>>
  /\ activeMarkets = {}

set_pred_market_fee(r) ==
  /\ r <= MaxBetFee
  /\ betFee' = r
  /\ UNCHANGED <<wallet, markets, stakes, activeMarkets>>

create_market(resolver, t, n) ==
  /\ markets' = Append(markets, [resolver |-> resolver, token |-> t, closes_at |-> now + n,
                                 pool |-> [o \in Outcome |-> 0], status |-> "Open",
                                 winning |-> None, fee |-> betFee, paid |-> 0])
  /\ stakes' = Append(stakes, PerParty([stake |-> [o \in Outcome |-> 0], settled |-> FALSE]))
  /\ activeMarkets' = activeMarkets \cup {Len(markets) + 1}
  /\ UNCHANGED <<wallet, betFee>>
create_pred_market(resolver, t, n) ==
  require_not_paused /\ n > 0 /\ Whitelisted(t) /\ create_market(resolver, t, n)

place_bet(p, i, o, x) ==
  /\ x >= MinBet
  /\ markets[i].status = "Open"
  /\ now < markets[i].closes_at
  /\ Pay(markets[i].token, p, Jar, x)
  /\ markets' = [markets EXCEPT ![i].pool[o] = @ + x]
  /\ stakes' = [stakes EXCEPT ![i][p].stake[o] = @ + x]
  /\ UNCHANGED <<betFee, activeMarkets>>
place_pred_bet(p, i, o, x) == require_not_paused /\ place_bet(p, i, o, x)

close_pred_market(p, i) ==
  /\ markets[i].status = "Open"
  /\ p = markets[i].resolver \/ now >= markets[i].closes_at
  /\ markets' = [markets EXCEPT ![i].status = "Closed"]
  /\ UNCHANGED <<wallet, betFee, stakes, activeMarkets>>

Unsettled(i) == markets[i].status \in {"Open", "Closed"}

\* At any time, and also for no outcome: then nobody is paid.
resolve_market(i, o) ==
  /\ markets' = [markets EXCEPT ![i].status = "Resolved", ![i].winning = o]
  /\ activeMarkets' = activeMarkets \ {i}
  /\ UNCHANGED <<wallet, betFee, stakes>>
resolve_pred_market(p, i, o) ==
  Unsettled(i) /\ p = markets[i].resolver /\ resolve_market(i, o)

cancel_market(i) ==
  /\ markets' = [markets EXCEPT ![i].status = "Cancelled"]
  /\ activeMarkets' = activeMarkets \ {i}
  /\ UNCHANGED <<wallet, betFee, stakes>>
cancel_pred_market(p, i) ==
  Unsettled(i) /\ p \in {markets[i].resolver, Admin} /\ cancel_market(i)

Staked(s) == s.stake["Yes"] + s.stake["No"]
PoolOf(m) == m.pool["Yes"] + m.pool["No"]

calculate_payout(m, s) ==
  IF m.winning = None \/ s.stake[m.winning] = 0 THEN 0
  ELSE LET gross == (s.stake[m.winning] * PoolOf(m)) \div m.pool[m.winning]
       IN  gross - (gross * m.fee) \div Bps

Winnings(m, s) == IF m.status = "Cancelled" THEN Staked(s) ELSE calculate_payout(m, s)

\* Mutant: a claim does not settle the position.
claim_winnings_again(p, i) ==
  /\ ~Unsettled(i)
  /\ ~stakes[i][p].settled
  /\ LET x == Winnings(markets[i], stakes[i][p])
     IN  Pay(markets[i].token, Jar, p, x) /\ markets' = [markets EXCEPT ![i].paid = @ + x]
  /\ UNCHANGED <<betFee, stakes, activeMarkets>>

claim_winnings(p, i) ==
  /\ ~Unsettled(i)
  /\ ~stakes[i][p].settled
  /\ LET x == Winnings(markets[i], stakes[i][p])
     IN  Pay(markets[i].token, Jar, p, x) /\ markets' = [markets EXCEPT ![i].paid = @ + x]
  /\ stakes' = [stakes EXCEPT ![i][p].settled = TRUE]
  /\ UNCHANGED <<betFee, activeMarkets>>
claim_pred_winnings(p, i) == Staked(stakes[i][p]) > 0 /\ claim_winnings(p, i)

PredictionNext ==
  \/ \E r \in BetFees : set_pred_market_fee(r)
  \/ \E p \in Party, t \in Token, n \in CloseTimes : create_pred_market(p, t, n)
  \/ \E p \in Party, i \in DOMAIN markets :
       \/ \E o \in Outcome, x \in Amounts : place_pred_bet(p, i, o, x)
       \/ close_pred_market(p, i) \/ cancel_pred_market(p, i) \/ claim_pred_winnings(p, i)
       \/ \E o \in Outcome \cup {None} : resolve_pred_market(p, i, o)

\* What the jar holds for the markets in a token.
BetsHeld(m, t) == IF m.token = t THEN PoolOf(m) - m.paid ELSE 0
MarketEscrow(t) == SumFunction([i \in DOMAIN markets |-> BetsHeld(markets[i], t)])

\* A settled market can pay everyone who has not claimed yet, in whatever order
\* they come and however the payouts were rounded.
ClaimsCovered ==
  \A i \in DOMAIN markets : ~Unsettled(i) =>
    markets[i].paid
      + SumFunction([p \in Party |-> IF stakes[i][p].settled THEN 0
                                     ELSE Winnings(markets[i], stakes[i][p])]) <= PoolOf(markets[i])

\* The list of active markets is the markets not yet settled.
ActiveMarketsUnsettled == activeMarkets = {i \in DOMAIN markets : Unsettled(i)}

-----------------------------------------------------------------------------
\* What the variables range over, and the facts that every call keeps.
Contract ==
  [party : [Side -> Party \cup {None}], margin : [Side -> Nat], token : Token, price : Nat,
   size : Nat, settles_at : Int,
   status : {"Active", "PendingSettlement", "Settled", "Liquidated", "Cancelled"},
   pnl : Int, terms : Margins]
Trader == [count : [Side -> Int], margin : Int, pnl : Int]
PredMarket ==
  [resolver : Party, token : Token, closes_at : Int, pool : [Outcome -> Nat],
   status : {"Open", "Closed", "Resolved", "Cancelled"}, winning : Outcome \cup {None},
   fee : Nat, paid : Int]
Stake == [stake : [Outcome -> Nat], settled : BOOLEAN]

\* A contract has its long, and no margin on a side that nobody took.
ContractSound(f) ==
  f.party["Long"] # None /\ (f.party["Short"] = None => f.margin["Short"] = 0)
FuturesInv ==
  /\ margins \in Margins
  /\ futures \in Seq(Contract) /\ \A i \in DOMAIN futures : ContractSound(futures[i])
  /\ traders \in [Party -> Trader]
  /\ PositionsCover

\* A pool is the stakes in it, and what a market paid is the winnings of those who
\* claimed: nobody before it was settled.
MarketSound(m, s) ==
  /\ \A o \in Outcome : m.pool[o] = SumFunction([p \in Party |-> s[p].stake[o]])
  /\ m.paid = SumFunction([p \in Party |-> IF s[p].settled THEN Winnings(m, s[p]) ELSE 0])
  /\ m.status \in {"Open", "Closed"} => \A p \in Party : ~s[p].settled
PredictionInv ==
  /\ betFee \in Nat
  /\ markets \in Seq(PredMarket) /\ stakes \in Seq([Party -> Stake])
  /\ Len(markets) = Len(stakes)
  /\ \A i \in DOMAIN markets : MarketSound(markets[i], stakes[i])
  /\ ActiveMarketsUnsettled
=============================================================================
