------------------------------ MODULE LegacyAmm -----------------------------
(***************************************************************************)
(* The automated market maker of the legacy tip jar: pools of two tokens   *)
(* at a constant product, shares of liquidity, and fees per share.         *)
(***************************************************************************)
EXTENDS LegacyLedger, SequencesExt

CONSTANTS
  MinLiquidity,   \* MIN_INITIAL_LIQUIDITY
  Precision,      \* PRECISION of the fee per share
  PoolFees,       \* fees of pools, in Bps
  DefaultFee,     \* DEFAULT_FEE_BPS
  MaxPoolFee      \* MAX_FEE_BPS

ASSUME AmmAssumption ==
  /\ MinLiquidity \in Nat \ {0} /\ Precision \in Nat \ {0}
  /\ PoolFees \subseteq Nat /\ DefaultFee \in Nat

VARIABLES
  pools           \* DataKey::AmmPool, with AmmLpShares and AmmProviderDebt; rewarded
                  \* is history: the rewards the pool paid

AmmInit == pools = <<>>

PayBoth(a, b, from, to, x, y) ==
  /\ wallet' = Transfer(Transfer(wallet, a, from, to, x), b, from, to, y)
  /\ \A t \in Token : wallet'[t][from] >= 0

create_pool(p, a, b, x, y, fee) ==
  /\ a # b
  /\ x >= MinLiquidity /\ y >= MinLiquidity
  /\ fee <= MaxPoolFee
  /\ \A i \in DOMAIN pools : {pools[i].a, pools[i].b} # {a, b}
  /\ PayBoth(a, b, p, Jar, x, y)
  /\ LET n == isqrt(x * y)
     IN  pools' = Append(pools, [a |-> a, b |-> b, ra |-> x, rb |-> y, total |-> n,
                                 fee |-> fee, accum |-> 0,
                                 shares |-> [PerParty(0) EXCEPT ![p] = n],
                                 debt |-> PerParty(0), rewarded |-> 0])
amm_create_pool(p, a, b, x, y, fee) ==
  /\ require_not_paused
  /\ Whitelisted(a) /\ Whitelisted(b)
  /\ create_pool(p, a, b, x, y, IF fee = 0 THEN DefaultFee ELSE fee)

\* What a provider's shares have earned since it was last settled.
settle_rewards(m, p) ==
  IF m.accum > m.debt[p] THEN (m.shares[p] * (m.accum - m.debt[p])) \div Precision ELSE 0

\* The amounts that keep the ratio of the reserves, within what is offered.
Matched(m, x, y) ==
  IF m.total = 0 THEN <<x, y>>
  ELSE LET b == (x * m.rb) \div m.ra
       IN  IF b <= y THEN <<x, b>> ELSE <<(y * m.ra) \div m.rb, y>>
Minted(m, x, y) ==
  IF m.total = 0 THEN isqrt(x * y)
  ELSE Smaller((x * m.total) \div m.ra, (y * m.total) \div m.rb)

\* What the provider had earned is settled and paid to nobody.
add_liquidity(i, p, x, y) ==
  LET m == pools[i]
      in == Matched(m, x, y)
      n == Minted(m, in[1], in[2])
  IN  /\ n > 0
      /\ PayBoth(m.a, m.b, p, Jar, in[1], in[2])
      /\ pools' = [pools EXCEPT ![i] = [m EXCEPT !.ra = @ + in[1], !.rb = @ + in[2],
                     !.total = @ + n, !.shares[p] = @ + n, !.debt[p] = m.accum]]
amm_add_liquidity(p, i, x, y) == require_not_paused /\ add_liquidity(i, p, x, y)

remove_liquidity(i, p, n) ==
  LET m == pools[i]
      x == (n * m.ra) \div m.total
      y == (n * m.rb) \div m.total
      reward == settle_rewards(m, p)
  IN  /\ m.shares[p] >= n
      /\ x > 0 /\ y > 0
      /\ PayBoth(m.a, m.b, Jar, p, x + reward, y)
      /\ pools' = [pools EXCEPT ![i] = [m EXCEPT !.ra = @ - x, !.rb = @ - y, !.total = @ - n,
                     !.shares[p] = @ - n, !.debt[p] = m.accum, !.rewarded = @ + reward]]
amm_remove_liquidity(p, i, n) == require_not_paused /\ remove_liquidity(i, p, n)

\* Mutant: the output is rounded up.
calculate_output_up(x, in, out) ==
  IF x <= 0 THEN 0 ELSE (x * out + in + x - 1) \div (in + x)

calculate_output(x, in, out) == IF x <= 0 THEN 0 ELSE (x * out) \div (in + x)

\* The whole amount, fee included, joins the reserves; the fee also counts as
\* earned by the shares, in the first token.
swap(i, p, forth, x) ==
  LET m == pools[i]
      fee == (x * m.fee) \div Bps
      in == IF forth THEN m.ra ELSE m.rb
      out == IF forth THEN m.rb ELSE m.ra
      y == calculate_output(x - fee, in, out)
      after == IF forth THEN [m EXCEPT !.ra = @ + x, !.rb = @ - y]
                        ELSE [m EXCEPT !.rb = @ + x, !.ra = @ - y]
      earned == IF forth THEN fee ELSE (fee * after.ra) \div after.rb
  IN  /\ m.ra > 0 /\ m.rb > 0
      /\ y > 0
      /\ wallet[IF forth THEN m.a ELSE m.b][p] >= x
      /\ wallet[IF forth THEN m.b ELSE m.a][Jar] >= y
      /\ wallet' = IF forth THEN Transfer(Transfer(wallet, m.a, p, Jar, x), m.b, Jar, p, y)
                            ELSE Transfer(Transfer(wallet, m.b, p, Jar, x), m.a, Jar, p, y)
      /\ pools' = [pools EXCEPT ![i] =
           [after EXCEPT !.accum = @ + IF m.total > 0 THEN (earned * Precision) \div m.total ELSE 0]]
amm_swap(p, i, forth, x) == require_not_paused /\ swap(i, p, forth, x)

claim_rewards(i, p) ==
  LET m == pools[i]
      reward == settle_rewards(m, p)
  IN  /\ Pay(m.a, Jar, p, reward)
      /\ pools' = [pools EXCEPT ![i] = [m EXCEPT !.debt[p] = m.accum, !.rewarded = @ + reward]]

set_pool_fee(i, fee) ==
  /\ fee <= MaxPoolFee
  /\ pools' = [pools EXCEPT ![i].fee = fee]
  /\ UNCHANGED wallet

AmmNext ==
  \E p \in Party, x \in Amounts :
    \/ \E a, b \in Token, y \in Amounts, fee \in PoolFees : amm_create_pool(p, a, b, x, y, fee)
    \/ \E i \in DOMAIN pools :
         \/ \E y \in Amounts : amm_add_liquidity(p, i, x, y)
         \/ \E n \in {x, pools[i].shares[p]} \ {0} : amm_remove_liquidity(p, i, n)
         \/ \E forth \in BOOLEAN : amm_swap(p, i, forth, x)
         \/ claim_rewards(i, p)
         \/ \E fee \in PoolFees : set_pool_fee(i, fee)

-----------------------------------------------------------------------------
\* What the pools hold of a token: their reserves, less the rewards, which are
\* paid from the jar though the fees they stand for stay in the reserves.
PoolHolds(m, t) ==
  (IF m.a = t THEN m.ra - m.rewarded ELSE 0) + (IF m.b = t THEN m.rb ELSE 0)
PoolHoldings(t) == SumFunction([i \in DOMAIN pools |-> PoolHolds(pools[i], t)])

\* The shares of a pool are its providers', no more and no fewer.
SharesAddUp ==
  \A i \in DOMAIN pools : pools[i].total = SumFunction(pools[i].shares)

\* Rounding never works against the providers: no swap, deposit or withdrawal
\* lowers the product of the reserves per square of the shares.
ShareValueKept ==
  [][\A i \in DOMAIN pools :
       LET m == pools[i]
           n == pools'[i]
       IN  n.total > 0 => n.ra * n.rb * m.total * m.total >= m.ra * m.rb * n.total * n.total]_pools

-----------------------------------------------------------------------------
(***************************************************************************)
(* Bonding curves of the legacy tip jar: a price that follows the supply,  *)
(* trades at the integral of the price, and a reserve behind the supply.   *)
(* The tokens that are bought come out of what the jar holds of them.      *)
(***************************************************************************)
CONSTANTS
  Curves,         \* parameters that curves are created with
  MaxCurveFee,    \* MAX_FEE_BPS of bonding_curve
  CurveUnit,      \* PRECISION of bonding_curve
  Steps           \* INTEGRATION_STEPS

\* CurveType with its parameters, and the fees.
CurveTerms ==
  [kind : {"Linear", "Exponential", "Sigmoid"}, base : Int, slope : Int, k : Int, midpoint : Int,
   max : Int, buy_fee : Nat, sell_fee : Nat]

ASSUME CurveAssumption ==
  /\ CurveUnit \in Nat \ {0} /\ Steps \in Nat \ {0}
  /\ \A k \in Curves : k \in CurveTerms

VARIABLES
  curves          \* DataKey::BondingCurve; sent is history: the tip tokens paid out

BondingCurveInit == curves = <<>>

\* e^x as its fifth Taylor polynomial, between -20 and 20, and never below 1.
exp_approx(z) ==
  LET x == Larger(-20 * CurveUnit, Smaller(z, 20 * CurveUnit))
      Over(a, b) == Quotient(a, b)
      x2 == Over(x * x, CurveUnit) * x
      x3 == Over(x2, CurveUnit) * x
      x4 == Over(x3, CurveUnit) * x
  IN  Larger(1, CurveUnit + x + Over(x * x, 2 * CurveUnit) + Over(x2, 6 * CurveUnit)
                  + Over(x3, 24 * CurveUnit) + Over(x4, 120 * CurveUnit))

sigmoid_approx(x) == (exp_approx(x) * CurveUnit) \div (CurveUnit + exp_approx(x))

spot_price(k, supply) ==
  CASE k.kind = "Linear" -> k.base + (k.slope * supply) \div CurveUnit
    [] k.kind = "Exponential" ->
         (k.base * exp_approx((k.slope * supply) \div CurveUnit)) \div CurveUnit
    [] k.kind = "Sigmoid" ->
         (k.max * sigmoid_approx(Quotient(k.k * (supply - k.midpoint), CurveUnit))) \div CurveUnit

\* Trapezoids of equal width; what the width's division drops is not priced.
integrate_price(k, from, to) ==
  LET width == (to - from) \div Steps
      inner == SumFunction([i \in 1 .. Steps - 1 |-> spot_price(k, from + i * width)])
  IN  IF width = 0 THEN ((spot_price(k, from) + spot_price(k, to)) * (to - from)) \div 2
      ELSE (spot_price(k, from) * width) \div 2 + inner * width
             + (spot_price(k, to) * width) \div 2

cost_to_buy(c, x) == integrate_price(c.terms, c.supply, c.supply + x) \div CurveUnit
return_on_sell(c, x) == integrate_price(c.terms, c.supply - x, c.supply) \div CurveUnit

FeesOk(buy, sell) == buy <= MaxCurveFee /\ sell <= MaxCurveFee

validate_params(k) ==
  /\ k.base > 0
  /\ FeesOk(k.buy_fee, k.sell_fee)
  /\ CASE k.kind = "Linear" -> k.slope >= 0
       [] k.kind = "Exponential" -> k.slope > 0
       [] k.kind = "Sigmoid" -> k.k > 0 /\ k.max > 0 /\ k.midpoint >= 0

create_curve(p, tip, reserve, k, x) ==
  /\ require_not_paused
  /\ validate_params(k)
  /\ Pay(reserve, p, Jar, x)
  /\ curves' = Append(curves, [terms |-> k, creator |-> p, tip |-> tip, token |-> reserve,
                               supply |-> 0, reserve |-> x, fees |-> 0, active |-> TRUE, sent |-> 0])

\* The two legs of a trade, one after the other.
Legs(t, p, x, u, y) ==
  LET w == Transfer(wallet, t, p, Jar, x)
  IN  /\ wallet[t][p] >= x
      /\ w[u][Jar] >= y
      /\ wallet' = Transfer(w, u, Jar, p, y)

buy(p, i, x, max) ==
  LET c == curves[i]
      cost == cost_to_buy(c, x)
      fee == (cost * c.terms.buy_fee) \div Bps
  IN  /\ require_not_paused
      /\ c.active
      /\ cost > 0
      /\ cost + fee <= max
      /\ Legs(c.token, p, cost + fee, c.tip, x)
      /\ curves' = [curves EXCEPT ![i] = [c EXCEPT !.supply = @ + x, !.reserve = @ + cost,
                                                   !.fees = @ + fee, !.sent = @ + x]]

sell(p, i, x, min) ==
  LET c == curves[i]
      value == return_on_sell(c, x)
      fee == (value * c.terms.sell_fee) \div Bps
  IN  /\ require_not_paused
      /\ c.active
      /\ x <= c.supply
      /\ value > 0
      /\ value - fee >= min
      /\ value <= c.reserve
      /\ Legs(c.tip, p, x, c.token, value - fee)
      /\ curves' = [curves EXCEPT ![i] = [c EXCEPT !.supply = @ - x, !.reserve = @ - value,
                                                   !.fees = @ + fee, !.sent = @ - x]]

update_fees(p, i, buying, selling) ==
  /\ require_not_paused
  /\ FeesOk(buying, selling)
  /\ curves[i].creator = p
  /\ curves' = [curves EXCEPT ![i].terms = [@ EXCEPT !.buy_fee = buying, !.sell_fee = selling]]
  /\ UNCHANGED wallet

bc_withdraw_fees(p, i) ==
  /\ require_not_paused
  /\ curves[i].creator = p
  /\ curves[i].fees > 0
  /\ Pay(curves[i].token, Jar, p, curves[i].fees)
  /\ curves' = [curves EXCEPT ![i].fees = 0]

\* The reserve stays behind: no operation returns it.
deactivate_curve(p, i) ==
  /\ require_not_paused
  /\ curves[i].creator = p
  /\ curves[i].active
  /\ curves' = [curves EXCEPT ![i].active = FALSE]
  /\ UNCHANGED wallet

BondingCurveNext ==
  \/ \E p \in Party, a, b \in Token, k \in Curves, x \in Amounts \cup {0} : create_curve(p, a, b, k, x)
  \/ \E p \in Party, i \in DOMAIN curves :
       \/ \E x, y \in Amounts : buy(p, i, x, y) \/ sell(p, i, x, y)
       \/ \E k \in Curves : update_fees(p, i, k.buy_fee, k.sell_fee)
       \/ bc_withdraw_fees(p, i)
       \/ deactivate_curve(p, i)

\* What the curves account for of a token: reserves and fees, less the tip tokens
\* that buyers took.
CurveHolds(c, t) ==
  (IF c.token = t THEN c.reserve + c.fees ELSE 0) - (IF c.tip = t THEN c.sent ELSE 0)
CurveHoldings(t) == SumFunction([i \in DOMAIN curves |-> CurveHolds(curves[i], t)])

\* In spite of the approximations, buying never lowers the price and selling never raises
\* it.  Only a sigmoid below its midpoint is left out: there the terms that approximate
\* the exponential alternate in sign and each is rounded, so that its price may fall by a
\* unit or two while the supply rises.
Climbs(k, supply) == k.kind = "Sigmoid" => supply >= k.midpoint
PriceFollows(k, from, to) ==
  /\ from < to /\ Climbs(k, from) => spot_price(k, from) <= spot_price(k, to)
  /\ to < from /\ Climbs(k, to) => spot_price(k, to) <= spot_price(k, from)
PriceFollowsSupply ==
  [][\A i \in DOMAIN curves :
       PriceFollows(curves[i].terms, curves[i].supply, curves'[i].supply)]_curves

-----------------------------------------------------------------------------
\* What the variables range over, and the facts about pools that every call keeps.
Pool ==
  [a : Token, b : Token, ra : Nat, rb : Nat, total : Nat, fee : Nat, accum : Nat,
   shares : [Party -> Nat], debt : [Party -> Nat], rewarded : Int]
Curve ==
  [terms : CurveTerms, creator : Party, tip : Token, token : Token, supply : Int,
   reserve : Int, fees : Int, active : BOOLEAN, sent : Int]

\* The shares are the providers'; a pool without shares is empty, one with shares has
\* something of both tokens.
PoolSound(m) ==
  /\ m.total = SumFunction(m.shares)
  /\ IF m.total = 0 THEN m.ra = 0 /\ m.rb = 0 ELSE m.ra > 0 /\ m.rb > 0

AmmInv ==
  /\ pools \in Seq(Pool) /\ \A i \in DOMAIN pools : PoolSound(pools[i])
  /\ curves \in Seq(Curve)
\* A curve's price is made of terms that were checked, and no more is sold than bought.
CurvesSound == \A i \in DOMAIN curves : curves[i].supply >= 0 /\ validate_params(curves[i].terms)
=============================================================================
