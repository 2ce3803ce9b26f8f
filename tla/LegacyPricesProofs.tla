------------------------- MODULE LegacyPricesProofs -------------------------
(***************************************************************************)
(* Proofs about the prices of the legacy tip jar's markets: that the value *)
(* of a pool's share never falls and stops only rise, that the price of a  *)
(* bonding curve follows its supply, for every unit of the curves and all  *)
(* of their parameters, and that the averages and indices of the price     *)
(* feeds are those of what was observed, for every length of their rings.  *)
(***************************************************************************)
EXTENDS LegacyMarketsProofs

-----------------------------------------------------------------------------
(* The value of a share, and stops *)

LEMMA PoolsMove ==
  ASSUME MarketsInv, [Next]_marketVars
  PROVE  pools' = pools \/ ValueKept
<1>1. CASE Next
  <2>1. Market \/ pools' = pools
    BY <1>1, NextCases DEF Quiet
  <2>2. ASSUME Market PROVE pools' = pools \/ AmmNext
    BY <2>2, AmmCall, Zenon DEF Market
  <2>3. AmmInv /\ wallet \in Wallets
    BY MarketsParts, ListsTyped
  <2> QED BY <2>1, <2>2, <2>3, AmmStep
<1>2. CASE UNCHANGED marketVars
  BY <1>2 DEF marketVars
<1> QED BY <1>1, <1>2
LEMMA OrdersMove ==
  ASSUME MarketsInv, [Next]_marketVars
  PROVE  orders' = orders \/ OrdersKept
<1>1. CASE Next
  <2>1. Market \/ orders' = orders
    BY <1>1, NextCases DEF Quiet, stopVars
  <2>2. ASSUME Market PROVE orders' = orders \/ StopLossNext
    <3>1. UNCHANGED stopVars \/ StopLossNext
      BY <2>2, StopsCall, Zenon DEF Market
    <3> QED BY <3>1 DEF stopVars
  <2>3. StopsInv /\ wallet \in Wallets
    BY MarketsParts, ListsTyped
  <2> QED BY <2>1, <2>2, <2>3, StopsStep
<1>2. CASE UNCHANGED marketVars
  BY <1>2 DEF marketVars, stopVars
<1> QED BY <1>1, <1>2

\* The value behind a share of a pool, the product of the reserves over the square of the
\* shares, never falls: what a swap takes as its fee, and what a deposit, a withdrawal or
\* the square root rounds off, stays with the pool.
THEOREM ShareValueAlwaysKept == MarketsSpec => ShareValueKept
<1>1. MarketsInv /\ [Next]_marketVars =>
        [\A i \in DOMAIN pools :
           LET m == pools[i]
               n == pools'[i]
           IN  n.total > 0 => n.ra * n.rb * m.total * m.total >= m.ra * m.rb * n.total * n.total]_pools
  BY PoolsMove DEF ValueKept, PoolKept
<1> QED BY <1>1, MarketsInvariant, PTL DEF MarketsSpec, ShareValueKept

\* The stop price of an order never falls, whatever prices the keeper reports and in
\* whatever order, and an order that was executed or cancelled never changes again.
THEOREM StopsAlwaysRise == MarketsSpec => StopsOnlyRise
<1>1. MarketsInv /\ [Next]_marketVars =>
        [\A i \in DOMAIN orders : /\ orders'[i].stop >= orders[i].stop
                                  /\ ~Open(orders[i]) => orders'[i] = orders[i]]_orders
  BY OrdersMove DEF OrdersKept, OrderKept
<1> QED BY <1>1, MarketsInvariant, PTL DEF MarketsSpec, StopsOnlyRise

-----------------------------------------------------------------------------
(* The price of a curve *)

\* Where nothing is negative, the approximations only grow.
LEMMA QuotientGrows ==
  ASSUME NEW a \in Nat, NEW b \in Nat, NEW u \in Nat \ {0}, a <= b
  PROVE  Quotient(a, u) \in Nat /\ Quotient(b, u) \in Nat /\ Quotient(a, u) <= Quotient(b, u)
<1>1. Quotient(a, u) = a \div u /\ Quotient(b, u) = b \div u
  BY DEF Quotient
<1> QED BY <1>1, Portion, QuotientOrder
LEMMA TermGrows ==
  ASSUME NEW a \in Nat, NEW b \in Nat, NEW x \in Nat, NEW y \in Nat, a <= b, x <= y
  PROVE  /\ Quotient(a, CurveUnit) * x \in Nat /\ Quotient(b, CurveUnit) * y \in Nat
         /\ Quotient(a, CurveUnit) * x <= Quotient(b, CurveUnit) * y
<1> DEFINE q == Quotient(a, CurveUnit)
           r == Quotient(b, CurveUnit)
<1>1. q \in Nat /\ r \in Nat /\ q <= r
  BY QuotientGrows, CurveAssumption
<1> HIDE DEF q, r
<1> QED BY <1>1, Product, ProductOrder DEF q, r

LEMMA ExpGrows ==
  ASSUME NEW y \in Nat, NEW z \in Nat, y <= z
  PROVE  exp_approx(y) <= exp_approx(z)
<1> DEFINE Clamped(v) == Larger(-20 * CurveUnit, Smaller(v, 20 * CurveUnit))
           Term2(x) == Quotient(x * x, CurveUnit) * x
           Term3(x) == Quotient(Term2(x), CurveUnit) * x
           Term4(x) == Quotient(Term3(x), CurveUnit) * x
           Sum(x) == CurveUnit + x + Quotient(x * x, 2 * CurveUnit) + Quotient(Term2(x), 6 * CurveUnit)
                       + Quotient(Term3(x), 24 * CurveUnit) + Quotient(Term4(x), 120 * CurveUnit)
           a == Clamped(y)
           b == Clamped(z)
<1>0. exp_approx(y) = Larger(1, Sum(a)) /\ exp_approx(z) = Larger(1, Sum(b))
  BY DEF exp_approx
<1>1. /\ CurveUnit \in Nat \ {0} /\ 2 * CurveUnit \in Nat \ {0} /\ 6 * CurveUnit \in Nat \ {0}
      /\ 24 * CurveUnit \in Nat \ {0} /\ 120 * CurveUnit \in Nat \ {0}
      /\ -20 * CurveUnit \in Int /\ 20 * CurveUnit \in Nat /\ -20 * CurveUnit < 0
  BY CurveAssumption
<1>2. a \in Nat /\ b \in Nat /\ a <= b
  BY <1>1 DEF Larger, Smaller
<1> HIDE DEF a, b
<1> DEFINE aa == a * a
           bb == b * b
           a2 == Quotient(aa, CurveUnit) * a
           b2 == Quotient(bb, CurveUnit) * b
           a3 == Quotient(a2, CurveUnit) * a
           b3 == Quotient(b2, CurveUnit) * b
           a4 == Quotient(a3, CurveUnit) * a
           b4 == Quotient(b3, CurveUnit) * b
<1>3. aa \in Nat /\ bb \in Nat /\ aa <= bb
  BY <1>2, Product, ProductOrder
<1> HIDE DEF aa, bb
<1>4. a2 \in Nat /\ b2 \in Nat /\ a2 <= b2
  BY <1>2, <1>3, TermGrows
<1> HIDE DEF a2, b2
<1>5. a3 \in Nat /\ b3 \in Nat /\ a3 <= b3
  BY <1>2, <1>4, TermGrows
<1> HIDE DEF a3, b3
<1>6. a4 \in Nat /\ b4 \in Nat /\ a4 <= b4
  BY <1>2, <1>5, TermGrows
<1> HIDE DEF a4, b4
<1> DEFINE p == Quotient(aa, 2 * CurveUnit)
           q == Quotient(a2, 6 * CurveUnit)
           r == Quotient(a3, 24 * CurveUnit)
           t == Quotient(a4, 120 * CurveUnit)
           pp == Quotient(bb, 2 * CurveUnit)
           qq == Quotient(b2, 6 * CurveUnit)
           rr == Quotient(b3, 24 * CurveUnit)
           tt == Quotient(b4, 120 * CurveUnit)
<1>7. p \in Nat /\ pp \in Nat /\ p <= pp
  BY <1>1, <1>3, QuotientGrows
<1>8. q \in Nat /\ qq \in Nat /\ q <= qq
  BY <1>1, <1>4, QuotientGrows
<1>9. r \in Nat /\ rr \in Nat /\ r <= rr
  BY <1>1, <1>5, QuotientGrows
<1>10. t \in Nat /\ tt \in Nat /\ t <= tt
  BY <1>1, <1>6, QuotientGrows
<1>11. Sum(a) = CurveUnit + a + p + q + r + t /\ Sum(b) = CurveUnit + b + pp + qq + rr + tt
  BY DEF aa, bb, a2, b2, a3, b3, a4, b4
<1> HIDE DEF p, q, r, t, pp, qq, rr, tt, Sum
<1>12. Sum(a) \in Nat /\ Sum(b) \in Nat /\ Sum(a) <= Sum(b)
  BY <1>1, <1>2, <1>7, <1>8, <1>9, <1>10, <1>11
<1>13. Larger(1, Sum(a)) <= Larger(1, Sum(b))
  BY <1>12 DEF Larger
<1> QED BY <1>0, <1>13

LEMMA SigmoidGrows ==
  ASSUME NEW y \in Nat, NEW z \in Nat, y <= z
  PROVE  /\ sigmoid_approx(y) \in Nat /\ sigmoid_approx(z) \in Nat
         /\ sigmoid_approx(y) <= sigmoid_approx(z)
<1> DEFINE e == exp_approx(y)
           f == exp_approx(z)
           u == CurveUnit
<1>1. e \in Nat \ {0} /\ f \in Nat \ {0} /\ e <= f /\ u \in Nat \ {0}
  BY ExpType, ExpGrows, CurveAssumption
<1>2. sigmoid_approx(y) = (e * u) \div (u + e) /\ sigmoid_approx(z) = (f * u) \div (u + f)
  BY DEF sigmoid_approx
<1> HIDE DEF e, f, u
<1>3. e * u \in Nat /\ f * u \in Nat /\ u + e \in Nat \ {0} /\ u + f \in Nat \ {0}
  BY <1>1, Product
<1> DEFINE a == e * u
           b == f * u
           q == a \div (u + e)
           r == b \div (u + f)
           d == f - e
<1>4. q \in Nat /\ r \in Nat /\ (u + e) * q <= a /\ b < (u + f) * r + (u + f)
  BY <1>3
<1>5. d \in Nat /\ f = e + d
  BY <1>1
<1> HIDE DEF q, r, d
<1>6. q <= u
  <2> SUFFICES ASSUME q > u PROVE FALSE
    BY <1>1, <1>4
  <2> DEFINE g == q - u - 1
  <2>1. g \in Nat /\ q = u + 1 + g
    BY <1>1, <1>4
  <2> HIDE DEF g
  <2>2. /\ (u + e) * q = (u + e) * u + u + e + (u + e) * g /\ (u + e) * g \in Nat
        /\ (u + e) * u = u * u + e * u /\ u * u \in Nat
    BY <1>1, <1>3, <2>1, Product
  <2> QED BY <1>1, <1>3, <1>4, <2>2
<1>7. (u + f) * q <= b
  <2>1. (u + f) * q = (u + e) * q + d * q /\ b = a + d * u
    BY <1>1, <1>4, <1>5
  <2>2. d * q <= d * u
    BY <1>1, <1>4, <1>5, <1>6, ProductOrder
  <2>3. (u + e) * q \in Int /\ d * q \in Int /\ d * u \in Int /\ a \in Int
    BY <1>1, <1>3, <1>4, <1>5
  <2> HIDE DEF a, b
  <2> QED BY <1>4, <2>1, <2>2, <2>3
<1>8. q <= r
  <2> SUFFICES ASSUME q > r PROVE FALSE
    BY <1>4
  <2> DEFINE g == q - r - 1
             v == u + f
  <2>1. g \in Nat /\ q = r + 1 + g /\ v \in Nat \ {0}
    BY <1>1, <1>4
  <2>2. v * q <= b /\ b < v * r + v
    BY <1>4, <1>7
  <2> HIDE DEF g, v
  <2>3. v * q = v * r + v + v * g /\ v * g \in Nat /\ v * r \in Nat
    BY <1>4, <2>1, Product
  <2> QED BY <1>3, <2>1, <2>2, <2>3
<1> QED BY <1>2, <1>4, <1>8 DEF q, r

LEMMA PriceGrows ==
  ASSUME NEW k \in CurveTerms, validate_params(k), NEW s \in Nat, NEW v \in Nat, s <= v, Climbs(k, s)
  PROVE  spot_price(k, s) <= spot_price(k, v)
<1> DEFINE base == k.base
           slope == k.slope
           kk == k.k
           mid == k.midpoint
           max == k.max
           Price(n) ==
             CASE k.kind = "Linear" -> base + (slope * n) \div CurveUnit
               [] k.kind = "Exponential" -> (base * exp_approx((slope * n) \div CurveUnit)) \div CurveUnit
               [] k.kind = "Sigmoid" ->
                    (max * sigmoid_approx(Quotient(kk * (n - mid), CurveUnit))) \div CurveUnit
<1>1. /\ base \in Nat /\ k.kind \in {"Linear", "Exponential", "Sigmoid"}
      /\ k.kind \in {"Linear", "Exponential"} => slope \in Nat
      /\ k.kind = "Sigmoid" => kk \in Nat /\ mid \in Nat /\ max \in Nat /\ mid <= s
  <2>1. /\ base \in Int /\ slope \in Int /\ kk \in Int /\ mid \in Int /\ max \in Int
        /\ k.kind \in {"Linear", "Exponential", "Sigmoid"}
    BY DEF CurveTerms
  <2>2. base > 0 /\ CASE k.kind = "Linear" -> slope >= 0
                      [] k.kind = "Exponential" -> slope > 0
                      [] k.kind = "Sigmoid" -> kk > 0 /\ max > 0 /\ mid >= 0
    BY DEF validate_params
  <2>3. k.kind = "Sigmoid" => mid <= s
    BY <2>1 DEF Climbs
  <2> HIDE DEF base, slope, kk, mid, max
  <2>4. k.kind = "Linear" => slope >= 0
    BY <2>2
  <2>5. k.kind = "Exponential" => slope > 0
    BY <2>2
  <2>6. k.kind = "Sigmoid" => kk > 0 /\ max > 0 /\ mid >= 0
    BY <2>2
  <2> QED BY <2>1, <2>2, <2>3, <2>4, <2>5, <2>6
<1>2. spot_price(k, s) = Price(s) /\ spot_price(k, v) = Price(v)
  BY DEF spot_price
<1>u. CurveUnit \in Nat \ {0}
  BY CurveAssumption
<1> HIDE DEF base, slope, kk, mid, max
<1> DEFINE a == (slope * s) \div CurveUnit
           b == (slope * v) \div CurveUnit
<1>3. ASSUME k.kind \in {"Linear", "Exponential"}
      PROVE  a \in Nat /\ b \in Nat /\ a <= b
  <2>1. slope * s \in Nat /\ slope * v \in Nat /\ slope * s <= slope * v
    BY <1>1, <1>3, Product, ProductOrder
  <2> QED BY <1>u, <2>1, QuotientOrder, Portion
<1>4. CASE k.kind = "Linear"
  <2>1. Price(s) = base + a /\ Price(v) = base + b
    BY <1>4
  <2> HIDE DEF a, b, Price
  <2> QED BY <1>1, <1>2, <1>3, <1>4, <2>1
<1>5. CASE k.kind = "Exponential"
  <2> DEFINE e == exp_approx(a)
             f == exp_approx(b)
  <2>1. Price(s) = (base * e) \div CurveUnit /\ Price(v) = (base * f) \div CurveUnit
    BY <1>5
  <2> HIDE DEF a, b, Price
  <2>2. e \in Nat /\ f \in Nat /\ e <= f
    BY <1>3, <1>5, ExpType, ExpGrows
  <2> HIDE DEF e, f
  <2>3. base * e \in Nat /\ base * f \in Nat /\ base * e <= base * f
    BY <1>1, <2>2, Product, ProductOrder
  <2> QED BY <1>2, <1>u, <2>1, <2>3, QuotientOrder
<1>6. CASE k.kind = "Sigmoid"
  <2> DEFINE m == kk * (s - mid)
             n == kk * (v - mid)
             x == Quotient(m, CurveUnit)
             y == Quotient(n, CurveUnit)
             e == sigmoid_approx(x)
             f == sigmoid_approx(y)
  <2>1. Price(s) = (max * e) \div CurveUnit /\ Price(v) = (max * f) \div CurveUnit
    BY <1>6
  <2> HIDE DEF Price
  <2>2. m \in Nat /\ n \in Nat /\ m <= n
    <3>1. s - mid \in Nat /\ v - mid \in Nat /\ s - mid <= v - mid /\ kk \in Nat
      BY <1>1, <1>6
    <3> QED BY <3>1, Product, ProductOrder
  <2> HIDE DEF m, n
  <2>3. x \in Nat /\ y \in Nat /\ x <= y
    BY <1>u, <2>2, QuotientGrows
  <2> HIDE DEF x, y
  <2>4. e \in Nat /\ f \in Nat /\ e <= f
    BY <2>3, SigmoidGrows
  <2> HIDE DEF e, f
  <2>5. max * e \in Nat /\ max * f \in Nat /\ max * e <= max * f
    BY <1>1, <1>6, <2>4, Product, ProductOrder
  <2> QED BY <1>2, <1>u, <2>1, <2>5, QuotientOrder
<1> QED BY <1>1, <1>4, <1>5, <1>6

\* Whatever is done to a curve, its terms stay checked and its supply does not go below 0.
Checked(n) == n.supply \in Int /\ n.supply >= 0 /\ validate_params(n.terms)
LEMMA CurveEdited ==
  ASSUME NEW c \in Curve, NEW a, NEW b, NEW d, NEW e
  PROVE  /\ Amounted(c, a, b, d, e).supply = a /\ Amounted(c, a, b, d, e).terms = c.terms
         /\ WithFees(c, a).supply = c.supply /\ WithFees(c, a).terms = c.terms
         /\ [c EXCEPT !.active = a].supply = c.supply /\ [c EXCEPT !.active = a].terms = c.terms
         /\ WithTerms(c, a).supply = c.supply /\ WithTerms(c, a).terms = a
BY DEF Curve, Amounted, WithFees, WithTerms
LEMMA TermsChecked ==
  ASSUME NEW k \in CurveTerms, validate_params(k), NEW x, NEW y, FeesOk(x, y)
  PROVE  validate_params(Charging(k, x, y))
<1> DEFINE h == Charging(k, x, y)
<1>1. /\ h.base = k.base /\ h.kind = k.kind /\ h.slope = k.slope /\ h.k = k.k /\ h.max = k.max
      /\ h.midpoint = k.midpoint /\ h.buy_fee = x /\ h.sell_fee = y
  BY DEF CurveTerms, Charging
<1> HIDE DEF h
<1>2. validate_params(h)
  BY <1>1 DEF validate_params
<1> QED BY <1>2 DEF h
LEMMA CurveStaysChecked ==
  ASSUME curves \in Seq(Curve), CurvesSound, NEW p \in Party, NEW i \in DOMAIN curves,
         \/ \E x, y \in Amounts : buy(p, i, x, y) \/ sell(p, i, x, y)
         \/ \E k \in Curves : update_fees(p, i, k.buy_fee, k.sell_fee)
         \/ bc_withdraw_fees(p, i)
         \/ deactivate_curve(p, i)
  PROVE  \E n : curves' = [curves EXCEPT ![i] = n] /\ Checked(n)
<1> DEFINE c == curves[i]
<1>1. c \in Curve /\ c.terms \in CurveTerms /\ c.supply \in Int /\ c.supply >= 0 /\ validate_params(c.terms)
  BY CurveFields DEF CurvesSound
<1>2. ASSUME NEW x \in Amounts, NEW y \in Amounts, buy(p, i, x, y)
      PROVE  \E n : curves' = [curves EXCEPT ![i] = n] /\ Checked(n)
  <2> DEFINE cost == cost_to_buy(c, x)
             fee == (cost * c.terms.buy_fee) \div Bps
             n == Amounted(c, c.supply + x, c.reserve + cost, c.fees + fee, c.sent + x)
  <2>1. curves' = [curves EXCEPT ![i] = n]
    BY ONLY <1>2 DEF buy, Amounted
  <2>2. n.supply = c.supply + x /\ n.terms = c.terms
    BY <1>1, CurveEdited
  <2> HIDE DEF n
  <2>3. Checked(n)
    BY <1>1, <2>2, LedgerAssumption DEF Checked
  <2> QED BY <2>1, <2>3
<1>3. ASSUME NEW x \in Amounts, NEW y \in Amounts, sell(p, i, x, y)
      PROVE  \E n : curves' = [curves EXCEPT ![i] = n] /\ Checked(n)
  <2> DEFINE value == return_on_sell(c, x)
             fee == (value * c.terms.sell_fee) \div Bps
             n == Amounted(c, c.supply - x, c.reserve - value, c.fees + fee, c.sent - x)
  <2>1. curves' = [curves EXCEPT ![i] = n] /\ x <= c.supply
    BY ONLY <1>3 DEF sell, Amounted
  <2>2. n.supply = c.supply - x /\ n.terms = c.terms
    BY <1>1, CurveEdited
  <2> HIDE DEF n
  <2>3. Checked(n)
    BY <1>1, <2>1, <2>2, LedgerAssumption DEF Checked
  <2> QED BY <2>1, <2>3
<1>4. ASSUME NEW k \in Curves, update_fees(p, i, k.buy_fee, k.sell_fee)
      PROVE  \E n : curves' = [curves EXCEPT ![i] = n] /\ Checked(n)
  <2> DEFINE h == Charging(c.terms, k.buy_fee, k.sell_fee)
             n == WithTerms(c, h)
  <2>1. curves' = [curves EXCEPT ![i] = n] /\ FeesOk(k.buy_fee, k.sell_fee)
    BY <1>4, Zenon DEF update_fees, Charging, WithTerms
  <2>2. validate_params(h)
    BY <1>1, <2>1, TermsChecked
  <2> HIDE DEF h
  <2>3. n.supply = c.supply /\ n.terms = h
    BY <1>1, CurveEdited
  <2> HIDE DEF n
  <2>4. Checked(n)
    BY <1>1, <2>2, <2>3 DEF Checked
  <2> QED BY <2>1, <2>4
<1>5. ASSUME bc_withdraw_fees(p, i)
      PROVE  \E n : curves' = [curves EXCEPT ![i] = n] /\ Checked(n)
  <2> DEFINE n == WithFees(c, 0)
  <2>1. curves' = [curves EXCEPT ![i] = n]
    BY <1>5 DEF bc_withdraw_fees, WithFees
  <2>2. n.supply = c.supply /\ n.terms = c.terms
    BY <1>1, CurveEdited
  <2> HIDE DEF n
  <2> QED BY <1>1, <2>1, <2>2 DEF Checked
<1>6. ASSUME deactivate_curve(p, i)
      PROVE  \E n : curves' = [curves EXCEPT ![i] = n] /\ Checked(n)
  <2> DEFINE n == [c EXCEPT !.active = FALSE]
  <2>1. curves' = [curves EXCEPT ![i] = n]
    BY <1>6 DEF deactivate_curve
  <2>2. n.supply = c.supply /\ n.terms = c.terms
    BY <1>1, CurveEdited
  <2> HIDE DEF n
  <2> QED BY <1>1, <2>1, <2>2 DEF Checked
<1> QED BY <1>2, <1>3, <1>4, <1>5, <1>6

\* Every curve of the next state is checked, and those of this state are still there.
CurvesGoOn == CurvesSound' /\ \A i \in DOMAIN curves : Checked(curves'[i])
LEMMA CurvesStaySound ==
  ASSUME curves \in Seq(Curve), CurvesSound, BondingCurveNext
  PROVE  CurvesGoOn
<1>1. ASSUME NEW p \in Party, NEW a \in Token, NEW b \in Token, NEW k \in Curves, NEW x \in Amounts \cup {0},
             create_curve(p, a, b, k, x)
      PROVE  CurvesGoOn
  <2> DEFINE n == [terms |-> k, creator |-> p, tip |-> a, token |-> b,
                   supply |-> 0, reserve |-> x, fees |-> 0, active |-> TRUE, sent |-> 0]
  <2>1. curves' = Append(curves, n) /\ validate_params(k)
    BY <1>1 DEF create_curve
  <2>2. n.supply = 0 /\ n.terms = k
    OBVIOUS
  <2> HIDE DEF n
  <2>3. Checked(n) /\ \A j \in DOMAIN curves : Checked(curves[j])
    BY <2>1, <2>2, CurveFields DEF Checked, CurvesSound
  <2>4. /\ DOMAIN curves = 1 .. Len(curves) /\ DOMAIN curves' = 1 .. Len(curves) + 1 /\ Len(curves) \in Nat
        /\ \A j \in DOMAIN curves : curves'[j] = curves[j]
        /\ curves'[Len(curves) + 1] = n
    BY <2>1
  <2>5. \A j \in DOMAIN curves' : Checked(curves'[j])
    BY <2>3, <2>4
  <2> QED BY <2>3, <2>4, <2>5 DEF CurvesGoOn, CurvesSound, Checked
<1>2. ASSUME NEW p \in Party, NEW i \in DOMAIN curves,
             \/ \E x, y \in Amounts : buy(p, i, x, y) \/ sell(p, i, x, y)
             \/ \E k \in Curves : update_fees(p, i, k.buy_fee, k.sell_fee)
             \/ bc_withdraw_fees(p, i)
             \/ deactivate_curve(p, i)
      PROVE  CurvesGoOn
  <2>1. PICK n : curves' = [curves EXCEPT ![i] = n] /\ Checked(n)
    BY <1>2, CurveStaysChecked
  <2>2. DOMAIN curves' = DOMAIN curves /\ \A j \in DOMAIN curves : curves'[j] = IF j = i THEN n ELSE curves[j]
    BY <2>1
  <2>3. \A j \in DOMAIN curves : Checked(curves[j])
    BY CurveFields DEF Checked, CurvesSound
  <2>4. \A j \in DOMAIN curves' : Checked(curves'[j])
    BY <2>1, <2>2, <2>3
  <2> QED BY <2>2, <2>4 DEF CurvesGoOn, CurvesSound, Checked
<1> QED BY <1>1, <1>2, Zenon DEF BondingCurveNext

LEMMA CurvesMove ==
  ASSUME MarketsInv, CurvesSound, [Next]_marketVars
  PROVE  curves' = curves \/ CurvesGoOn
<1>1. CASE Next
  <2>1. Market \/ curves' = curves
    BY <1>1, NextCases DEF Quiet
  <2>2. ASSUME Market PROVE curves' = curves \/ BondingCurveNext
    BY <2>2, CurvesCall, Zenon DEF Market
  <2>3. curves \in Seq(Curve)
    BY ListsTyped
  <2> QED BY <2>1, <2>2, <2>3, CurvesStaySound
<1>2. CASE UNCHANGED marketVars
  BY <1>2 DEF marketVars
<1> QED BY <1>1, <1>2

\* The terms of every curve were checked when it was created, and stay so.
LEMMA CurvesAlwaysSound == MarketsSpec => []CurvesSound
<1>1. Init => CurvesSound
  BY DEF Init, BondingCurveInit, CurvesSound
<1>2. MarketsInv /\ CurvesSound /\ [Next]_marketVars => CurvesSound'
  <2>1. curves' = curves /\ CurvesSound => CurvesSound'
    BY DEF CurvesSound
  <2> QED BY <2>1, CurvesMove DEF CurvesGoOn
<1> QED BY <1>1, <1>2, MarketsInvariant, PTL DEF MarketsSpec

\* Along a curve the price follows the supply, with the exponential approximated by five
\* terms, each of them rounded: no purchase lowers it and no sale raises it, except where a
\* sigmoid is below its midpoint.
THEOREM PricesAlwaysFollow == MarketsSpec => PriceFollowsSupply
<1>1. MarketsInv /\ CurvesSound /\ [Next]_marketVars =>
        [\A i \in DOMAIN curves :
           PriceFollows(curves[i].terms, curves[i].supply, curves'[i].supply)]_curves
  <2> SUFFICES ASSUME MarketsInv, CurvesSound, CurvesGoOn, NEW i \in DOMAIN curves
               PROVE  PriceFollows(curves[i].terms, curves[i].supply, curves'[i].supply)
    BY CurvesMove
  <2> DEFINE k == curves[i].terms
             from == curves[i].supply
             to == curves'[i].supply
  <2>1. curves[i] \in Curve
    BY ListsTyped
  <2>2. k \in CurveTerms /\ validate_params(k) /\ from \in Nat
    BY <2>1, CurveFields DEF CurvesSound
  <2>3. to \in Nat
    BY DEF CurvesGoOn, Checked
  <2> HIDE DEF k, from, to
  <2>4. PriceFollows(k, from, to)
    BY <2>2, <2>3, PriceGrows DEF PriceFollows
  <2> QED BY <2>4 DEF k, from, to
<1> QED BY <1>1, MarketsInvariant, CurvesAlwaysSound, PTL DEF MarketsSpec, PriceFollowsSupply

\* Prices move one way only, whoever calls what: all three of the above.
THEOREM PricesAlwaysMonotone == MarketsSpec => PricesMonotone
BY ShareValueAlwaysKept, StopsAlwaysRise, PricesAlwaysFollow, PTL DEF PricesMonotone

-----------------------------------------------------------------------------
(* The price feeds *)

\* Rings of slots: going back from the newest, and one step on.
LEMMA Remainders ==
  ASSUME NEW m \in Nat \ {0}, NEW x \in 0 .. m - 1
  PROVE  x % m = x /\ (x + m) % m = x
<1>1. x % m = x
  OBVIOUS
<1>2. (x + m) % m = x
  OBVIOUS
<1> QED BY <1>1, <1>2
LEMMA RingBack ==
  ASSUME NEW m \in Nat \ {0}, NEW at \in 0 .. m - 1, NEW j \in 0 .. m - 1
  PROVE  /\ ring_index_back(at, j, m) = Back(at, j, m)
         /\ Back(at, j, m) \in 0 .. m - 1
<1>1. j % m = j
  BY Remainders
<1>2. CASE j <= at
  <2>1. at - j \in 0 .. m - 1 /\ at + m - j = (at - j) + m
    BY <1>2
  <2>2. ((at - j) + m) % m = at - j
    BY <2>1, Remainders
  <2> QED BY <1>1, <1>2, <2>1, <2>2 DEF ring_index_back, Back
<1>3. CASE j > at
  <2>1. at + m - j \in 0 .. m - 1
    BY <1>3
  <2>2. (at + m - j) % m = at + m - j
    BY <2>1, Remainders
  <2> QED BY <1>1, <1>3, <2>1, <2>2 DEF ring_index_back, Back
<1> QED BY <1>2, <1>3
LEMMA RingStep ==
  ASSUME NEW m \in Nat \ {0}, NEW at \in 0 .. m - 1
  PROVE  /\ (at + 1) % m \in 0 .. m - 1
         /\ Back((at + 1) % m, 0, m) = (at + 1) % m
         /\ \A j \in 0 .. m - 2 : /\ Back((at + 1) % m, j + 1, m) = Back(at, j, m)
                                  /\ Back(at, j, m) # (at + 1) % m
<1>1. CASE at + 1 = m
  <2>1. (at + 1) % m = 0
    BY <1>1, Remainders
  <2> QED BY <1>1, <2>1 DEF Back
<1>2. CASE at + 1 < m
  <2>1. (at + 1) % m = at + 1
    BY <1>2, Remainders
  <2> QED BY <1>2, <2>1 DEF Back
<1> QED BY <1>1, <1>2

\* The greatest and the least of some indices.
LEMMA GreatestIs ==
  ASSUME NEW S \in SUBSET Int, NEW x \in S, \A y \in S : y <= x
  PROVE  Max(S) = x
<1>1. \A y \in S : x >= y
  OBVIOUS
<1>2. Max(S) \in S /\ \A y \in S : Max(S) >= y
  BY <1>1, Zenon DEF Max
<1>3. Max(S) >= x /\ Max(S) <= x /\ Max(S) \in Int /\ x \in Int
  BY <1>2
<1> QED BY <1>3
LEMMA LeastIs ==
  ASSUME NEW S \in SUBSET Int, NEW x \in S, \A y \in S : x <= y
  PROVE  Min(S) = x
<1>1. Min(S) \in S /\ \A y \in S : Min(S) <= y
  BY Zenon DEF Min
<1>2. Min(S) >= x /\ Min(S) <= x /\ Min(S) \in Int /\ x \in Int
  BY <1>1
<1> QED BY <1>2
LEMMA GreatestOf ==
  ASSUME NEW n \in Nat, NEW S \in SUBSET (1 .. n), S # {}
  PROVE  Max(S) \in S /\ \A y \in S : y <= Max(S)
<1> DEFINE T == {n - y : y \in S}
<1>1. T \in SUBSET Nat /\ T # {}
  <2>1. ASSUME NEW y \in S  PROVE n - y \in Nat
    <3>1. y \in 1 .. n
      OBVIOUS
    <3> QED BY <3>1
  <2>2. PICK y \in S : TRUE
    OBVIOUS
  <2>3. n - y \in T
    BY <2>2, Zenon
  <2>4. T \in SUBSET Nat
    BY <2>1, Zenon
  <2> QED BY <2>3, <2>4, Zenon
<1> HIDE DEF T
<1>2. PICK z \in T : \A w \in T : z <= w
  BY <1>1, LeastNat
<1>3. PICK x \in S : z = n - x
  BY <1>2 DEF T
<1>4. ASSUME NEW y \in S PROVE y <= x
  <2>1. n - y \in T /\ z <= n - y
    BY <1>2 DEF T
  <2> QED BY <1>3, <2>1
<1>5. Max(S) = x
  BY <1>4, GreatestIs
<1> QED BY <1>4, <1>5

\* The price in force.
Sighting == [time : Nat, price : Int]
Seen == Seq(Sighting)
Rising(seen) == \A j, k \in 1 .. Len(seen) : j < k => seen[j].time < seen[k].time
LEMMA SightingFields ==
  ASSUME NEW seen \in Seen
  PROVE  /\ Len(seen) \in Nat /\ DOMAIN seen = 1 .. Len(seen)
         /\ \A k \in 1 .. Len(seen) : seen[k] \in Sighting /\ seen[k].time \in Nat /\ seen[k].price \in Int
<1>1. /\ Len(seen) \in Nat /\ DOMAIN seen = 1 .. Len(seen)
      /\ \A k \in 1 .. Len(seen) : seen[k] \in Sighting
  BY DEF Seen
<1>2. \A e \in Sighting : e.time \in Nat /\ e.price \in Int
  BY DEF Sighting
<1> QED BY <1>1, <1>2
LEMMA PriceInForce ==
  ASSUME NEW seen \in Seen, Len(seen) > 0, NEW s \in Int, s >= seen[1].time
  PROVE  PriceAt(seen, s) \in Int
<1> DEFINE S == {k \in DOMAIN seen : seen[k].time <= s}
<1>1. S \in SUBSET (1 .. Len(seen)) /\ 1 \in S /\ Len(seen) \in Nat
  BY SightingFields
<1>2. Max(S) \in 1 .. Len(seen)
  BY <1>1, GreatestOf
<1> HIDE DEF S
<1>3. seen[Max(S)].price \in Int
  BY <1>2, SightingFields
<1> QED BY <1>3 DEF PriceAt, S
LEMMA PriceLast ==
  ASSUME NEW seen \in Seen, Len(seen) > 0, NEW s \in Int, s >= seen[Len(seen)].time
  PROVE  PriceAt(seen, s) = seen[Len(seen)].price
<1> DEFINE S == {k \in DOMAIN seen : seen[k].time <= s}
<1>1. S \in SUBSET Int /\ Len(seen) \in S /\ \A y \in S : y <= Len(seen)
  BY DEF Seen
<1>2. Max(S) = Len(seen)
  BY <1>1, GreatestIs
<1> QED BY <1>2 DEF PriceAt
LEMMA PriceBefore ==
  ASSUME NEW seen \in Seen, NEW e \in Sighting, Len(seen) > 0,
         NEW s \in Int, s < e.time, s >= seen[1].time
  PROVE  PriceAt(Append(seen, e), s) = PriceAt(seen, s)
<1> DEFINE S == {k \in DOMAIN seen : seen[k].time <= s}
           new == Append(seen, e)
           T == {k \in DOMAIN new : new[k].time <= s}
<1>0. /\ Len(seen) \in Nat /\ DOMAIN seen = 1 .. Len(seen) /\ DOMAIN new = 1 .. Len(seen) + 1
      /\ new[Len(seen) + 1] = e /\ \A k \in 1 .. Len(seen) : new[k] = seen[k]
  BY DEF Seen
<1> HIDE DEF new
<1>1. S \in SUBSET (1 .. Len(seen)) /\ 1 \in S
  BY <1>0
<1>2. T = S
  <2>1. \A k \in T : k # Len(seen) + 1
    BY <1>0 DEF Sighting
  <2> QED BY <1>0, <2>1
<1>3. Max(S) \in 1 .. Len(seen)
  BY <1>0, <1>1, GreatestOf
<1> HIDE DEF S, T
<1> QED BY <1>0, <1>2, <1>3 DEF PriceAt, S, T, new

\* What an observation adds to the sums of prices.
LEMMA PricesGoOn ==
  ASSUME NEW seen \in Seen, NEW e \in Sighting, Len(seen) > 0,
         e.time >= seen[Len(seen)].time, Rising(seen), NEW k \in 1 .. Len(seen)
  PROVE  /\ PricesBetween(seen, seen[k].time, seen[Len(seen)].time) \in Int
         /\ PricesBetween(Append(seen, e), seen[k].time, e.time)
            = PricesBetween(seen, seen[k].time, seen[Len(seen)].time)
                + seen[Len(seen)].price * (e.time - seen[Len(seen)].time)
<1> DEFINE n == Len(seen)
           a == seen[k].time
           b == seen[n].time
           c == seen[n].price
           d == e.time - b
           new == Append(seen, e)
           f == [s \in a .. b - 1 |-> PriceAt(seen, s)]
           g == [s \in a .. b + d - 1 |-> PriceAt(new, s)]
<1>0. n \in Nat /\ 1 \in 1 .. n /\ n \in 1 .. n /\ \A j \in 1 .. n : seen[j].time \in Nat /\ seen[j].price \in Int
  BY SightingFields
<1>1. a \in Int /\ b \in Int /\ c \in Int /\ d \in Nat /\ seen[1].time <= a /\ a <= b /\ b + d = e.time
  <2>1. a \in Nat /\ b \in Nat /\ c \in Int /\ seen[1].time \in Nat
    BY <1>0
  <2>2. 1 < k => seen[1].time < a
    BY <1>0 DEF Rising
  <2>3. k < n => a < b
    BY <1>0 DEF Rising
  <2>4. seen[1].time <= a /\ a <= b
    BY <1>0, <2>1, <2>2, <2>3
  <2>5. e.time \in Nat
    BY DEF Sighting
  <2>6. e.time >= b
    OBVIOUS
  <2> HIDE DEF a, b, c
  <2> QED BY <2>1, <2>4, <2>5, <2>6
<1> HIDE DEF n, a, b, c, d, new
<1>2. ASSUME NEW s \in a .. b + d - 1
      PROVE  PriceAt(new, s) = PriceAt(seen, s) /\ PriceAt(seen, s) \in Int
  <2>1. s \in Int /\ s < e.time /\ s >= seen[1].time
    <3>1. seen[1].time \in Nat
      BY <1>0
    <3> QED BY <1>1, <3>1
  <2> QED BY <2>1, PriceBefore, PriceInForce DEF new
<1>3. ASSUME NEW s \in b .. b + d - 1 PROVE PriceAt(seen, s) = c
  <2>1. s \in Int /\ s >= seen[n].time
    BY <1>1 DEF b
  <2> QED BY <2>1, PriceLast DEF n, c
<1>4. f \in [a .. b - 1 -> Int] /\ g \in [a .. b + d - 1 -> Int]
  BY <1>1, <1>2
<1>5. (\A s \in a .. b - 1 : g[s] = f[s]) /\ (\A s \in b .. b + d - 1 : g[s] = c)
  BY <1>1, <1>2, <1>3
<1> HIDE DEF f, g
<1>6. SumFunction(g) = SumFunction(f) + c * d
  <2>1. GoesOn(f, g, a, b, d, c)
    BY <1>4, <1>5 DEF GoesOn
  <2> QED BY <1>1, <2>1, SumGoesOn
<1>7. SumFunction(f) \in Int
  <2>1. IsFiniteSet(a .. b - 1)
    BY <1>1, FS_Interval
  <2> QED BY <1>4, <2>1, SumType
<1>8. PricesBetween(seen, a, b) = SumFunction(f) /\ PricesBetween(new, a, e.time) = SumFunction(g)
  BY <1>1 DEF PricesBetween, f, g
<1> QED BY <1>6, <1>7, <1>8 DEF n, a, b, c, d, new

-----------------------------------------------------------------------------
(* Averages over time *)

LEMMA OracleFields ==
  ASSUME NEW m \in Nat \ {0}, NEW o \in Oracle(m)
  PROVE  /\ o.size = m /\ o.at \in 0 .. m - 1 /\ o.count \in Nat /\ o.last \in Int /\ o.updated \in Nat
         /\ o.window \in Nat /\ o.slots \in Ring(m, Observation) /\ o.seen \in Seen
BY DEF Oracle, Seen, Sighting
\* What each kind of record is after a call.
Sighted(o, x, t) ==
  LET prev == o.slots[o.at]
      at == (o.at + 1) % o.size
  IN  [o EXCEPT !.slots[at] = [time |-> t, sum |-> prev.sum + prev.price * (t - prev.time), price |-> x],
                !.at = at, !.count = @ + 1, !.last = x, !.updated = t,
                !.seen = Append(@, [time |-> t, price |-> x])]
LEMMA OracleRecorded ==
  ASSUME NEW o, OracleSound(o), NEW x \in Int, NEW t \in Nat, t >= o.updated + 1, NEW r, r = Sighted(o, x, t)
  PROVE  OracleSound(r) /\ r.updated = t
<1> DEFINE m == o.size
           at == o.at
           next == (at + 1) % m
           n == o.count
           prev == o.slots[at]
           seen == o.seen
           e == [time |-> t, price |-> x]
           sum == prev.sum + prev.price * (t - prev.time)
           slot == [time |-> t, sum |-> sum, price |-> x]
           more == Append(seen, e)
           slots == [o.slots EXCEPT ![next] = slot]
<1>1. m \in Nat \ {0} /\ o \in Oracle(m)
  BY DEF OracleSound
<1>2. /\ at \in 0 .. m - 1 /\ n \in Nat /\ o.updated \in Nat /\ o.slots \in Ring(m, Observation) /\ seen \in Seen
  BY <1>1, OracleFields
<1>3. n = Len(seen) /\ n > 0 /\ o.updated = seen[n].time /\ Rising(seen)
  BY DEF OracleSound, Rising
<1>4. /\ next \in 0 .. m - 1 /\ Back(next, 0, m) = next
      /\ \A j \in 0 .. m - 2 : Back(next, j + 1, m) = Back(at, j, m) /\ Back(at, j, m) # next
  <2> HIDE DEF m, at
  <2> QED BY <1>1, <1>2, RingStep
<1>5. prev \in Observation /\ prev.time = seen[n].time /\ prev.price = seen[n].price
  <2>1. SlotHolds(o, 0)
    BY <1>1, <1>3 DEF OracleSound, Smaller
  <2>2. Back(at, 0, m) = at /\ Len(seen) - 0 = n
    BY <1>2, <1>3 DEF Back
  <2> QED BY <2>1, <2>2 DEF SlotHolds
<1>6. sum \in Int /\ slot \in Observation /\ slot.time = t /\ slot.price = x /\ slot.sum = sum
  <2>1. prev.sum \in Int /\ prev.price \in Int /\ prev.time \in Nat
    BY <1>5 DEF Observation
  <2>2. sum \in Int
    BY <2>1
  <2> HIDE DEF sum
  <2> QED BY <2>2 DEF Observation
<1>7. e \in Sighting /\ e.time = t /\ e.price = x
  BY DEF Sighting
<1>8. /\ more \in Seen /\ Len(more) = n + 1 /\ more[n + 1] = e
      /\ \A k \in 1 .. n : more[k] = seen[k]
  BY <1>2, <1>3, <1>7 DEF Seen
<1>9. /\ r.size = m /\ r.at = next /\ r.count = n + 1 /\ r.last = x /\ r.updated = t /\ r.seen = more
      /\ r.slots = slots /\ r \in Oracle(m)
  <2> DEFINE cnt == n + 1
  <2> HIDE DEF m, slot, e, next
  <2>1. r = [o EXCEPT !.slots = slots, !.at = next, !.count = cnt, !.last = x, !.updated = t, !.seen = more]
    BY <1>1 DEF Oracle, m, next, slot, e, Sighted
  <2>2. slots \in Ring(m, Observation)
    BY <1>2, <1>4, <1>6 DEF Ring
  <2> HIDE DEF slots, more
  <2>3. more \in Seq([time : Nat, price : Int]) /\ cnt \in Nat
    BY <1>2, <1>8 DEF Seen, Sighting
  <2> HIDE DEF cnt
  <2> DEFINE At == 0 .. m - 1
             Size == {m}
             Slots == Ring(m, Observation)
             Flag == BOOLEAN
             History == Seq([time : Nat, price : Int])
             Kind == [updater : Party, window : Nat, size : Size, at : At, count : Nat, slots : Slots, last : Int,
                      updated : Nat, active : Flag, seen : History]
             o1 == [o EXCEPT !.slots = slots]
             o2 == [o1 EXCEPT !.at = next]
             o3 == [o2 EXCEPT !.count = cnt]
             o4 == [o3 EXCEPT !.last = x]
             o5 == [o4 EXCEPT !.updated = t]
             o6 == [o5 EXCEPT !.seen = more]
  <2>4. /\ o \in Kind /\ Kind = Oracle(m) /\ o.size = m /\ next \in At /\ slots \in Slots /\ more \in History
        /\ x \in Int /\ t \in Nat /\ cnt \in Nat
    BY <1>1, <1>4, <2>2, <2>3 DEF m, Oracle
  <2>5. r = o6
    BY ONLY <2>1
  <2> HIDE DEF At, Size, Slots, Flag, History
  <2>6. r.size = m /\ r.at = next /\ r.count = cnt /\ r.last = x /\ r.updated = t /\ r.seen = more /\ r.slots = slots
    BY ONLY <2>1, <2>4, SMTT(20)
  <2>7. o1 \in Kind
    BY ONLY <2>4
  <2> HIDE DEF o1
  <2>8. o2 \in Kind
    BY ONLY <2>4, <2>7
  <2> HIDE DEF o2
  <2>9. o3 \in Kind
    BY ONLY <2>4, <2>8
  <2> HIDE DEF o3
  <2>10. o4 \in Kind
    BY ONLY <2>4, <2>9
  <2> HIDE DEF o4
  <2>11. o5 \in Kind
    BY ONLY <2>4, <2>10
  <2> HIDE DEF o5
  <2>12. o6 \in Kind
    BY ONLY <2>4, <2>11
  <2> HIDE DEF o6
  <2> QED BY <2>4, <2>5, <2>6, <2>12 DEF cnt
<1> HIDE DEF m, at, next, n, prev, seen, e, sum, slot, more, slots
<1>10. Rising(more)
  <2> SUFFICES ASSUME NEW j \in 1 .. n + 1, NEW k \in 1 .. n + 1, j < k PROVE more[j].time < more[k].time
    BY <1>8 DEF Rising
  <2>1. j \in 1 .. n /\ more[j] = seen[j] /\ seen[j].time \in Nat
    BY <1>2, <1>3, <1>8, SightingFields
  <2>2. CASE k \in 1 .. n
    BY <1>3, <1>8, <2>1, <2>2 DEF Rising
  <2>3. CASE k = n + 1
    <3>1. more[k].time = t /\ seen[n].time < t /\ seen[n].time \in Nat
      BY <1>2, <1>3, <1>7, <1>8, <2>3
    <3>2. j < n => seen[j].time < seen[n].time
      BY <1>3, <2>1 DEF Rising
    <3> QED BY <2>1, <3>1, <3>2, <1>2
  <2> QED BY <2>2, <2>3, <1>2
<1>11. ASSUME NEW j \in 0 .. Smaller(n + 1, m) - 1 PROVE SlotHolds(r, j)
  <2>1. slots[next] = slot
    BY <1>2, <1>4 DEF slots, Ring
  <2>2. CASE j = 0
    <3>1. Back(next, j, m) = next /\ Len(more) - j = n + 1
      BY <1>2, <1>4, <1>8, <2>2
    <3>2. PricesBetween(more, t, t) = 0
      <4> DEFINE f == [s \in t .. t - 1 |-> PriceAt(more, s)]
      <4>1. f \in [{} -> Int]
        OBVIOUS
      <4> HIDE DEF f
      <4> QED BY <4>1, SumEmpty DEF PricesBetween, f
    <3>3. /\ r.slots[Back(r.at, j, r.size)] = slot /\ r.slots[r.at] = slot
          /\ r.seen[Len(r.seen) - j] = e /\ r.updated = t /\ r.seen = more
      BY ONLY <1>8, <1>9, <2>1, <3>1
    <3>4. slot.sum - slot.sum = 0
      BY <1>6
    <3> QED BY ONLY <1>6, <1>7, <3>2, <3>3, <3>4 DEF SlotHolds
  <2>3. CASE j > 0
    <3> DEFINE i == j - 1
               k == n - i
               old == o.slots[Back(at, i, m)]
               a == seen[k].time
    <3>1. i \in 0 .. m - 2 /\ i \in 0 .. Smaller(n, m) - 1 /\ j = i + 1 /\ i \in 0 .. m - 1 /\ k \in 1 .. n
      BY <1>1, <1>2, <2>3 DEF Smaller
    <3>2. SlotHolds(o, i)
      BY <3>1 DEF OracleSound, n, m
    <3>3. Back(next, j, m) = Back(at, i, m) /\ Back(at, i, m) # next /\ Back(at, i, m) \in 0 .. m - 1
      <4> HIDE DEF i
      <4> QED BY <1>1, <1>2, <1>4, <3>1, RingBack
    <3>4. slots[Back(next, j, m)] = old
      BY <1>2, <3>3 DEF slots, Ring
    <3>5. more[Len(more) - j] = seen[k]
      <4>1. Len(more) - j = k
        BY <1>2, <1>8, <3>1
      <4> QED BY <1>8, <3>1, <4>1
    <3>6. /\ old \in Observation /\ old.time = seen[k].time /\ old.price = seen[k].price
          /\ prev.sum - old.sum = PricesBetween(seen, a, o.updated)
      BY <1>3, <3>2 DEF SlotHolds, prev, at, m, n, seen
    <3>7. /\ PricesBetween(seen, a, seen[n].time) \in Int
          /\ PricesBetween(more, a, t) = PricesBetween(seen, a, seen[n].time) + seen[n].price * (t - seen[n].time)
      <4>1. Len(seen) = n /\ Len(seen) > 0 /\ e.time >= seen[Len(seen)].time /\ k \in 1 .. Len(seen)
        BY <1>2, <1>3, <1>7, <3>1
      <4> HIDE DEF k
      <4>2. /\ PricesBetween(seen, seen[k].time, seen[Len(seen)].time) \in Int
            /\ PricesBetween(Append(seen, e), seen[k].time, e.time)
               = PricesBetween(seen, seen[k].time, seen[Len(seen)].time)
                   + seen[Len(seen)].price * (e.time - seen[Len(seen)].time)
        BY <1>2, <1>3, <1>7, <4>1, PricesGoOn
      <4> QED BY ONLY <1>7, <4>1, <4>2 DEF more, a
    <3>8. prev.sum \in Int /\ prev.price \in Int /\ prev.time \in Nat /\ old.sum \in Int
      BY <1>5, <3>6 DEF Observation
    <3> HIDE DEF a, old, k
    <3> DEFINE c == prev.price * (t - prev.time)
               b == PricesBetween(seen, a, seen[n].time)
    <3>9. c \in Int /\ PricesBetween(more, a, t) = b + c /\ sum = prev.sum + c /\ b \in Int /\ prev.sum - old.sum = b
      <4>1. seen[n].price * (t - seen[n].time) = c
        BY <1>5
      <4>2. c \in Int /\ sum = prev.sum + c
        BY <3>8 DEF sum
      <4> HIDE DEF c
      <4> QED BY ONLY <1>3, <3>6, <3>7, <4>1, <4>2 DEF b
    <3> HIDE DEF c, b
    <3>10. sum - old.sum = PricesBetween(more, a, t)
      BY <3>8, <3>9
    <3> QED BY <1>6, <1>9, <2>1, <3>4, <3>5, <3>6, <3>10 DEF SlotHolds, a
  <2> QED BY <2>2, <2>3, <1>1, <1>2
<1>12. /\ r.count = Len(r.seen) /\ r.count > 0 /\ r.last = r.seen[r.count].price /\ r.updated = r.seen[r.count].time
  BY <1>2, <1>7, <1>8, <1>9
<1> QED BY <1>1, <1>8, <1>9, <1>10, <1>11, <1>12 DEF OracleSound, Rising

FirstSeen(p, w, m, x, t) ==
  [updater |-> p, window |-> w, size |-> m, at |-> 0, count |-> 1,
   slots |-> [k \in 0 .. m - 1 |-> IF k = 0 THEN [time |-> t, sum |-> 0, price |-> x] ELSE None],
   last |-> x, updated |-> t, active |-> TRUE, seen |-> <<[time |-> t, price |-> x]>>]
LEMMA OracleCreated ==
  ASSUME NEW p \in Party, NEW w \in Nat, NEW m \in Nat \ {0}, NEW x \in Int, NEW t \in Nat,
         NEW r, r = FirstSeen(p, w, m, x, t)
  PROVE  OracleSound(r) /\ r.updated = t
<1> DEFINE e == [time |-> t, price |-> x]
           slot == [time |-> t, sum |-> 0, price |-> x]
           slots == [k \in 0 .. m - 1 |-> IF k = 0 THEN slot ELSE None]
           seen == <<e>>
           zero == 0
           one == 1
           yes == TRUE
<1>1. slot \in Observation /\ slot.time = t /\ slot.price = x /\ slot.sum = 0
  BY DEF Observation
<1>2. e \in Sighting /\ e.time = t /\ e.price = x
  BY DEF Sighting
<1> HIDE DEF slot, e
<1>3. seen \in Seq([time : Nat, price : Int]) /\ Len(seen) = 1 /\ seen[1] = e
  BY <1>2 DEF Sighting
<1>4. slots \in Ring(m, Observation) /\ slots[0] = slot
  BY <1>1 DEF Ring
<1>5. r = [updater |-> p, window |-> w, size |-> m, at |-> zero, count |-> one, slots |-> slots,
           last |-> x, updated |-> t, active |-> yes, seen |-> seen]
  BY DEF FirstSeen, slot, e
<1>6. zero \in 0 .. m - 1 /\ one \in Nat /\ yes \in BOOLEAN /\ zero = 0 /\ one = 1
  OBVIOUS
<1> HIDE DEF slots, seen, zero, one, yes
<1>7. r \in Oracle(m)
  BY ONLY p \in Party, w \in Nat, x \in Int, t \in Nat, <1>3, <1>4, <1>5, <1>6, SMTT(20) DEF Oracle
<1>8. r.size = m /\ r.at = 0 /\ r.count = 1 /\ r.slots = slots /\ r.last = x /\ r.updated = t /\ r.seen = seen
  BY ONLY <1>5, <1>6
<1> HIDE <1>5
<1>9. ASSUME NEW j \in 0 .. Smaller(1, m) - 1 PROVE SlotHolds(r, j)
  <2>1. j = 0 /\ Back(0, 0, m) = 0
    BY DEF Smaller, Back
  <2>2. PricesBetween(seen, t, t) = 0
    <3> DEFINE f == [s \in t .. t - 1 |-> PriceAt(seen, s)]
    <3>1. f \in [{} -> Int]
      OBVIOUS
    <3> HIDE DEF f
    <3> QED BY <3>1, SumEmpty DEF PricesBetween, f
  <2>3. Len(seen) - j = 1 /\ slot.sum - slot.sum = 0
    BY <1>1, <1>3, <2>1
  <2>4. /\ r.slots[Back(r.at, j, r.size)] = slot /\ r.slots[r.at] = slot
        /\ r.seen[Len(r.seen) - j] = e /\ r.updated = t /\ r.seen = seen
    BY ONLY <1>3, <1>4, <1>8, <2>1, <2>3
  <2> QED BY ONLY <1>1, <1>2, <2>2, <2>3, <2>4 DEF SlotHolds
<1> QED BY <1>2, <1>3, <1>7, <1>8, <1>9 DEF OracleSound

\* Neither the window nor the updater matters to what was recorded.
LEMMA OracleSame ==
  ASSUME NEW o, OracleSound(o), NEW r, r \in Oracle(o.size), r.at = o.at, r.count = o.count,
         r.slots = o.slots, r.last = o.last, r.updated = o.updated, r.seen = o.seen
  PROVE  OracleSound(r)
<1>1. o.size \in Nat \ {0} /\ o \in Oracle(o.size) /\ r.size = o.size
  BY OracleFields DEF OracleSound
<1>2. \A j \in 0 .. Smaller(o.count, o.size) - 1 : SlotHolds(r, j)
  BY <1>1 DEF OracleSound, SlotHolds
<1> QED BY <1>1, <1>2 DEF OracleSound
Configured(o, w, q) == [o EXCEPT !.window = w, !.updater = q]
LEMMA OracleConfigured ==
  ASSUME NEW o, OracleSound(o), NEW w \in Nat, NEW q \in Party, NEW r, r = Configured(o, w, q)
  PROVE  OracleSound(r) /\ r.updated = o.updated
<1> DEFINE m == o.size
           half == [o EXCEPT !.window = w]
           all == [half EXCEPT !.updater = q]
<1>1. o \in Oracle(m)
  BY DEF OracleSound
<1> HIDE DEF m
<1>2. half \in Oracle(m)
  BY ONLY <1>1, w \in Nat DEF Oracle
<1> HIDE DEF half
<1>3. all \in Oracle(m)
  BY ONLY <1>2, q \in Party DEF Oracle
<1>4. /\ all.at = o.at /\ all.count = o.count /\ all.slots = o.slots /\ all.last = o.last
      /\ all.updated = o.updated /\ all.seen = o.seen
  BY ONLY <1>1 DEF Oracle, half
<1>5. r = all
  BY DEF half, Configured
<1> HIDE DEF all
<1>6. OracleSound(all)
  BY <1>3, <1>4, OracleSame DEF m
<1> QED BY <1>4, <1>5, <1>6
LEMMA OracleDeactivated ==
  ASSUME NEW o, OracleSound(o)
  PROVE  OracleSound([o EXCEPT !.active = FALSE]) /\ [o EXCEPT !.active = FALSE].updated = o.updated
<1> DEFINE m == o.size
           no == FALSE
           r == [o EXCEPT !.active = no]
<1>1. o \in Oracle(m) /\ no \in BOOLEAN
  BY DEF OracleSound
<1> HIDE DEF m, no
<1>2. r \in Oracle(m)
  BY ONLY <1>1 DEF Oracle
<1>4. r.at = o.at /\ r.count = o.count /\ r.slots = o.slots /\ r.last = o.last /\ r.updated = o.updated /\ r.seen = o.seen
  BY ONLY <1>1 DEF Oracle
<1> HIDE DEF r
<1>5. OracleSound(r)
  BY <1>2, <1>4, OracleSame DEF m
<1> QED BY <1>4, <1>5 DEF r, no

\* What the ring yields is the average of the prices in force.
LEMMA OracleAverages ==
  ASSUME NEW o, OracleSound(o)
  PROVE  get_twap(o) = AverageInForce(o)
<1> DEFINE m == o.size
           at == o.at
           n == o.count
           w == o.window
           seen == o.seen
           k0 == Smaller(n, m)
           ring == Newest(o)
           to == seen[n].time
           cutoff == Larger(ring[1].time - w, 0)
           Held == {j \in DOMAIN ring : \A k \in 1 .. j : ring[k].time >= cutoff}
           Reached == {k \in 1 .. n : k > n - m /\ seen[k].time >= to - w}
           c == Max(Held)
           first == n - c + 1
<1>1. m \in Nat \ {0} /\ o \in Oracle(m)
  BY DEF OracleSound
<1>2. at \in 0 .. m - 1 /\ n \in Nat /\ w \in Nat /\ seen \in Seen /\ o.updated \in Nat
  BY <1>1, OracleFields
<1>3. n = Len(seen) /\ n > 0 /\ o.updated = to /\ o.last = seen[n].price /\ Rising(seen)
  BY DEF OracleSound, Rising
<1>4. k0 \in Nat /\ k0 >= 1 /\ k0 <= n /\ k0 <= m /\ (\A i \in Nat : i <= n /\ i <= m => i <= k0)
  BY <1>1, <1>2, <1>3 DEF Smaller
<1>5. DOMAIN ring = 1 .. k0 /\ \A k \in 1 .. k0 : ring[k] = o.slots[Back(at, k - 1, m)]
  <2>1. \A k \in 1 .. k0 : k - 1 \in 0 .. m - 1
    BY <1>4, <1>1
  <2>2. \A k \in 1 .. k0 : ring_index_back(at, k - 1, m) = Back(at, k - 1, m)
    BY <1>1, <1>2, <2>1, RingBack
  <2> HIDE DEF k0
  <2> QED BY <2>2 DEF Newest, k0
<1>6. \A k \in 1 .. k0 : SlotHolds(o, k - 1)
  BY <1>4 DEF OracleSound
<1> HIDE DEF m, at, n, w, seen, k0, ring
<1>7. ASSUME NEW k \in 1 .. k0
      PROVE  /\ n - k + 1 \in 1 .. n /\ ring[k] \in Observation /\ ring[k].time = seen[n - k + 1].time
             /\ ring[1].sum - ring[k].sum = PricesBetween(seen, seen[n - k + 1].time, to)
  <2>1. SlotHolds(o, k - 1) /\ Len(seen) - (k - 1) = n - k + 1 /\ n - k + 1 \in 1 .. n /\ 1 \in 1 .. k0
    BY <1>2, <1>3, <1>4, <1>6
  <2>2. Back(at, 1 - 1, m) = at
    BY <1>2 DEF Back
  <2>3. ring[1] = o.slots[at] /\ ring[k] = o.slots[Back(at, k - 1, m)]
    BY <1>5, <2>1, <2>2
  <2> QED BY <1>3, <2>1, <2>3 DEF SlotHolds, at, m, seen
<1>8. \A k \in 1 .. n : seen[k].time \in Nat
  BY <1>2, <1>3, SightingFields
<1>9. \A j, k \in 1 .. n : j <= k => seen[j].time <= seen[k].time
  BY <1>3, <1>8 DEF Rising
<1>10. ring[1].time = to /\ to \in Nat
  <2>1. 1 \in 1 .. k0 /\ n - 1 + 1 = n /\ n \in 1 .. n
    BY <1>2, <1>3, <1>4
  <2> QED BY <1>7, <1>8, <2>1
<1>11. cutoff \in Nat /\ cutoff <= to /\ \A v \in Nat : v >= cutoff <=> v >= to - w
  BY <1>2, <1>10 DEF Larger
<1> HIDE DEF to, cutoff
<1>12. Held \in SUBSET (1 .. k0) /\ 1 \in Held
  BY <1>4, <1>5, <1>10, <1>11
<1>13. c \in Held /\ \A j \in Held : j <= c
  BY <1>4, <1>12, GreatestOf
<1>14. c \in 1 .. k0 /\ first \in 1 .. n /\ first > n - m /\ first \in Int
  BY <1>1, <1>2, <1>4, <1>12, <1>13
<1>15. first \in Reached
  <2>1. ring[c].time >= cutoff /\ ring[c].time = seen[first].time
    BY <1>7, <1>13, <1>14
  <2> QED BY <1>8, <1>11, <1>14, <2>1
<1>16. ASSUME NEW k \in Reached PROVE first <= k
  <2> DEFINE i == n - k + 1
  <2>1. i \in 1 .. k0 /\ k \in 1 .. n /\ n - i + 1 = k
    BY <1>1, <1>2, <1>4
  <2> HIDE DEF i
  <2>2. ASSUME NEW j \in 1 .. i PROVE ring[j].time >= cutoff
    <3>1. j \in 1 .. k0 /\ n - j + 1 \in 1 .. n /\ k <= n - j + 1
      BY <1>2, <1>4, <2>1
    <3>2. ring[j].time = seen[n - j + 1].time /\ seen[k].time <= seen[n - j + 1].time
      BY <1>7, <1>9, <2>1, <3>1
    <3>3. seen[k].time >= cutoff /\ seen[k].time \in Nat /\ seen[n - j + 1].time \in Nat
      BY <1>8, <1>11, <2>1, <3>1
    <3> QED BY <1>11, <3>2, <3>3
  <2>3. i \in Held
    BY <1>5, <2>1, <2>2
  <2>4. i <= c
    BY <1>13, <2>3
  <2> QED BY <1>2, <1>14, <2>1, <2>4
<1>17. Min(Reached) = first
  <2>1. Reached \in SUBSET Int
    OBVIOUS
  <2> HIDE DEF Reached
  <2> QED BY <1>15, <1>16, <2>1, LeastIs
<1>18. AverageInForce(o) = IF first = n THEN seen[n].price
                      ELSE PricesBetween(seen, seen[first].time, to) \div (to - seen[first].time)
  BY <1>3, <1>17 DEF AverageInForce, seen, w, m, to
<1>19. get_twap(o) = IF c < 2 \/ ring[1].time = ring[c].time THEN o.last
                     ELSE (ring[1].sum - ring[c].sum) \div (ring[1].time - ring[c].time)
  BY DEF get_twap, get_twap_with_window, collect_window, w, ring, cutoff
<1> HIDE DEF c, Held, Reached
<1>20. CASE c = 1
  BY <1>2, <1>3, <1>18, <1>19, <1>20
<1>21. CASE c > 1
  <2>1. first # n /\ ~(c < 2) /\ first < n /\ n \in 1 .. n
    BY <1>2, <1>14, <1>21
  <2>2. seen[first].time < to
    BY <1>3, <1>14, <2>1 DEF Rising, to
  <2>3. /\ ring[c].time = seen[first].time
        /\ ring[1].sum - ring[c].sum = PricesBetween(seen, seen[first].time, to)
    BY <1>7, <1>14
  <2>4. seen[first].time \in Nat /\ ring[1].time # ring[c].time
    BY <1>8, <1>10, <1>14, <2>2, <2>3
  <2> HIDE DEF first
  <2> QED BY ONLY <1>10, <1>18, <1>19, <2>1, <2>3, <2>4
<1> QED BY <1>14, <1>20, <1>21, <1>4

-----------------------------------------------------------------------------
(* Volatility *)

\* The ring, read from the oldest, is the latest of what was observed.
RingSound(d) ==
  /\ d.size \in Nat \ {0} /\ d.at \in 0 .. d.size - 1
  /\ d.seen \in Seq(Int) /\ d.count = Len(d.seen)
  /\ \A j \in 0 .. Smaller(d.count, d.size) - 1 : d.slots[Back(d.at, j, d.size)] = d.seen[d.count - j]
LEMMA RingLatest ==
  ASSUME NEW d, RingSound(d)
  PROVE  /\ Reverse(Newest(d)) = Latest(d)
         /\ Latest(d) \in Seq(Int) /\ Len(Latest(d)) = Smaller(d.count, d.size)
<1> DEFINE m == d.size
           n == d.count
           seen == d.seen
           k0 == Smaller(n, m)
           ring == Newest(d)
           late == Latest(d)
<1>1. m \in Nat \ {0} /\ d.at \in 0 .. m - 1 /\ n \in Nat /\ seen \in Seq(Int) /\ n = Len(seen)
  BY DEF RingSound
<1>2. k0 \in Nat /\ k0 <= n /\ k0 <= m
  BY <1>1 DEF Smaller
<1>3. ring = [k \in 1 .. k0 |-> seen[n - (k - 1)]]
  <2>1. ASSUME NEW k \in 1 .. k0 PROVE d.slots[ring_index_back(d.at, k - 1, m)] = seen[n - (k - 1)]
    <3> DEFINE j == k - 1
    <3>1. j \in 0 .. m - 1 /\ j \in 0 .. k0 - 1
      <4> HIDE DEF k0, m, n, seen
      <4> QED BY <1>1, <1>2
    <3> HIDE DEF j
    <3>2. ring_index_back(d.at, j, m) = Back(d.at, j, m)
      BY <1>1, <3>1, RingBack
    <3>3. d.slots[Back(d.at, j, m)] = seen[n - j]
      BY <3>1 DEF RingSound
    <3> QED BY <3>2, <3>3 DEF j
  <2> HIDE DEF k0
  <2> QED BY <2>1 DEF Newest, k0
<1>4. /\ late \in Seq(Int) /\ Len(late) = k0 /\ late = [i \in 1 .. k0 |-> seen[n - k0 + i]]
  <2>1. late = SubSeq(seen, n - k0 + 1, n)
    BY <1>1 DEF Latest
  <2> HIDE DEF k0, late, seen, n
  <2>2. /\ n - k0 + 1 \in Int /\ n - (n - k0 + 1) + 1 = k0 /\ (\A i \in 1 .. k0 : n - k0 + 1 + i - 1 = n - k0 + i)
        /\ (\A i \in 1 .. k0 : n - k0 + i \in 1 .. n)
    BY <1>1, <1>2
  <2>3. late = [i \in 1 .. k0 |-> seen[n - k0 + i]]
    BY <1>1, <1>2, <2>1, <2>2
  <2>4. \A i \in 1 .. k0 : seen[n - k0 + i] \in Int
    BY <1>1, <1>2, <2>2
  <2> QED BY <1>2, <2>3, <2>4
<1> HIDE DEF k0, late, seen, n, ring, m
<1>5. Len(ring) = k0
  BY <1>2, <1>3
<1>6. \A i \in 1 .. k0 : k0 - i + 1 \in 1 .. k0 /\ n - ((k0 - i + 1) - 1) = n - k0 + i
  BY <1>1, <1>2
<1>7. \A i \in 1 .. k0 : ring[k0 - i + 1] = seen[n - k0 + i]
  BY <1>3, <1>6
<1>8. Reverse(ring) = late
  BY <1>4, <1>5, <1>7 DEF Reverse
<1> QED BY <1>4, <1>8 DEF ring, late, k0, n, m

\* The mean of a ring, and that all that is computed from it is an integer.
LEMMA SumOfOne ==
  ASSUME NEW s \in Seq(Int), Len(s) = 1
  PROVE  SumFunction(s) = s[1]
<1> DEFINE f == [i \in 1 .. 0 |-> 0]
<1>1. f \in [1 .. 0 -> Int] /\ f \in [{} -> Int] /\ s \in [1 .. 0 + 1 -> Int] /\ \A i \in 1 .. 0 : s[i] = f[i]
  OBVIOUS
<1> HIDE DEF f
<1>2. SumFunction(f) = 0
  BY <1>1, SumEmpty
<1>3. SumFunction(s) = SumFunction(f) + s[0 + 1]
  BY <1>1, SumAppend
<1>4. s[1] \in Int
  OBVIOUS
<1> QED BY <1>2, <1>3, <1>4
LEMMA MeanOf ==
  ASSUME NEW s \in Seq(Int), Len(s) > 0
  PROVE  /\ compute_mean_variance(s)[1] = (SumFunction(s) * VolUnit) \div Len(s)
         /\ compute_mean_variance(s)[1] \in Int /\ compute_mean_variance(s)[2] \in Int
<1> DEFINE n == Len(s)
           sum == SumFunction(s)
           mean == (sum * VolUnit) \div n
           Square(x) == LET d == x * VolUnit - mean IN Quotient(Quotient(d, VolUnit) * d, VolUnit)
           f == [k \in DOMAIN s |-> Square(s[k])]
<1>1. n \in Nat \ {0} /\ s \in [1 .. n -> Int] /\ DOMAIN s = 1 .. n /\ IsFiniteSet(1 .. n) /\ VolUnit \in Nat \ {0}
  BY FS_Interval, OraclesAssumption
<1>2. sum \in Int
  BY <1>1, SumType
<1> HIDE DEF sum, n
<1>3. mean \in Int
  <2>1. sum * VolUnit \in Int
    BY <1>1, <1>2
  <2> QED BY <1>1, <2>1, Divided
<1>4. CASE n < 2
  <2>1. n = 1
    BY <1>1, <1>4
  <2>2. sum = s[1] /\ s[1] \in Int
    BY <2>1, SumOfOne DEF n, sum
  <2>3. compute_mean_variance(s) = <<s[1] * VolUnit, 0>>
    BY <1>4 DEF compute_mean_variance, n
  <2>4. s[1] * VolUnit \in Int /\ mean = s[1] * VolUnit
    <3> DEFINE v == s[1] * VolUnit
    <3>1. v \in Int
      BY <1>1, <2>2
    <3> HIDE DEF v
    <3>2. v \div 1 = v
      BY <3>1
    <3> QED BY <2>1, <2>2, <3>1, <3>2 DEF v
  <2> QED BY <2>3, <2>4 DEF sum, n
<1>5. CASE ~(n < 2)
  <2>1. compute_mean_variance(s) = <<mean, SumFunction(f) \div n>>
    BY <1>5 DEF compute_mean_variance, n, sum
  <2> HIDE DEF mean
  <2>2. ASSUME NEW x \in Int PROVE Square(x) \in Int
    <3> DEFINE d == x * VolUnit - mean
               q == Quotient(d, VolUnit)
    <3>1. d \in Int
      BY <1>1, <1>3
    <3> HIDE DEF d
    <3>2. q \in Int
      BY <1>1, <3>1, QuotientType
    <3> HIDE DEF q
    <3>3. q * d \in Int
      BY <3>1, <3>2
    <3>4. Quotient(q * d, VolUnit) \in Int
      BY <1>1, <3>3, QuotientType
    <3> QED BY <3>4 DEF q, d
  <2> HIDE DEF Square
  <2>3. f \in [1 .. n -> Int]
    BY <1>1, <2>2
  <2> HIDE DEF f
  <2>4. SumFunction(f) \in Int
    BY <1>1, <2>3, SumType
  <2>5. SumFunction(f) \div n \in Int
    BY <1>1, <2>4, Divided
  <2> QED BY <1>3, <2>1, <2>5 DEF mean, sum, n
<1> QED BY <1>4, <1>5
LEMMA VolatilityType ==
  ASSUME NEW mean \in Int, NEW variance \in Int
  PROVE  variance_to_volatility_bps(mean, variance) \in Int
<1>1. isqrt(variance) \in Nat /\ Bps \in Nat
  BY RootType, LedgerAssumption
<1>2. isqrt(variance) * Bps \in Int
  BY <1>1
<1>3. mean > 0 => (isqrt(variance) * Bps) \div mean \in Int
  BY <1>2, Divided
<1> QED BY <1>3 DEF variance_to_volatility_bps

\* What an observation leaves.
Snapshot == [time : Nat, volatility : Int]
Observed(old, x, t) ==
  LET at == WriteSlot(old)
      d == [old EXCEPT !.slots[at] = x, !.at = at, !.count = @ + 1, !.updated = t]
      mv == compute_mean_variance(Reverse(Newest(d)))
      vol == variance_to_volatility_bps(mv[1], mv[2])
  IN  [d EXCEPT !.mean = mv[1], !.variance = mv[2], !.volatility = vol,
                !.snapshots = Append(@, [time |-> t, volatility |-> vol]),
                !.seen = Append(@, x)]
LEMMA IndexFields ==
  ASSUME NEW m \in Nat \ {0}, NEW d \in VolatilityIndex(m)
  PROVE  /\ d.size = m /\ d.at \in 0 .. m - 1 /\ d.count \in Nat /\ d.slots \in Ring(m, Int) /\ d.updated \in Nat
         /\ d.snapshots \in Seq(Snapshot) /\ d.seen \in Seq(Int)
BY DEF VolatilityIndex, Snapshot
LEMMA IndexRings ==
  ASSUME NEW d, IndexSound(d)
  PROVE  RingSound(d)
<1>1. d.size \in Nat \ {0} /\ d \in VolatilityIndex(d.size)
  BY DEF IndexSound
<1> QED BY <1>1, IndexFields DEF IndexSound, RingSound
LEMMA IndexRecorded ==
  ASSUME NEW d, IndexSound(d), NEW x \in Int, NEW t \in Nat, t >= d.updated, NEW r, r = Observed(d, x, t)
  PROVE  IndexSound(r) /\ r.updated = t
<1> DEFINE m == d.size
           at == d.at
           next == WriteSlot(d)
           n == d.count
           seen == d.seen
           more == Append(seen, x)
           slots == [d.slots EXCEPT ![next] = x]
           half == [d EXCEPT !.slots = slots, !.at = next, !.count = n + 1, !.updated = t]
           mv == compute_mean_variance(Reverse(Newest(half)))
           mean == mv[1]
           variance == mv[2]
           vol == variance_to_volatility_bps(mean, variance)
           snap == [time |-> t, volatility |-> vol]
           log == Append(d.snapshots, snap)
<1>1. m \in Nat \ {0} /\ d \in VolatilityIndex(m)
  BY DEF IndexSound
<1>2. /\ at \in 0 .. m - 1 /\ n \in Nat /\ d.updated \in Nat /\ d.slots \in Ring(m, Int) /\ seen \in Seq(Int)
      /\ d.snapshots \in Seq(Snapshot)
  BY <1>1, IndexFields
<1>3. n = Len(seen) /\ n = Len(d.snapshots)
  BY DEF IndexSound
<1>4. r = [d EXCEPT !.slots = slots, !.at = next, !.count = n + 1, !.updated = t, !.mean = mean,
                    !.variance = variance, !.volatility = vol, !.snapshots = log, !.seen = more]
  <2>1. half = [d EXCEPT !.slots[next] = x, !.at = next, !.count = @ + 1, !.updated = t]
    BY <1>1 DEF VolatilityIndex
  <2>2. half.snapshots = d.snapshots /\ half.seen = d.seen
    BY <1>1 DEF VolatilityIndex
  <2> HIDE DEF next
  <2>3. r = [half EXCEPT !.mean = mean, !.variance = variance, !.volatility = vol,
                         !.snapshots = Append(@, snap), !.seen = Append(@, x)]
    BY <2>1 DEF Observed, next
  <2> QED BY <2>2, <2>3
<1>5. /\ half.size = m /\ half.at = next /\ half.count = n + 1 /\ half.slots = slots
  BY <1>1 DEF VolatilityIndex
<1> HIDE DEF half
<1>6. /\ next \in 0 .. m - 1 /\ Back(next, 0, m) = next
      /\ n > 0 => \A j \in 0 .. m - 2 : Back(next, j + 1, m) = Back(at, j, m) /\ Back(at, j, m) # next
  <2>1. n = 0 => next = 0
    BY DEF WriteSlot
  <2>2. n # 0 => next = (at + 1) % m
    BY DEF WriteSlot
  <2> HIDE DEF m, at, next, n
  <2>3. CASE n = 0
    BY <1>1, <2>1, <2>3 DEF Back
  <2>4. CASE n # 0
    <3>1. next = (at + 1) % m
      BY <2>2, <2>4
    <3> QED BY <1>1, <1>2, <3>1, RingStep
  <2> QED BY <2>3, <2>4
<1>7. /\ more \in Seq(Int) /\ Len(more) = n + 1 /\ more[n + 1] = x /\ \A k \in 1 .. n : more[k] = seen[k]
  <2> HIDE DEF n, seen
  <2>1. seen \in Seq(Int) /\ x \in Int /\ n = Len(seen)
    BY <1>2, <1>3
  <2>2. /\ more \in Seq(Int) /\ Len(more) = Len(seen) + 1 /\ more[Len(seen) + 1] = x
        /\ \A k \in 1 .. Len(seen) : more[k] = seen[k]
    BY ONLY <2>1
  <2> QED BY ONLY <2>1, <2>2
<1>8. slots \in Ring(m, Int) /\ slots[next] = x
  BY <1>2, <1>6 DEF Ring
<1>9. ASSUME NEW j \in 0 .. Smaller(n + 1, m) - 1 PROVE slots[Back(next, j, m)] = more[n + 1 - j]
  <2> HIDE DEF m, at, next, n, seen, more, slots
  <2>1. CASE j = 0
    BY <1>2, <1>6, <1>7, <1>8, <2>1
  <2>2. CASE j > 0
    <3> DEFINE i == j - 1
    <3>1. /\ n > 0 /\ i \in 0 .. m - 2 /\ i \in 0 .. Smaller(n, m) - 1 /\ j = i + 1 /\ i \in 0 .. m - 1
          /\ n - i \in 1 .. n /\ n + 1 - j = n - i
      BY <1>1, <1>2, <2>2 DEF Smaller
    <3> HIDE DEF i
    <3>2. d.slots[Back(at, i, m)] = seen[n - i]
      BY <3>1 DEF IndexSound, at, m, n, seen
    <3>3. Back(next, j, m) = Back(at, i, m) /\ Back(at, i, m) # next /\ Back(at, i, m) \in 0 .. m - 1
      BY <1>1, <1>2, <1>6, <3>1, RingBack
    <3>4. slots[Back(next, j, m)] = seen[n - i]
      BY <1>2, <3>2, <3>3 DEF slots, Ring
    <3> QED BY <1>7, <3>1, <3>4
  <2> QED BY <1>1, <1>2, <2>1, <2>2 DEF Smaller
<1>10. ASSUME NEW y, y.size = m, y.at = next, y.count = n + 1, y.slots = slots, y.seen = more
       PROVE  /\ RingSound(y) /\ Newest(y) = Newest(half)
  <2> HIDE DEF m, at, next, n, seen, more, slots
  <2>1. Newest(y) = Newest(half)
    BY <1>5, <1>10 DEF Newest
  <2> QED BY <1>1, <1>2, <1>6, <1>7, <1>9, <1>10, <2>1 DEF RingSound
<1> HIDE DEF m, at, next, n, seen, more, slots, mv
<1>11. PICK late : /\ Reverse(Newest(half)) = late /\ late \in Seq(Int) /\ Len(late) = Smaller(n + 1, m)
                   /\ \A y : /\ y.size = m /\ y.at = next /\ y.count = n + 1 /\ y.slots = slots /\ y.seen = more
                             => Latest(y) = late
  <2> DEFINE z == [size |-> m, at |-> next, count |-> n + 1, slots |-> slots, seen |-> more]
  <2>1. z.size = m /\ z.at = next /\ z.count = n + 1 /\ z.slots = slots /\ z.seen = more
    OBVIOUS
  <2> HIDE DEF z
  <2>2. Reverse(Newest(half)) = Latest(z) /\ Latest(z) \in Seq(Int) /\ Len(Latest(z)) = Smaller(n + 1, m)
    BY <1>10, <2>1, RingLatest
  <2>3. \A y : y.size = m /\ y.seen = more => Latest(y) = Latest(z)
    BY <2>1 DEF Latest
  <2> QED BY <2>2, <2>3
<1>12. Smaller(n + 1, m) > 0
  BY <1>1, <1>2 DEF Smaller
<1>13. mean = (SumFunction(late) * VolUnit) \div Smaller(n + 1, m) /\ mean \in Int /\ variance \in Int
  BY <1>11, <1>12, MeanOf DEF mv
<1> HIDE DEF mean, variance
<1>14. vol \in Int
  BY <1>13, VolatilityType
<1> HIDE DEF vol
<1>15. snap \in Snapshot /\ snap.time = t
  BY <1>14 DEF Snapshot
<1> HIDE DEF snap
<1>16. /\ log \in Seq(Snapshot) /\ Len(log) = n + 1 /\ log[n + 1] = snap
       /\ \A k \in 1 .. n : log[k] = d.snapshots[k]
  BY <1>2, <1>3, <1>15
<1> HIDE DEF log
<1>17. /\ r.size = m /\ r.at = next /\ r.count = n + 1 /\ r.slots = slots /\ r.updated = t /\ r.mean = mean
       /\ r.snapshots = log /\ r.seen = more /\ r \in VolatilityIndex(m)
  <2> DEFINE cnt == n + 1
             At == 0 .. m - 1
             Size == {m}
             Slots == Ring(m, Int)
             Flag == BOOLEAN
             Snaps == Seq(Snapshot)
             History == Seq(Int)
             Kind == [creator : Party, size : Size, at : At, count : Nat, slots : Slots, mean : Int,
                      variance : Int, volatility : Int, updated : Nat, active : Flag, snapshots : Snaps,
                      seen : History]
             d1 == [d EXCEPT !.slots = slots]
             d2 == [d1 EXCEPT !.at = next]
             d3 == [d2 EXCEPT !.count = cnt]
             d4 == [d3 EXCEPT !.updated = t]
             d5 == [d4 EXCEPT !.mean = mean]
             d6 == [d5 EXCEPT !.variance = variance]
             d7 == [d6 EXCEPT !.volatility = vol]
             d8 == [d7 EXCEPT !.snapshots = log]
             d9 == [d8 EXCEPT !.seen = more]
  <2>1. r = d9
    BY <1>4
  <2>2. cnt \in Nat
    BY <1>2
  <2> HIDE DEF cnt
  <2>4. /\ d \in Kind /\ Kind = VolatilityIndex(m) /\ d.size = m /\ next \in At /\ slots \in Slots /\ more \in History
        /\ log \in Snaps /\ mean \in Int /\ variance \in Int /\ vol \in Int /\ t \in Nat /\ cnt \in Nat
    BY <1>1, <1>6, <1>7, <1>8, <1>13, <1>14, <1>16, <2>2 DEF m, VolatilityIndex, Snapshot
  <2> HIDE DEF At, Size, Slots, Flag, Snaps, History
  <2>5. d4.size = m /\ d4.at = next /\ d4.count = cnt /\ d4.slots = slots /\ d4.updated = t
    BY ONLY <2>4, SMTT(20)
  <2>7. d1 \in Kind
    BY ONLY <2>4
  <2> HIDE DEF d1
  <2>8. d2 \in Kind
    BY ONLY <2>4, <2>7
  <2> HIDE DEF d2
  <2>9. d3 \in Kind
    BY ONLY <2>4, <2>8
  <2> HIDE DEF d3
  <2>10. d4 \in Kind
    BY ONLY <2>4, <2>9
  <2> HIDE DEF d4
  <2>11. d5 \in Kind
    BY ONLY <2>4, <2>10
  <2> HIDE DEF d5
  <2>12. d6 \in Kind
    BY ONLY <2>4, <2>11
  <2> HIDE DEF d6
  <2>13. d7 \in Kind
    BY ONLY <2>4, <2>12
  <2> HIDE DEF d7
  <2>14. d8 \in Kind
    BY ONLY <2>4, <2>13
  <2> HIDE DEF d8
  <2>15. d9 \in Kind
    BY ONLY <2>4, <2>14
  <2> HIDE DEF d9
  <2>16. d9.size = m /\ d9.at = next /\ d9.count = cnt /\ d9.slots = slots /\ d9.updated = t /\ d9.mean = mean
         /\ d9.snapshots = log /\ d9.seen = more
    BY ONLY <2>4, <2>5, <2>10, SMTT(20) DEF d9, d8, d7, d6, d5
  <2> QED BY <2>1, <2>4, <2>15, <2>16 DEF cnt
<1>18. Latest(r) = late
  BY <1>11, <1>17
<1>19. ASSUME NEW j \in 1 .. n PROVE log[j].time <= t /\ log[j].time \in Nat
  <2>1. log[j] = d.snapshots[j] /\ d.snapshots[j].time <= d.updated
    BY <1>16 DEF IndexSound, n
  <2>2. d.snapshots[j] \in Snapshot
    BY <1>2, <1>3
  <2>3. d.snapshots[j].time \in Nat
    BY <2>2 DEF Snapshot
  <2> DEFINE u == d.updated
             v == d.snapshots[j].time
  <2>4. u \in Nat /\ v \in Nat /\ v <= u /\ t >= u
    BY <1>2, <2>1, <2>3
  <2> HIDE DEF u, v
  <2>5. v <= t
    BY <2>4
  <2> QED BY <2>1, <2>4, <2>5 DEF v
<1>20. \A j \in 1 .. n + 1 : log[j].time <= t
  BY <1>2, <1>15, <1>16, <1>19
<1>21. ASSUME NEW j \in 1 .. n + 1, NEW k \in 1 .. n + 1, j < k PROVE log[j].time <= log[k].time
  <2>1. CASE k = n + 1
    BY <1>15, <1>16, <1>20, <2>1
  <2>2. CASE k \in 1 .. n
    <3>1. j \in 1 .. n /\ log[j] = d.snapshots[j] /\ log[k] = d.snapshots[k]
      <4>1. j \in 1 .. n
        <5>1. n \in Nat /\ j \in 1 .. n + 1 /\ k \in 1 .. n /\ j < k
          BY <1>2, <1>21, <2>2
        <5> QED BY ONLY <5>1
      <4> QED BY <1>16, <2>2, <4>1
    <3> QED BY <1>21, <2>2, <3>1 DEF IndexSound, n
  <2> QED BY <1>2, <2>1, <2>2
<1>22. r.size \in Nat \ {0} /\ r \in VolatilityIndex(r.size) /\ r.count = Len(r.seen) /\ r.count = Len(r.snapshots)
  BY <1>1, <1>7, <1>16, <1>17
<1>23. \A j \in 0 .. Smaller(r.count, r.size) - 1 : r.slots[Back(r.at, j, r.size)] = r.seen[r.count - j]
  <2>1. \A j \in 0 .. Smaller(n + 1, m) - 1 : slots[Back(next, j, m)] = more[n + 1 - j]
    BY <1>9
  <2> SUFFICES ASSUME NEW j \in 0 .. Smaller(r.count, r.size) - 1
               PROVE  r.slots[Back(r.at, j, r.size)] = r.seen[r.count - j]
    OBVIOUS
  <2>2. j \in 0 .. Smaller(n + 1, m) - 1
    BY <1>17
  <2>3. slots[Back(next, j, m)] = more[n + 1 - j]
    BY <2>1, <2>2
  <2>4. r.count - j = n + 1 - j /\ Back(r.at, j, r.size) = Back(next, j, m) /\ r.slots = slots /\ r.seen = more
    <3>1. r.count - j = n + 1 - j
      BY <1>2, <1>17
    <3>2. Back(r.at, j, r.size) = Back(next, j, m) /\ r.slots = slots /\ r.seen = more
      BY <1>17
    <3> QED BY <3>1, <3>2
  <2> QED BY ONLY <2>3, <2>4
<1> QED BY <1>13, <1>17, <1>18, <1>20, <1>21, <1>22, <1>23 DEF IndexSound

NewIndex(p, m, t) ==
  [creator |-> p, size |-> m, at |-> 0, count |-> 0, slots |-> [k \in 0 .. m - 1 |-> None],
   mean |-> 0, variance |-> 0, volatility |-> 0, updated |-> t, active |-> TRUE, snapshots |-> <<>>, seen |-> <<>>]
LEMMA IndexCreated ==
  ASSUME NEW p \in Party, NEW m \in Nat \ {0}, NEW t \in Nat, NEW r, r = NewIndex(p, m, t)
  PROVE  IndexSound(r) /\ r.updated = t
<1> DEFINE slots == [k \in 0 .. m - 1 |-> None]
           zero == 0
           yes == TRUE
           none == <<>>
           Snaps == Seq([time : Nat, volatility : Int])
<1>1. /\ slots \in Ring(m, Int) /\ zero \in Nat /\ zero \in Int /\ zero \in 0 .. m - 1 /\ yes \in BOOLEAN
      /\ none \in Seq(Int) /\ none \in Snaps /\ Len(none) = 0 /\ zero = 0
  BY DEF Ring
<1>2. r = [creator |-> p, size |-> m, at |-> zero, count |-> zero, slots |-> slots, mean |-> zero, variance |-> zero,
           volatility |-> zero, updated |-> t, active |-> yes, snapshots |-> none, seen |-> none]
  BY DEF NewIndex
<1> HIDE DEF slots, zero, yes, none, Snaps
<1>3. r \in VolatilityIndex(m)
  BY ONLY p \in Party, t \in Nat, <1>1, <1>2, SMTT(20) DEF VolatilityIndex, Snaps
<1>4. r.size = m /\ r.count = 0 /\ r.seen = none /\ r.snapshots = none /\ r.updated = t
  BY ONLY <1>1, <1>2
<1>5. Smaller(r.count, r.size) = 0
  BY <1>4 DEF Smaller
<1>6. \A j \in 0 .. Smaller(r.count, r.size) - 1 : FALSE
  BY ONLY <1>5
<1>7. /\ \A j \in 1 .. r.count : FALSE
      /\ ~(r.count > 0)
  BY <1>4
<1> QED BY <1>1, <1>3, <1>4, <1>6, <1>7 DEF IndexSound
LEMMA IndexDeactivated ==
  ASSUME NEW d, IndexSound(d)
  PROVE  IndexSound([d EXCEPT !.active = FALSE]) /\ [d EXCEPT !.active = FALSE].updated = d.updated
<1> DEFINE m == d.size
           no == FALSE
           r == [d EXCEPT !.active = no]
<1>1. m \in Nat \ {0} /\ d \in VolatilityIndex(m) /\ no \in BOOLEAN
  BY DEF IndexSound
<1> HIDE DEF no
<1>2. r \in VolatilityIndex(m)
  <2> HIDE DEF m
  <2> QED BY ONLY <1>1 DEF VolatilityIndex
<1>3. /\ r.size = d.size /\ r.at = d.at /\ r.count = d.count /\ r.slots = d.slots /\ r.mean = d.mean
      /\ r.updated = d.updated /\ r.snapshots = d.snapshots /\ r.seen = d.seen
  BY ONLY <1>1 DEF VolatilityIndex
<1> HIDE DEF r
<1>4. Latest(r) = Latest(d)
  BY <1>3 DEF Latest
<1>5. IndexSound(r)
  BY <1>1, <1>2, <1>3, <1>4 DEF IndexSound
<1> QED BY <1>3, <1>5 DEF r, no

\* What is read off an index.
LEMMA IndexReads ==
  ASSUME NEW d, IndexSound(d), NEW from \in Nat, NEW to \in Nat
  PROVE  get_snapshots_in_range(d, from, to, Len(d.seen)) =
           {e \in DOMAIN d.snapshots : from <= d.snapshots[e].time /\ d.snapshots[e].time <= to}
<1> DEFINE n == Len(d.seen)
           log == d.snapshots
           stop == {k \in DOMAIN log : log[k].time < from}
           hit == {k \in DOMAIN log : (\A e \in stop : k > e) /\ log[k].time <= to}
           Within == {e \in DOMAIN log : from <= log[e].time /\ log[e].time <= to}
<1>1. d.size \in Nat \ {0} /\ d \in VolatilityIndex(d.size)
  BY DEF IndexSound
<1>2. log \in Seq(Snapshot) /\ n \in Nat /\ n = Len(log) /\ DOMAIN log = 1 .. n
  BY <1>1, IndexFields DEF IndexSound
<1>3. \A k \in 1 .. n : log[k].time \in Nat
  <2>1. \A k \in 1 .. n : log[k] \in Snapshot
    BY <1>2
  <2> QED BY <2>1 DEF Snapshot
<1>4. \A j, k \in 1 .. n : j < k => log[j].time <= log[k].time
  BY DEF IndexSound
<1> HIDE DEF n, log
<1>5. hit = Within
  <2>1. ASSUME NEW k \in hit PROVE k \in Within
    <3>1. k \in 1 .. n /\ k \notin stop
      BY <1>2
    <3> QED BY <1>2, <1>3, <3>1
  <2>2. ASSUME NEW k \in Within PROVE k \in hit
    <3> SUFFICES ASSUME NEW e \in stop PROVE k > e
      OBVIOUS
    <3>1. k \in 1 .. n /\ e \in 1 .. n /\ log[e].time < log[k].time /\ log[e].time \in Nat /\ log[k].time \in Nat
      BY <1>2, <1>3
    <3>2. ~(k < e) /\ k # e
      BY <1>4, <3>1
    <3> QED BY <3>1, <3>2
  <2> QED BY <2>1, <2>2
<1>6. ASSUME NEW k \in hit PROVE Cardinality({e \in hit : e >= k}) <= n
  <2> DEFINE S == {e \in hit : e >= k}
  <2>0. hit \subseteq 1 .. n
    BY <1>2
  <2> HIDE DEF hit
  <2>1. S \in SUBSET (1 .. n) /\ IsFiniteSet(1 .. n) /\ Cardinality(1 .. n) = n
    <3>1. S \in SUBSET (1 .. n)
      BY <2>0
    <3>2. n \in Nat /\ n \in Int /\ 1 \in Int
      BY <1>2
    <3>3. IsFiniteSet(1 .. n) /\ Cardinality(1 .. n) = IF 1 > n THEN 0 ELSE n - 1 + 1
      BY <3>2, FS_Interval, Zenon
    <3> QED BY <3>1, <3>2, <3>3
  <2> HIDE DEF S
  <2>2. Cardinality(S) <= Cardinality(1 .. n)
    BY <2>1, FS_Subset
  <2> QED BY <2>1, <2>2 DEF S
<1>7. get_snapshots_in_range(d, from, to, n) = {k \in hit : Cardinality({e \in hit : e >= k}) <= n}
  BY DEF get_snapshots_in_range, log
<1> HIDE DEF hit
<1>8. {k \in hit : Cardinality({e \in hit : e >= k}) <= n} = hit
  BY <1>6
<1> QED BY <1>5, <1>7, <1>8 DEF n, log

-----------------------------------------------------------------------------
LEMMA FeedsRead ==
  ASSUME OraclesInv, MaxTime \in Nat
  PROVE  TwapIsAverage /\ IndexIsLatest
<1>1. TwapIsAverage
  BY OracleAverages DEF OraclesInv, TwapIsAverage
<1>2. ASSUME NEW i \in DOMAIN indices
      PROVE  LET d == indices[i]
                 n == Len(d.seen)
             IN  /\ n > 0 => d.mean = (SumFunction(Latest(d)) * VolUnit) \div Smaller(n, d.size)
                 /\ Reverse(Newest(d)) = Latest(d)
                 /\ \A from, to \in 1 .. MaxTime :
                      get_snapshots_in_range(d, from, to, n) =
                        {e \in DOMAIN d.snapshots : from <= d.snapshots[e].time /\ d.snapshots[e].time <= to}
  <2> DEFINE d == indices[i]
  <2>1. IndexSound(d)
    BY DEF OraclesInv
  <2> HIDE DEF d
  <2>2. Len(d.seen) > 0 => d.mean = (SumFunction(Latest(d)) * VolUnit) \div Smaller(Len(d.seen), d.size)
    BY <2>1 DEF IndexSound
  <2>3. Reverse(Newest(d)) = Latest(d)
    BY <2>1, IndexRings, RingLatest
  <2>4. \A from, to \in 1 .. MaxTime :
          get_snapshots_in_range(d, from, to, Len(d.seen)) =
            {e \in DOMAIN d.snapshots : from <= d.snapshots[e].time /\ d.snapshots[e].time <= to}
    <3>1. 1 .. MaxTime \subseteq Nat
      OBVIOUS
    <3> QED BY <2>1, <3>1, IndexReads
  <2> QED BY <2>2, <2>3, <2>4 DEF d
<1> QED BY <1>1, <1>2 DEF IndexIsLatest

\* A list that grows by an entry, or in which one is written.
LEMMA ListOf ==
  ASSUME NEW S, NEW s \in Seq(S)
  PROVE  s \in Seq(Range(s))
<1>1. Len(s) \in Nat /\ s \in [1 .. Len(s) -> S] /\ DOMAIN s = 1 .. Len(s)
  OBVIOUS
<1>2. s \in [1 .. Len(s) -> Range(s)]
  BY <1>1 DEF Range
<1> QED BY <1>1, <1>2
LEMMA ListGains ==
  ASSUME NEW s, s \in Seq(Range(s)), NEW r, NEW v, v = Append(s, r)
  PROVE  v \in Seq(Range(v)) /\ \A i \in DOMAIN v : v[i] = r \/ (i \in DOMAIN s /\ v[i] = s[i])
<1> DEFINE S == Range(s) \cup {r}
           R == Range(s)
<1>1. s \in Seq(R) /\ R \subseteq S /\ r \in S
  OBVIOUS
<1> HIDE DEF R, S
<1>2. s \in Seq(S)
  BY ONLY <1>1
<1>3. v \in Seq(S) /\ \A i \in DOMAIN v : v[i] = r \/ (i \in DOMAIN s /\ v[i] = s[i])
  BY ONLY <1>1, <1>2, v = Append(s, r)
<1> QED BY <1>3, ListOf
LEMMA ListPut ==
  ASSUME NEW s, s \in Seq(Range(s)), NEW k \in DOMAIN s, NEW r, NEW v, v = [s EXCEPT ![k] = r]
  PROVE  v \in Seq(Range(v)) /\ \A i \in DOMAIN v : v[i] = r \/ (i \in DOMAIN s /\ v[i] = s[i])
<1> DEFINE S == Range(s) \cup {r}
           R == Range(s)
<1>1. s \in Seq(R) /\ R \subseteq S /\ r \in S
  OBVIOUS
<1> HIDE DEF R, S
<1>2. s \in Seq(S) /\ k \in DOMAIN s
  BY ONLY <1>1, k \in DOMAIN s
<1>3. v \in Seq(S) /\ \A i \in DOMAIN v : v[i] = r \/ (i \in DOMAIN s /\ v[i] = s[i])
  BY ONLY <1>1, <1>2, v = [s EXCEPT ![k] = r]
<1> QED BY <1>3, ListOf

OracleNow(o) == OracleSound(o) /\ o.updated <= now
IndexNow(d) == IndexSound(d) /\ d.updated <= now
LEMMA OraclesNow ==
  ASSUME OraclesInv, UNCHANGED now, NEW r, OracleNow(r), NEW k, UNCHANGED <<volConfig, indices>>,
         oracles' = Append(oracles, r) \/ (k \in DOMAIN oracles /\ oracles' = [oracles EXCEPT ![k] = r])
  PROVE  OraclesInv'
<1>1. oracles \in Seq(Range(oracles)) /\ \A i \in DOMAIN oracles : OracleNow(oracles[i])
  BY DEF OraclesInv, OracleNow
<1>2. /\ oracles' \in Seq(Range(oracles'))
      /\ \A i \in DOMAIN oracles' : oracles'[i] = r \/ (i \in DOMAIN oracles /\ oracles'[i] = oracles[i])
  BY <1>1, ListGains, ListPut
<1>3. \A i \in DOMAIN oracles' : OracleNow(oracles'[i])
  BY <1>1, <1>2
<1>4. \A i \in DOMAIN oracles' : OracleSound(oracles'[i]) /\ oracles'[i].updated <= now'
  BY <1>3 DEF OracleNow
<1> QED BY <1>2, <1>4 DEF OraclesInv
LEMMA IndicesNow ==
  ASSUME OraclesInv, UNCHANGED now, NEW r, IndexNow(r), NEW k, UNCHANGED <<volConfig, oracles>>,
         indices' = Append(indices, r) \/ (k \in DOMAIN indices /\ indices' = [indices EXCEPT ![k] = r])
  PROVE  OraclesInv'
<1>1. indices \in Seq(Range(indices)) /\ \A i \in DOMAIN indices : IndexNow(indices[i])
  BY DEF OraclesInv, IndexNow
<1>2. /\ indices' \in Seq(Range(indices'))
      /\ \A i \in DOMAIN indices' : indices'[i] = r \/ (i \in DOMAIN indices /\ indices'[i] = indices[i])
  BY <1>1, ListGains, ListPut
<1>3. \A i \in DOMAIN indices' : IndexNow(indices'[i])
  BY <1>1, <1>2
<1>4. \A i \in DOMAIN indices' : IndexSound(indices'[i]) /\ indices'[i].updated <= now'
  BY <1>3 DEF IndexNow
<1> QED BY <1>2, <1>4 DEF OraclesInv
LEMMA TwapKeeps ==
  ASSUME OraclesInv, now \in Nat, UNCHANGED now, TwapNext
  PROVE  OraclesInv'
<1>1. ASSUME NEW p \in Party, NEW w \in Windows, NEW m \in Rings, NEW x \in FeedPrices,
             twap_create_oracle(p, w, m, x)
      PROVE  OraclesInv'
  <2> DEFINE r == FirstSeen(p, w, m, x, now)
  <2>1. w \in Nat /\ m \in Nat \ {0} /\ x \in Int
    BY <1>1, OraclesAssumption DEF twap_create_oracle
  <2>2. oracles' = Append(oracles, r) /\ UNCHANGED <<volConfig, indices>>
    BY <1>1 DEF twap_create_oracle, FirstSeen
  <2> HIDE DEF r
  <2>3. OracleSound(r) /\ r.updated = now
    BY <2>1, OracleCreated DEF r
  <2>4. OracleNow(r)
    BY <2>3 DEF OracleNow
  <2> QED BY <2>2, <2>4, OraclesNow
<1>2. ASSUME NEW p \in Party, NEW i \in DOMAIN oracles, NEW x \in FeedPrices, twap_record_price(p, i, x)
      PROVE  OraclesInv'
  <2> DEFINE o == oracles[i]
             r == Sighted(o, x, now)
  <2>1. x \in Int
    BY OraclesAssumption
  <2>2. oracles' = [oracles EXCEPT ![i] = r] /\ UNCHANGED <<volConfig, indices>> /\ now >= o.updated + 1
    BY <1>2 DEF twap_record_price, Sighted
  <2>3. OracleSound(o)
    BY DEF OraclesInv
  <2> HIDE DEF o, r
  <2>4. OracleSound(r) /\ r.updated = now
    BY <2>1, <2>2, <2>3, OracleRecorded DEF r
  <2>5. OracleNow(r)
    BY <2>4 DEF OracleNow
  <2> QED BY <2>2, <2>5, OraclesNow
<1>3. ASSUME NEW p \in Party, NEW i \in DOMAIN oracles, NEW w \in Windows, NEW q \in Party,
             twap_update_config(p, i, w, q)
      PROVE  OraclesInv'
  <2> DEFINE o == oracles[i]
             r == Configured(o, w, q)
  <2>1. w \in Nat
    BY OraclesAssumption
  <2>2. oracles' = [oracles EXCEPT ![i] = r] /\ UNCHANGED <<volConfig, indices>>
    BY <1>3 DEF twap_update_config, Configured
  <2>3. OracleSound(o) /\ o.updated <= now
    BY DEF OraclesInv
  <2> HIDE DEF o, r
  <2>4. OracleSound(r) /\ r.updated = o.updated
    BY <2>1, <2>3, OracleConfigured DEF r
  <2>5. OracleNow(r)
    BY <2>3, <2>4 DEF OracleNow
  <2> QED BY <2>2, <2>5, OraclesNow
<1>4. ASSUME NEW p \in Party, NEW i \in DOMAIN oracles, twap_deactivate(p, i)
      PROVE  OraclesInv'
  <2> DEFINE o == oracles[i]
             r == [o EXCEPT !.active = FALSE]
  <2>2. oracles' = [oracles EXCEPT ![i] = r] /\ UNCHANGED <<volConfig, indices>>
    BY <1>4 DEF twap_deactivate
  <2>3. OracleSound(o) /\ o.updated <= now
    BY DEF OraclesInv
  <2> HIDE DEF o
  <2>4. OracleSound(r) /\ r.updated = o.updated
    BY <2>3, OracleDeactivated
  <2> HIDE DEF r
  <2>5. OracleNow(r)
    BY <2>3, <2>4 DEF OracleNow
  <2> QED BY <2>2, <2>5, OraclesNow
<1> QED BY <1>1, <1>2, <1>3, <1>4, Zenon DEF TwapNext
LEMMA VolatilityKeeps ==
  ASSUME OraclesInv, now \in Nat, UNCHANGED now, VolatilityNext
  PROVE  OraclesInv'
<1>0. volConfig.ring \in Nat \ {0} /\ volConfig.interval \in Nat
  BY DEF OraclesInv
<1>1. ASSUME NEW m \in Rings, NEW n \in Intervals, set_volatility_config(m, n)
      PROVE  OraclesInv'
  <2>1. m \in Nat \ {0} /\ n \in Nat
    BY <1>1, OraclesAssumption DEF set_volatility_config
  <2>2. volConfig' = [ring |-> m, interval |-> n] /\ UNCHANGED <<oracles, indices>>
    BY <1>1 DEF set_volatility_config
  <2>3. volConfig' \in [ring : Nat \ {0}, interval : Nat]
    BY <2>1, <2>2
  <2> QED BY <2>2, <2>3 DEF OraclesInv
<1>2. ASSUME NEW p \in Party, NEW t \in Token, NEW n \in Rings \cup {0}, create_volatility_index(p, t, n)
      PROVE  OraclesInv'
  <2> DEFINE m == IF n = 0 THEN volConfig.ring ELSE n
             r == NewIndex(p, m, now)
  <2>1. m \in Nat \ {0}
    BY <1>0, OraclesAssumption
  <2>2. indices' = Append(indices, r) /\ UNCHANGED <<volConfig, oracles>>
    BY <1>2 DEF create_volatility_index, NewIndex
  <2> HIDE DEF r, m
  <2>3. IndexSound(r) /\ r.updated = now
    BY <2>1, IndexCreated DEF r
  <2>4. IndexNow(r)
    BY <2>3 DEF IndexNow
  <2> QED BY <2>2, <2>4, IndicesNow
<1>3. ASSUME NEW i \in DOMAIN indices, NEW x \in FeedPrices, record_volatility_observation(i, x)
      PROVE  OraclesInv'
  <2> DEFINE d == indices[i]
             r == Observed(d, x, now)
  <2>1. x \in Int
    BY OraclesAssumption
  <2>2. indices' = [indices EXCEPT ![i] = r] /\ UNCHANGED <<volConfig, oracles>>
    BY <1>3, Zenon DEF record_volatility_observation, Observed
  <2>3. IndexSound(d)
    BY DEF OraclesInv
  <2>4. now >= d.updated + volConfig.interval
    BY <1>3, Zenon DEF record_volatility_observation
  <2>5. d.updated \in Nat
    BY <2>3, IndexFields DEF IndexSound
  <2> HIDE DEF d, r
  <2>6. now >= d.updated
    BY <1>0, <2>4, <2>5
  <2>7. IndexSound(r) /\ r.updated = now
    BY <2>1, <2>3, <2>6, IndexRecorded DEF r
  <2>8. IndexNow(r)
    BY <2>7 DEF IndexNow
  <2> QED BY <2>2, <2>8, IndicesNow
<1>4. ASSUME NEW p \in Party, NEW i \in DOMAIN indices, deactivate_volatility_index(p, i)
      PROVE  OraclesInv'
  <2> DEFINE d == indices[i]
             r == [d EXCEPT !.active = FALSE]
  <2>2. indices' = [indices EXCEPT ![i] = r] /\ UNCHANGED <<volConfig, oracles>>
    BY <1>4 DEF deactivate_volatility_index
  <2>3. IndexSound(d) /\ d.updated <= now
    BY DEF OraclesInv
  <2> HIDE DEF d
  <2>4. IndexSound(r) /\ r.updated = d.updated
    BY <2>3, IndexDeactivated
  <2> HIDE DEF r
  <2>5. IndexNow(r)
    BY <2>3, <2>4 DEF IndexNow
  <2> QED BY <2>2, <2>5, IndicesNow
<1> QED BY <1>1, <1>2, <1>3, <1>4, Zenon DEF VolatilityNext

LEMMA FeedsStay ==
  ASSUME OraclesInv, now \in Nat, now' \in Nat, now' >= now, UNCHANGED oracleVars
  PROVE  OraclesInv'
<1>1. UNCHANGED <<oracles, volConfig, indices>>
  BY DEF oracleVars
<1>2. ASSUME NEW u \in Nat, u <= now PROVE u <= now'
  BY <1>2
<1>3. \A i \in DOMAIN oracles : oracles[i].updated \in Nat
  BY OracleFields DEF OraclesInv, OracleSound
<1>4. \A i \in DOMAIN indices : indices[i].updated \in Nat
  BY IndexFields DEF OraclesInv, IndexSound
<1> QED BY <1>1, <1>2, <1>3, <1>4 DEF OraclesInv
LEMMA FeedsMove ==
  ASSUME MarketsInv, OraclesInv, [Next]_marketVars
  PROVE  OraclesInv'
<1>0. now \in Nat /\ MaxTime \in Nat
  BY LedgerAssumption DEF MarketsInv, LedgerTypeOK
<1>1. CASE Next
  <2>1. CASE Market
    <3>1. UNCHANGED now
      BY <2>1, Zenon DEF Market
    <3>2. TwapNext \/ VolatilityNext \/ UNCHANGED oracleVars
      BY <2>1, Zenon DEF Market
    <3> QED BY <1>0, <3>1, <3>2, TwapKeeps, VolatilityKeeps, FeedsStay
  <2>2. CASE (Tip \/ Tick) /\ UNCHANGED oracleVars
    <3>1. now' = now \/ now' = now + 1
      BY <2>2, Zenon DEF Tip, Tick
    <3> QED BY <1>0, <2>2, <3>1, FeedsStay
  <2> QED BY <1>1, <2>1, <2>2, Zenon DEF Next
<1>2. CASE UNCHANGED marketVars
  <2>1. UNCHANGED now /\ UNCHANGED oracleVars
    BY <1>2 DEF marketVars, ledgerVars
  <2> QED BY <1>0, <2>1, FeedsStay
<1> QED BY <1>1, <1>2

\* What every ring holds is the latest of what was observed, with the sums of the prices in
\* force in between: so it was, and so every call leaves it.
LEMMA FeedsAlwaysSound == MarketsSpec => []OraclesInv
<1>1. Init => OraclesInv
  BY OraclesAssumption DEF Init, OraclesInit, OraclesInv
<1>2. MarketsInv /\ OraclesInv /\ [Next]_marketVars => OraclesInv'
  BY FeedsMove
<1> QED BY <1>1, <1>2, MarketsInvariant, PTL DEF MarketsSpec

\* What is read off the records is what went into them, for every length of a ring, every
\* window and however often the ring wrapped: the average of a feed, the latest index, the
\* snapshots of a span of time, the votes of a round, the list of active markets.
THEOREM FeedsAlwaysTrue == MarketsSpec => []FeedsTrue
<1>1. OraclesInv /\ VotesCast /\ ActiveMarketsUnsettled => FeedsTrue
  BY FeedsRead, LedgerAssumption DEF FeedsTrue
<1> QED BY <1>1, FeedsAlwaysSound, ListsAlwaysTrue, PTL
=============================================================================
