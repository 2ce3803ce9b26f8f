------------------------- MODULE LegacyMarketMaking -------------------------
(***************************************************************************)
(* Market makers of the legacy tip jar: each keeps an inventory of two     *)
(* tokens in the jar and trades at a spread around the price a caller      *)
(* names.  The fees of its trades are its own, in the quote token.         *)
(***************************************************************************)
EXTENDS LegacyLedger, SequencesExt

CONSTANTS
  Spreads,        \* spreads, in Bps
  MaxSpread,      \* MAX_SPREAD_BPS
  TradeFee,       \* TRADE_FEE_BPS
  MidPrices,      \* prices named in calls
  MakerUnit,      \* PRICE_PRECISION
  MaxTrades,      \* max_trade_size of makers
  Withdrawals     \* amounts named in withdrawals, of either sign

ASSUME MakersAssumption ==
  /\ Spreads \subseteq Nat /\ MaxSpread \in Nat /\ MaxSpread <= 2 * Bps
  /\ TradeFee \in Nat /\ MidPrices \subseteq Nat /\ MakerUnit \in Nat \ {0}
  /\ MaxTrades \subseteq Nat /\ Withdrawals \subseteq Int

VARIABLES
  makers,         \* MarketMakingKey::Maker
  activeMakers    \* MarketMakingKey::ActiveMakers

makerVars == <<makers, activeMakers>>

MarketMakingInit ==
  /\ makers = <<>>
  /\ activeMakers = {}

SpreadOk(r) == r > 0 /\ r <= MaxSpread

\* base and quote are transferred one after the other.
PayPair(m, from, to, x, y) ==
  /\ wallet' = Transfer(Transfer(wallet, m.base, from, to, x), m.quote, from, to, y)
  /\ \A t \in Token : wallet'[t][from] >= 0
Trade(m, p, x, y) ==
  /\ wallet' = Transfer(Transfer(wallet, m.quote, p, Jar, y), m.base, Jar, p, x)
  /\ wallet'[m.quote][p] >= 0 /\ wallet'[m.base][Jar] >= 0
  /\ wallet'[m.base][p] >= 0 /\ wallet'[m.quote][Jar] >= 0

\* free_x and free_y are history: what negative withdrawals added to the inventory.
register_maker(p, base, quote, r, x, y, max) ==
  LET m == [maker |-> p, base |-> base, quote |-> quote, spread |-> r, x |-> x, y |-> y,
            max |-> max, fees |-> 0, status |-> "Active", free_x |-> 0, free_y |-> 0]
  IN  /\ require_not_paused
      /\ Whitelisted(base) /\ Whitelisted(quote)
      /\ base # quote
      /\ SpreadOk(r)
      /\ x + y > 0
      /\ PayPair(m, p, Jar, x, y)
      /\ makers' = Append(makers, m)
      /\ activeMakers' = activeMakers \cup {Len(makers) + 1}

HalfSpread(m, price) == (price * m.spread) \div (2 * Bps)
Fee(y) == (y * TradeFee) \div Bps

execute_buy(p, i, x, price, max) ==
  LET m == makers[i]
      y == (x * (price + HalfSpread(m, price))) \div MakerUnit
  IN  /\ require_not_paused
      /\ m.status = "Active"
      /\ x <= m.max /\ x <= m.x
      /\ y + Fee(y) <= max
      /\ makers' = [makers EXCEPT ![i] = [m EXCEPT !.x = @ - x, !.y = @ + y, !.fees = @ + Fee(y)]]
      /\ Trade(m, p, x, y + Fee(y))
      /\ UNCHANGED activeMakers

execute_sell(p, i, x, price, min) ==
  LET m == makers[i]
      y == (x * (price - HalfSpread(m, price))) \div MakerUnit
  IN  /\ require_not_paused
      /\ m.status = "Active"
      /\ x <= m.max
      /\ m.y >= y
      /\ y - Fee(y) >= min
      /\ makers' = [makers EXCEPT ![i] = [m EXCEPT !.x = @ + x, !.y = @ - y, !.fees = @ + Fee(y)]]
      /\ Trade(m, p, -x, Fee(y) - y)
      /\ UNCHANGED activeMakers

deposit_inventory(p, i, x, y) ==
  /\ require_not_paused
  /\ makers[i].maker = p
  /\ makers[i].status # "Closed"
  /\ x + y > 0
  /\ makers' = [makers EXCEPT ![i].x = @ + x, ![i].y = @ + y]
  /\ PayPair(makers[i], p, Jar, x, y)
  /\ UNCHANGED activeMakers

\* The part of a withdrawal that is paid, and the part that is credited for nothing.
PaidOut(x) == Larger(0, x)
CreditedFree(x) == Larger(0, -x)

\* Mutant: fees that are withdrawn stay on the account.
withdraw_inventory_kept(p, i, x, y) ==
  LET m == makers[i]
      fees == Smaller(m.fees, PaidOut(y))
  IN  /\ require_not_paused
      /\ m.maker = p
      /\ x <= m.x /\ y <= m.y + m.fees
      /\ makers' = [makers EXCEPT ![i] = [m EXCEPT !.x = @ - x, !.y = @ - (y - fees),
                                                 !.free_x = @ + CreditedFree(x), !.free_y = @ + CreditedFree(y)]]
      /\ PayPair(m, Jar, p, PaidOut(x), PaidOut(y))
      /\ UNCHANGED activeMakers

\* Fees go first.  Neither the signs nor the status are looked at: a negative amount
\* raises the inventory and moves no tokens.
withdraw_inventory(p, i, x, y) ==
  LET m == makers[i]
      fees == Smaller(m.fees, PaidOut(y))
  IN  /\ require_not_paused
      /\ m.maker = p
      /\ x <= m.x /\ y <= m.y + m.fees
      /\ makers' = [makers EXCEPT ![i] = [m EXCEPT !.x = @ - x, !.y = @ - (y - fees), !.fees = @ - fees,
                                                 !.free_x = @ + CreditedFree(x), !.free_y = @ + CreditedFree(y)]]
      /\ PayPair(m, Jar, p, PaidOut(x), PaidOut(y))
      /\ UNCHANGED activeMakers

update_spread(p, i, r) ==
  /\ require_not_paused
  /\ makers[i].maker = p
  /\ SpreadOk(r)
  /\ makers' = [makers EXCEPT ![i].spread = r]
  /\ UNCHANGED <<wallet, activeMakers>>

set_maker_status(p, i, active) ==
  /\ require_not_paused
  /\ makers[i].maker = p
  /\ makers[i].status # "Closed"
  /\ makers' = [makers EXCEPT ![i].status = IF active THEN "Active" ELSE "Paused"]
  /\ UNCHANGED <<wallet, activeMakers>>

close_maker(p, i) ==
  LET m == makers[i]
  IN  /\ require_not_paused
      /\ m.maker = p
      /\ m.status # "Closed"
      /\ makers' = [makers EXCEPT ![i] = [m EXCEPT !.x = 0, !.y = 0, !.fees = 0, !.status = "Closed"]]
      /\ activeMakers' = activeMakers \ {i}
      /\ PayPair(m, Jar, p, m.x, m.y + m.fees)

MarketMakingNext ==
  LET Sums == Amounts \cup {0}
  IN  \/ \E p \in Party, a, b \in Token, r \in Spreads, x, y \in Sums, max \in MaxTrades :
           register_maker(p, a, b, r, x, y, max)
      \/ \E p \in Party, i \in DOMAIN makers :
           \/ \E x \in Amounts, price \in MidPrices, bound \in Amounts :
                execute_buy(p, i, x, price, bound) \/ execute_sell(p, i, x, price, bound)
           \/ \E x, y \in Sums : deposit_inventory(p, i, x, y)
           \/ \E x, y \in Withdrawals : withdraw_inventory(p, i, x, y)
           \/ \E r \in Spreads : update_spread(p, i, r)
           \/ \E active \in BOOLEAN : set_maker_status(p, i, active)
           \/ close_maker(p, i)

\* What the makers' trades, deposits and withdrawals brought into the jar: their
\* inventory and fees, less what negative withdrawals added to them.
MakerHolds(m, t) ==
  (IF m.base = t THEN m.x - m.free_x ELSE 0) + (IF m.quote = t THEN m.y + m.fees - m.free_y ELSE 0)
MakerInventory(t) == SumFunction([i \in DOMAIN makers |-> MakerHolds(makers[i], t)])

\* No sequence of trades, deposits and withdrawals leaves a maker with less than
\* nothing.  A closed one is off the list and was paid out: nothing that was ever
\* brought in is left, and all it can still have was given by negative withdrawals.
MakersSound ==
  \A i \in DOMAIN makers :
    LET m == makers[i]
    IN  /\ m.x >= 0 /\ m.y >= 0 /\ m.fees >= 0
        /\ i \in activeMakers <=> m.status # "Closed"
        /\ m.status = "Closed" => m.x <= m.free_x /\ m.y + m.fees <= m.free_y

-----------------------------------------------------------------------------
\* Stop orders of the legacy tip jar.  Prices are what callers say; the
\* amount is held in the jar from the order to its execution or
\* cancellation, and goes back to the owner either way.

CONSTANTS
  StopPrices,     \* prices named in calls
  Trails          \* distances of trailing stops

ASSUME StopsAssumption == StopPrices \subseteq Int /\ Trails \subseteq Int

VARIABLES
  orders,         \* StopLossKey::Order
  activeOrders    \* StopLossKey::ActiveOrders

stopVars == <<orders, activeOrders>>

OrderKind == {"StopLoss", "StopLimit", "TrailingStop"}

StopLossInit ==
  /\ orders = <<>>
  /\ activeOrders = {}

place_order(p, t, x, stop, limit, trail, kind, price) ==
  /\ require_not_paused
  /\ Whitelisted(t)
  /\ x > 0 /\ stop > 0
  /\ kind = "StopLimit" => limit > 0
  /\ kind = "TrailingStop" => trail > 0
  /\ Pay(t, p, Jar, x)
  /\ orders' = Append(orders, [owner |-> p, token |-> t, amount |-> x, stop |-> stop,
                               limit |-> limit, trail |-> trail, kind |-> kind,
                               peak |-> IF price > 0 THEN price ELSE stop, status |-> "Active"])
  /\ activeOrders' = activeOrders \cup {Len(orders) + 1}

Trailed(o, price) ==
  IF o.kind = "TrailingStop" /\ price > o.peak
  THEN [o EXCEPT !.peak = price, !.stop = Larger(@, price - o.trail)] ELSE o

\* A new peak is only kept when it raises the stop.
update_price(i, price) ==
  LET o == orders[i]
      n == Trailed(o, price)
  IN  /\ o.status = "Active"
      /\ n.stop # o.stop
      /\ orders' = [orders EXCEPT ![i] = n]
      /\ UNCHANGED <<wallet, activeOrders>>

\* A check that does not trigger keeps nothing of what it computed.
check_trigger(i, price) ==
  LET n == Trailed(orders[i], price)
  IN  /\ orders[i].status = "Active"
      /\ price <= n.stop
      /\ orders' = [orders EXCEPT ![i] = [n EXCEPT !.status = "Triggered"]]
      /\ UNCHANGED <<wallet, activeOrders>>

Finish(i, status) ==
  /\ orders' = [orders EXCEPT ![i].status = status]
  /\ activeOrders' = activeOrders \ {i}
  /\ Pay(orders[i].token, Jar, orders[i].owner, orders[i].amount)

execute_order(i, price) ==
  /\ require_not_paused
  /\ orders[i].status = "Triggered"
  /\ orders[i].kind = "StopLimit" => price >= orders[i].limit
  /\ Finish(i, "Executed")

cancel_order(p, i) ==
  /\ require_not_paused
  /\ orders[i].owner = p
  /\ orders[i].status \in {"Active", "Triggered"}
  /\ Finish(i, "Cancelled")

StopLossNext ==
  \/ \E p \in Party, t \in Token, x \in Amounts, stop, limit, price \in StopPrices,
        trail \in Trails, kind \in OrderKind :
       place_order(p, t, x, stop, limit, trail, kind, price)
  \/ \E i \in DOMAIN orders :
       \/ \E price \in StopPrices :
            update_price(i, price) \/ check_trigger(i, price) \/ execute_order(i, price)
       \/ \E p \in Party : cancel_order(p, i)

Open(o) == o.status \in {"Active", "Triggered"}

\* What the jar holds of a token for open orders.
OrderHolds(o, t) == IF o.token = t /\ Open(o) THEN o.amount ELSE 0
StopEscrow(t) == SumFunction([i \in DOMAIN orders |-> OrderHolds(orders[i], t)])

\* Whatever prices callers report, in whatever order, a stop only ever rises, and
\* an order that is finished stays as it is.
StopsOnlyRise ==
  [][\A i \in DOMAIN orders : /\ orders'[i].stop >= orders[i].stop
                              /\ ~Open(orders[i]) => orders'[i] = orders[i]]_orders

-----------------------------------------------------------------------------
\* What the variables range over, and the facts that every call keeps.
MarketMaker ==
  [maker : Party, base : Token, quote : Token, spread : 0 .. MaxSpread, x : Nat, y : Nat,
   max : Nat, fees : Nat, status : {"Active", "Paused", "Closed"}, free_x : Nat, free_y : Nat]
StopOrder ==
  [owner : Party, token : Token, amount : Nat, stop : Int, limit : Int, trail : Int,
   kind : OrderKind, peak : Int, status : {"Active", "Triggered", "Executed", "Cancelled"}]
MakersInv == makers \in Seq(MarketMaker) /\ MakersSound
StopsInv == orders \in Seq(StopOrder)
=============================================================================
