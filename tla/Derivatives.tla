---------------------------- MODULE Derivatives ----------------------------
(***************************************************************************)
(* The derivatives contract: an order book whose orders take no collateral *)
(* and are closed in one of three ways: match_orders pairs buys with later *)
(* sells, settle_order pays an expired one from the contract's own         *)
(* balance, cancel_order drops it.  Each handler is one transaction.       *)
(***************************************************************************)
EXTENDS Int128, Sequences

CONSTANTS
  Holder,       \* accounts that place orders
  Kinds,        \* derivative_type
  Strikes,      \* the strike_price that orders are placed with
  Quantities,   \* the quantity that orders are placed with
  Expiries,     \* the expiry that orders are placed with
  Funds,        \* what the contract and nobody else owns of the underlying
  MaxLedgerTime, \* bound: ledger timestamps
  MaxDerivs     \* bound: orders ever placed

DerivOrder == [owner : Holder, derivative_type : Kinds, strike_price : 1 .. I128Max,
               expiry : Expiries, quantity : 1 .. I128Max, is_buy : BOOLEAN,
               settled : BOOLEAN]
Position == [quantity : 1 .. I128Max, entry_price : 1 .. I128Max]
Id == 1 .. MaxDerivs

ASSUME DerivativesAssumption ==
  /\ Strikes \subseteq -I128Max .. I128Max
  /\ Quantities \subseteq -I128Max .. I128Max
  /\ Expiries \subseteq Nat
  /\ Funds \in Nat /\ MaxLedgerTime \in Nat /\ MaxDerivs \in Nat

VARIABLES
  derivs,      \* DataKey::Order and OrderIds, in the order of their ids
  positions,   \* DataKey::Position by order id; an order has one owner
  now,         \* external: ledger timestamp
  underlying,  \* external: balances of the underlying
  trades,      \* history: the pairs that matched
  payouts      \* history: how often each order was paid

derivVars == <<derivs, positions, now, underlying, trades, payouts>>

DerivInit ==
  /\ derivs = <<>>
  /\ positions = <<>>
  /\ now = 0
  /\ underlying = [a \in Holder \cup {"contract"} |->
                      IF a = "contract" THEN Funds ELSE 0]
  /\ trades = {}
  /\ payouts = [o \in Id |-> 0]

Tick ==
  /\ now < MaxLedgerTime
  /\ now' = now + 1
  /\ UNCHANGED <<derivs, positions, underlying, trades, payouts>>

place_derivative_order(caller, kind, strike, expiry, qty, buy) ==
  /\ Len(derivs) < MaxDerivs
  /\ qty > 0 /\ strike > 0
  /\ derivs' = Append(derivs,
       [owner |-> caller, derivative_type |-> kind, strike_price |-> strike,
        expiry |-> expiry, quantity |-> qty, is_buy |-> buy, settled |-> FALSE])
  /\ UNCHANGED <<positions, now, underlying, trades, payouts>>

-----------------------------------------------------------------------------
Crosses(b, s) ==
  /\ derivs[b].derivative_type = derivs[s].derivative_type
  /\ derivs[b].strike_price >= derivs[s].strike_price

\* Mutant: orders that are closed are considered again.
Unsettled_all == DOMAIN derivs

\* The orders a call of match_orders looks at, read once before the loop.
Unsettled == {o \in DOMAIN derivs : ~derivs[o].settled}

\* The sells a buy may be paired with come after it; it takes the first.
Candidates(b) ==
  {s \in Unsettled : s > b /\ ~derivs[s].is_buy /\ Crosses(b, s)}
First(S) == CHOOSE s \in S : \A r \in S : s <= r
MatchedBuys == {b \in Unsettled : derivs[b].is_buy /\ Candidates(b) # {}}
Pairs == {<<b, First(Candidates(b))>> : b \in MatchedBuys}

Smaller(m, n) == IF m < n THEN m ELSE n

\* The position a pair gives to both of its sides.
PositionOf(p) ==
  [quantity |-> Smaller(derivs[p[1]].quantity, derivs[p[2]].quantity),
   entry_price |-> derivs[p[2]].strike_price]

\* The pair that writes an order's position last: buys are taken in order.
LastPair(o) ==
  CHOOSE p \in Pairs : o \in {p[1], p[2]} /\
    \A q \in Pairs : o \in {q[1], q[2]} => q[1] <= p[1]

match_orders ==
  LET matched == UNION {{p[1], p[2]} : p \in Pairs} IN
  /\ positions' = [o \in DOMAIN positions \cup matched |->
       IF o \in matched THEN PositionOf(LastPair(o)) ELSE positions[o]]
  /\ derivs' = [o \in DOMAIN derivs |->
       [derivs[o] EXCEPT !.settled = @ \/ o \in matched]]
  /\ trades' = trades \cup Pairs
  /\ UNCHANGED <<now, underlying, payouts>>

\* Anybody has an expired order paid to its owner; the token contract refuses
\* a negative amount and what the contract does not have.
settle_order(o) ==
  LET value == Wrap(derivs[o].quantity * derivs[o].strike_price) IN
  /\ o \in DOMAIN derivs
  /\ ~derivs[o].settled
  /\ now >= derivs[o].expiry
  /\ value \in 0 .. underlying["contract"]
  /\ underlying' = [underlying EXCEPT !["contract"] = @ - value,
                                      ![derivs[o].owner] = @ + value]
  /\ derivs' = [derivs EXCEPT ![o].settled = TRUE]
  /\ payouts' = [payouts EXCEPT ![o] = @ + 1]
  /\ UNCHANGED <<positions, now, trades>>

cancel_derivative_order(caller, o) ==
  /\ o \in DOMAIN derivs
  /\ derivs[o].owner = caller
  /\ ~derivs[o].settled
  /\ derivs' = [derivs EXCEPT ![o].settled = TRUE]
  /\ UNCHANGED <<positions, now, underlying, trades, payouts>>

DerivNext ==
  \/ Tick
  \/ \E c \in Holder, k \in Kinds, s \in Strikes, x \in Expiries,
        q \in Quantities, b \in BOOLEAN : place_derivative_order(c, k, s, x, q, b)
  \/ match_orders
  \/ \E o \in DOMAIN derivs : settle_order(o)
  \/ \E c \in Holder, o \in DOMAIN derivs : cancel_derivative_order(c, o)

DerivSpec == DerivInit /\ [][DerivNext]_derivVars

-----------------------------------------------------------------------------
DerivTypeOK ==
  /\ derivs \in Seq(DerivOrder) /\ Len(derivs) <= MaxDerivs
  /\ DOMAIN positions \subseteq DOMAIN derivs
  /\ \A o \in DOMAIN positions : positions[o] \in Position
  /\ now \in 0 .. MaxLedgerTime
  /\ underlying \in [Holder \cup {"contract"} -> Nat]
  /\ trades \subseteq Id \X Id
  /\ payouts \in [Id -> Nat]

Matched(o) == \E p \in trades : o \in {p[1], p[2]}

\* match_orders, settle_order and cancel_order close an order for one another:
\* what was matched is never paid as unmatched, nor the other way round, and
\* nothing is paid twice.
ClosedOneWay ==
  \A o \in Id : payouts[o] + (IF Matched(o) THEN 1 ELSE 0) <= 1

\* match_orders gives a position only to an order that crossed: no buyer enters
\* above its strike, no seller below, and nobody holds more than it asked for.
EnteredWithinOrder ==
  \A o \in DOMAIN positions :
    /\ positions[o].quantity <= derivs[o].quantity
    /\ IF derivs[o].is_buy
       THEN positions[o].entry_price <= derivs[o].strike_price
       ELSE positions[o].entry_price >= derivs[o].strike_price
    /\ \E p \in trades :
         /\ o \in {p[1], p[2]}
         /\ derivs[p[1]].derivative_type = derivs[p[2]].derivative_type

\* What "Mark both as settled after match" says: an order is matched once.
MatchedOnce ==
  \A p, q \in trades : {p[1], p[2]} \cap {q[1], q[2]} # {} => p = q

\* The inductive invariant behind ClosedOneWay and EnteredWithinOrder: what was
\* matched or paid is closed.
ClosedStaysClosed ==
  /\ \A p \in trades : \A o \in {p[1], p[2]} : o \in DOMAIN derivs /\ derivs[o].settled
  /\ \A o \in Id : payouts[o] > 0 => o \in DOMAIN derivs /\ derivs[o].settled
DerivInv == DerivTypeOK /\ ClosedStaysClosed /\ ClosedOneWay /\ EnteredWithinOrder
=============================================================================
