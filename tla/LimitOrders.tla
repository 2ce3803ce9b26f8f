---------------------------- MODULE LimitOrders ----------------------------
(***************************************************************************)
(* The limit order contract: a trader locks token_in in the contract, and  *)
(* anybody may have the order filled from the token_out the contract       *)
(* happens to hold, at a price the caller names.  All orders share one     *)
(* pool per token.  Every handler is one atomic transaction.               *)
(***************************************************************************)
EXTENDS Int128, Sequences, Functions

CONSTANTS
  Trader,        \* accounts that place orders
  Contract,      \* the contract's own address
  Token,         \* token contracts
  Amounts,       \* the amount_in that place_order is called with
  LimitPrices,   \* the limit_price that place_order is called with
  Prices,        \* the current_price that match_order is called with
  Supply,        \* what each account owns of each token at first
  MaxOrders      \* bound: orders ever placed

Account == Trader \cup {Contract}
Order == [owner : Trader, token_in : Token, token_out : Token,
          amount_in : 1 .. I128Max, limit_price : 1 .. I128Max,
          filled : 0 .. I128Max, cancelled : BOOLEAN]

ASSUME LimitAssumption ==
  /\ Contract \notin Trader
  /\ Amounts \subseteq -I128Max .. I128Max
  /\ LimitPrices \subseteq -I128Max .. I128Max
  /\ Prices \subseteq -I128Max .. I128Max
  /\ Supply \in 0 .. I128Max
  /\ MaxOrders \in Nat

VARIABLES
  orders,   \* DataKey::Order, in the order of their ids, and OrderCount
  book,     \* DataKey::OrderBook: ids by pair of tokens
  bal,      \* external: token balances
  paid      \* history: what fills paid to owners, by token

limitVars == <<orders, book, bal, paid>>

\* A token contract refuses a negative amount and more than the sender has.
Transfer(t, from, to, amount) ==
  /\ amount >= 0
  /\ amount <= bal[t][from]
  /\ bal' = [bal EXCEPT ![t] =
       [a \in Account |-> @[a] - (IF a = from THEN amount ELSE 0)
                               + (IF a = to THEN amount ELSE 0)]]

LimitInit ==
  /\ orders = <<>>
  /\ book = [p \in Token \X Token |-> <<>>]
  /\ bal = [t \in Token |-> [a \in Account |-> Supply]]
  /\ paid = [t \in Token |-> 0]

place_order(caller, in, out, amount, limit) ==
  LET id == Len(orders) + 1 IN
  /\ Len(orders) < MaxOrders
  /\ amount > 0 /\ limit > 0
  /\ Transfer(in, caller, Contract, amount)
  /\ orders' = Append(orders,
       [owner |-> caller, token_in |-> in, token_out |-> out,
        amount_in |-> amount, limit_price |-> limit,
        filled |-> 0, cancelled |-> FALSE])
  /\ book' = [book EXCEPT ![<<in, out>>] = Append(@, id)]
  /\ UNCHANGED paid

Remaining(o) == orders[o].amount_in - orders[o].filled

\* Mutant: the price test is the wrong way round.
PriceMet_reversed(o, price) == price >= orders[o].limit_price

PriceMet(o, price) == price <= orders[o].limit_price

\* Anybody fills the whole rest of an order.  A price of zero traps.
match_order(o, price) ==
  LET out == DivI128(Wrap(Remaining(o) * orders[o].limit_price), price) IN
  /\ o \in DOMAIN orders
  /\ ~orders[o].cancelled
  /\ PriceMet(o, price)
  /\ Remaining(o) > 0
  /\ price # 0
  /\ Transfer(orders[o].token_out, Contract, orders[o].owner, out)
  /\ orders' = [orders EXCEPT ![o].filled = @ + Remaining(o)]
  /\ paid' = [paid EXCEPT ![orders[o].token_out] = @ + out]
  /\ UNCHANGED book

Refund(o) ==
  IF Remaining(o) > 0
  THEN Transfer(orders[o].token_in, Contract, orders[o].owner, Remaining(o))
  ELSE UNCHANGED bal

\* The owner takes the unfilled rest back.  A filled order can be cancelled too.
cancel_order(caller, o) ==
  /\ o \in DOMAIN orders
  /\ orders[o].owner = caller
  /\ ~orders[o].cancelled
  /\ Refund(o)
  /\ orders' = [orders EXCEPT ![o].cancelled = TRUE]
  /\ UNCHANGED <<book, paid>>

LimitNext ==
  \/ \E c \in Trader, in, out \in Token, a \in Amounts, l \in LimitPrices :
       place_order(c, in, out, a, l)
  \/ \E o \in DOMAIN orders, p \in Prices : match_order(o, p)
  \/ \E c \in Trader, o \in DOMAIN orders : cancel_order(c, o)

LimitSpec == LimitInit /\ [][LimitNext]_limitVars

-----------------------------------------------------------------------------
LimitTypeOK ==
  /\ orders \in Seq(Order)
  /\ book \in [Token \X Token -> Seq(1 .. Len(orders))]
  /\ bal \in [Token -> [Account -> Nat]]
  /\ paid \in [Token -> Nat]

\* What an order has brought into the pool of token t and not taken back.
Brought(o, t) ==
  IF orders[o].token_in # t THEN 0
  ELSE IF orders[o].cancelled THEN orders[o].filled ELSE orders[o].amount_in

\* place_order, match_order and cancel_order account for every unit of the pool:
\* it holds what it was funded with and what orders brought in, less what fills
\* paid; an order is never refunded twice, nor refunded what it was filled for.
\* (What one order brought in may have paid another's fill: the pool is shared.)
PoolAccounted ==
  \A t \in Token :
    bal[t][Contract] + paid[t]
      = Supply + SumFunction([o \in DOMAIN orders |-> Brought(o, t)])

\* No caller names a negative price, and no order's product overflows.
FairMatching ==
  /\ \A p \in Prices : p >= 0
  /\ \A a \in Amounts, l \in LimitPrices : a > 0 /\ l > 0 => a * l <= I128Max

\* match_order never fills an order for less token_out than it takes token_in,
\* under FairMatching.  (Otherwise it may: remaining * limit_price wraps, and a
\* negative price can make the quotient 0.)
FillPaysLimit(o) ==
  LET gain == bal'[orders[o].token_out][orders[o].owner]
                - bal[orders[o].token_out][orders[o].owner]
  IN  orders'[o].filled # orders[o].filled
        => gain >= orders'[o].filled - orders[o].filled
FilledAtLimitOrBetter == [][\A o \in DOMAIN orders : FillPaysLimit(o)]_limitVars

\* The inductive invariant behind PoolAccounted: an order is filled whole or not
\* at all, and keeps what it was placed with.
FilledWhole ==
  \A o \in DOMAIN orders :
    /\ orders[o].filled \in {0, orders[o].amount_in}
    /\ orders[o].amount_in \in Amounts /\ orders[o].limit_price \in LimitPrices
LimitInv == LimitTypeOK /\ FilledWhole /\ PoolAccounted
=============================================================================
