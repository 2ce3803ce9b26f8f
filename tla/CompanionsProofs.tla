-------------------------- MODULE CompanionsProofs --------------------------
(***************************************************************************)
(* Proofs about the companions of the jar: the limit order, derivatives    *)
(* and risk contracts, the security monitor, the backup tools and the      *)
(* migration toolkit, and what the composed specification promises of      *)
(* them, for every value of the constants and any width of the integers.   *)
(***************************************************************************)
EXTENDS Companions, SumTheorems, SequenceTheorems

\* A sequence over a set is one over any larger set.
LEMMA SeqWider ==
  ASSUME NEW S, NEW T, S \subseteq T, NEW s \in Seq(S)
  PROVE  s \in Seq(T)
OBVIOUS

-----------------------------------------------------------------------------
(* Integers of a bounded width *)

\* Quotient and remainder.
LEMMA DivMod ==
  ASSUME NEW y \in Int, NEW m \in Nat, m > 0
  PROVE  /\ y \div m \in Int /\ y % m \in Int /\ 0 <= y % m /\ y % m < m
         /\ y = (y \div m) * m + (y % m)
OBVIOUS

\* A value that fits is left alone; any other is brought into the range by a
\* multiple of the width.
LEMMA WrapShift ==
  ASSUME NEW x \in Int
  PROVE  /\ Wrap(x) \in Int /\ Wrap(x) >= -I128Max - 1 /\ Wrap(x) <= I128Max
         /\ \E k \in Int : Wrap(x) = x - k * (2 * (I128Max + 1))
<1> DEFINE m == 2 * (I128Max + 1)
           y == x + I128Max + 1
<1>1. m \in Nat /\ m > 0 /\ y \in Int /\ m = I128Max + 1 + I128Max + 1
  BY I128Assumption
<1>2. Wrap(x) = (y % m) - (I128Max + 1)
  BY DEF Wrap
<1> HIDE DEF m, y
<1> DEFINE q == y \div m
           p == q * m
<1>3. y % m \in Int /\ 0 <= y % m /\ y % m < m /\ q \in Int /\ y = p + (y % m)
  BY <1>1, DivMod
<1> HIDE DEF q
<1>5. p \in Int
  BY <1>1, <1>3
<1>6. Wrap(x) = x - p
  <2>1. y = p + (y % m) /\ y = x + I128Max + 1
    BY <1>3 DEF y
  <2> HIDE DEF p
  <2> QED BY <1>2, <1>3, <1>5, <2>1, I128Assumption
<1>7. Wrap(x) \in Int /\ Wrap(x) >= -I128Max - 1 /\ Wrap(x) <= I128Max
  <2> DEFINE r == y % m
  <2>1. r \in Int /\ 0 <= r /\ r < m /\ Wrap(x) = r - (I128Max + 1)
    BY <1>2, <1>3
  <2> HIDE DEF r
  <2> QED BY <1>1, <2>1, I128Assumption
<1>8. q \in Int /\ Wrap(x) = x - q * m
  BY <1>3, <1>6
<1>9. \E k \in Int : Wrap(x) = x - k * m
  BY <1>8, Zenon
<1> QED BY <1>7, <1>9 DEF m

\* Two values in the range that differ by a multiple of the width are equal.
LEMMA WrapUnique ==
  ASSUME NEW a \in Int, NEW b \in Int, NEW k \in Int,
         a >= -I128Max - 1, a <= I128Max, b >= -I128Max - 1, b <= I128Max,
         a = b + k * (2 * (I128Max + 1))
  PROVE  a = b
<1> DEFINE m == 2 * (I128Max + 1)
           d == k * m
<1>1. m \in Nat /\ m > 0 /\ m = I128Max + 1 + I128Max + 1
  BY I128Assumption
<1> HIDE DEF m
<1>2. d \in Int /\ (k >= 1 => d >= m) /\ (k <= -1 => d <= -m) /\ (k = 0 => d = 0)
  BY <1>1
<1>3. a = b + d
  BY DEF m
<1> HIDE DEF d
<1> QED BY <1>1, <1>2, <1>3, I128Assumption

LEMMA WrapId ==
  ASSUME NEW x \in Int, x >= -I128Max - 1, x <= I128Max
  PROVE  Wrap(x) = x
<1>1. PICK k \in Int : Wrap(x) = x - k * (2 * (I128Max + 1))
  BY WrapShift
<1> DEFINE d == k * (2 * (I128Max + 1))
<1>2. d \in Int /\ x = Wrap(x) + d
  <2>1. d \in Int /\ Wrap(x) = x - d
    BY <1>1, I128Assumption
  <2> HIDE DEF d
  <2> QED BY <2>1
<1> QED BY <1>2, WrapShift, WrapUnique

\* Wrapping a part of a sum first makes no difference.
LEMMA WrapSum ==
  ASSUME NEW x \in Int, NEW y \in Int
  PROVE  Wrap(Wrap(x) + y) = Wrap(x + y)
<1> DEFINE m == 2 * (I128Max + 1)
<1>0. m \in Int
  BY I128Assumption
<1>1. Wrap(x) \in Int
  BY WrapShift
<1>2. PICK i \in Int : Wrap(x) = x - i * m
  BY WrapShift
<1>s. \A z \in Int : \E j \in Int : Wrap(z) = z - j * m
  BY WrapShift
<1> HIDE DEF m
<1> DEFINE u == Wrap(x) + y
           v == x + y
<1>z. u \in Int /\ v \in Int
  BY <1>1
<1> HIDE DEF u, v
<1>3. PICK j \in Int : Wrap(u) = u - j * m
  BY <1>s, <1>z
<1>4. PICK l \in Int : Wrap(v) = v - l * m
  BY <1>s, <1>z
<1>5. (l - i - j) * m = l * m - i * m - j * m
      /\ i * m \in Int /\ j * m \in Int /\ l * m \in Int
  BY <1>0
<1> DEFINE a == Wrap(u)
           b == Wrap(v)
           k == l - i - j
<1>6. a = b + k * m
  BY <1>1, <1>2, <1>3, <1>4, <1>5, <1>z DEF u, v
<1>7. /\ a \in Int /\ a >= -I128Max - 1 /\ a <= I128Max
      /\ b \in Int /\ b >= -I128Max - 1 /\ b <= I128Max
  BY <1>z, WrapShift
<1>8. k \in Int
  OBVIOUS
<1> HIDE DEF a, b, k
<1>9. a = b
  BY <1>6, <1>7, <1>8, WrapUnique DEF m
<1> QED BY <1>9 DEF a, b, u, v

\* Division by anything but zero is defined.
LEMMA DivType ==
  ASSUME NEW a \in Int, NEW b \in Int, b # 0
  PROVE  /\ DivI128(a, b) \in Int
         /\ a >= 0 /\ b > 0 => DivI128(a, b) = a \div b
<1>1. Abs(a) \in Nat /\ Abs(b) \in Nat /\ Abs(b) > 0
  BY DEF Abs
<1>2. Abs(a) \div Abs(b) \in Int
  BY <1>1
<1>3. a >= 0 /\ b > 0 => Abs(a) = a /\ Abs(b) = b
  BY DEF Abs
<1> HIDE DEF Abs
<1> QED BY <1>2, <1>3 DEF DivI128

-----------------------------------------------------------------------------
(* Limit orders *)

\* A token transfer between two accounts moves the amount and nothing else.
LEMMA TransferEffect ==
  ASSUME LimitTypeOK, NEW t \in Token, NEW x \in Account, NEW y \in Account,
         x # y, NEW amount \in Int, Transfer(t, x, y, amount)
  PROVE  /\ bal' \in [Token -> [Account -> Nat]]
         /\ bal'[t][x] = bal[t][x] - amount
         /\ bal'[t][y] = bal[t][y] + amount
         /\ \A u \in Token : u # t => bal'[u] = bal[u]
<1>1. bal \in [Token -> [Account -> Nat]]
  BY DEF LimitTypeOK
<1>2. amount \in Nat /\ amount <= bal[t][x]
  BY DEF Transfer
<1> DEFINE row == [a \in Account |-> bal[t][a] - (IF a = x THEN amount ELSE 0)
                                          + (IF a = y THEN amount ELSE 0)]
<1>3. bal' = [bal EXCEPT ![t] = row]
  BY DEF Transfer
<1>4. row \in [Account -> Nat]
  BY <1>1, <1>2
<1>5. row[x] = bal[t][x] - amount /\ row[y] = bal[t][y] + amount
  BY <1>1, <1>2
<1> HIDE DEF row
<1> QED BY <1>1, <1>3, <1>4, <1>5

\* What the orders brought in, as a function on their ids.
LEMMA BroughtType ==
  ASSUME LimitTypeOK, NEW t \in Token
  PROVE  /\ [o \in DOMAIN orders |-> Brought(o, t)] \in [DOMAIN orders -> Int]
         /\ DOMAIN orders = 1 .. Len(orders) /\ IsFiniteSet(DOMAIN orders)
         /\ \A o \in DOMAIN orders : orders[o] \in Order
         /\ SumFunction([o \in DOMAIN orders |-> Brought(o, t)]) \in Int
<1>1. orders \in Seq(Order) /\ Len(orders) \in Nat
  BY DEF LimitTypeOK
<1>2. DOMAIN orders = 1 .. Len(orders) /\ \A o \in DOMAIN orders : orders[o] \in Order
  BY <1>1
<1>3. IsFiniteSet(DOMAIN orders)
  BY <1>1, <1>2, FS_Interval
<1>4. \A o \in DOMAIN orders : Brought(o, t) \in Int
  BY <1>2, I128Assumption DEF Brought, Order
<1> QED BY <1>2, <1>3, <1>4, SumType

\* The account of one token after a step that changes one order.
LEMMA PoolAfterChange ==
  ASSUME LimitInv, LimitTypeOK', NEW t \in Token, NEW o \in DOMAIN orders,
         DOMAIN orders' = DOMAIN orders,
         \A x \in DOMAIN orders : x # o => orders'[x] = orders[x],
         (bal[t][Contract] + paid[t])' - (bal[t][Contract] + paid[t])
           = Brought(o, t)' - Brought(o, t)
  PROVE  (bal[t][Contract] + paid[t])'
           = Supply + SumFunction([x \in DOMAIN orders |-> Brought(x, t)])'
<1> DEFINE D == DOMAIN orders
           f == [x \in D |-> Brought(x, t)]
           g == [x \in D |-> Brought(x, t)']
           pool == bal[t][Contract] + paid[t]
<1>1. f \in [D -> Int] /\ IsFiniteSet(D) /\ SumFunction(f) \in Int
  BY BroughtType DEF LimitInv
<1>2. pool = Supply + SumFunction(f)
  BY DEF LimitInv, PoolAccounted
<1>3. \A x \in D : orders[x] \in Order /\ orders'[x] \in Order
  <2>1. orders \in Seq(Order) /\ orders' \in Seq(Order)
    BY DEF LimitInv, LimitTypeOK
  <2> QED BY <2>1
<1>4. \A x \in D : Brought(x, t)' \in Int
  BY <1>3, I128Assumption DEF Brought, Order
<1>5. g \in [D -> Int] /\ \A x \in D \ {o} : g[x] = f[x]
  BY <1>4 DEF Brought
<1>6. SumFunction(g) = SumFunction(f) + g[o] - f[o]
  <2> HIDE DEF f, g, D
  <2> QED BY <1>1, <1>5, SumUpdate DEF D
<1>7. g[o] = Brought(o, t)' /\ f[o] = Brought(o, t)
  OBVIOUS
<1>8. [x \in DOMAIN orders |-> Brought(x, t)]' = g
  BY DEF Brought
<1>9. pool \in Int /\ pool' \in Int /\ Supply \in Int
  BY LimitAssumption, I128Assumption DEF LimitInv, LimitTypeOK, Account
<1>10. f[o] \in Int /\ g[o] \in Int
  BY <1>1, <1>5
<1>11. pool' - pool = g[o] - f[o]
  BY <1>7
<1> HIDE DEF f, g, pool
<1>12. pool' = Supply + SumFunction(g)
  BY <1>1, <1>2, <1>6, <1>9, <1>10, <1>11
<1> QED BY <1>8, <1>12 DEF pool

\* The account of one token after an order is placed.
LEMMA PoolAfterPlace ==
  ASSUME LimitInv, LimitTypeOK', NEW t \in Token, NEW r \in Order,
         orders' = Append(orders, r), ~r.cancelled,
         (bal[t][Contract] + paid[t])' - (bal[t][Contract] + paid[t])
           = IF r.token_in = t THEN r.amount_in ELSE 0
  PROVE  (bal[t][Contract] + paid[t])'
           = Supply + SumFunction([x \in DOMAIN orders |-> Brought(x, t)])'
<1> DEFINE ids == DOMAIN orders
           id == Len(orders) + 1
           before == [x \in ids |-> Brought(x, t)]
           after == [x \in ids \cup {id} |-> Brought(x, t)']
           pool == bal[t][Contract] + paid[t]
<1>1. before \in [ids -> Int] /\ IsFiniteSet(ids) /\ SumFunction(before) \in Int
      /\ ids = 1 .. Len(orders)
  BY BroughtType DEF LimitInv
<1>2. pool = Supply + SumFunction(before)
  BY DEF LimitInv, PoolAccounted
<1>3. orders \in Seq(Order) /\ Len(orders) \in Nat
  BY DEF LimitInv, LimitTypeOK
<1>4. /\ id \notin ids /\ DOMAIN orders' = ids \cup {id}
      /\ orders'[id] = r /\ \A x \in ids : orders'[x] = orders[x]
  BY <1>1, <1>3
<1>5. \A x \in ids \cup {id} : Brought(x, t)' \in Int
  <2>1. \A x \in ids \cup {id} : orders'[x] \in Order
    BY <1>3, <1>4
  <2> QED BY <2>1, I128Assumption DEF Brought, Order
<1>6. after \in [ids \cup {id} -> Int] /\ \A x \in ids : after[x] = before[x]
  BY <1>4, <1>5 DEF Brought
<1>7. SumFunction(after) = SumFunction(before) + after[id]
  <2>1. IsFiniteSet(ids) /\ id \notin ids /\ before \in [ids -> Int]
    BY <1>1, <1>4
  <2> HIDE DEF before, after, ids, id
  <2>2. \A D, k : IsFiniteSet(D) /\ k \notin D =>
          \A f \in [D -> Int], g \in [D \cup {k} -> Int] :
            (\A x \in D : g[x] = f[x]) => SumFunction(g) = SumFunction(f) + g[k]
    BY SumExtend
  <2>3. IsFiniteSet(ids) /\ id \notin ids =>
          \A f \in [ids -> Int], g \in [ids \cup {id} -> Int] :
            (\A x \in ids : g[x] = f[x]) => SumFunction(g) = SumFunction(f) + g[id]
    BY ONLY <2>2, Zenon
  <2>4. \A f \in [ids -> Int], g \in [ids \cup {id} -> Int] :
          (\A x \in ids : g[x] = f[x]) => SumFunction(g) = SumFunction(f) + g[id]
    BY ONLY <2>1, <2>3, Zenon
  <2>5. before \in [ids -> Int]
    BY ONLY <2>1, Zenon
  <2> QED BY ONLY <1>6, <2>4, <2>5, Zenon
<1>8. after[id] = IF r.token_in = t THEN r.amount_in ELSE 0
  BY <1>4 DEF Brought
<1>9. [x \in DOMAIN orders |-> Brought(x, t)]' = after
  BY <1>4 DEF Brought
<1>10. pool \in Int /\ pool' \in Int /\ Supply \in Int /\ after[id] \in Int
  BY <1>6, LimitAssumption, I128Assumption DEF LimitInv, LimitTypeOK, Account
<1>11. pool' - pool = after[id]
  BY <1>8
<1> HIDE DEF before, after, pool, id, ids
<1>12. pool' = Supply + SumFunction(after)
  BY ONLY <1>1, <1>2, <1>7, <1>10, <1>11
<1> QED BY <1>9, <1>12 DEF pool

\* place_order keeps the invariant.
LEMMA PlaceStep ==
  ASSUME LimitInv, NEW c \in Trader, NEW in \in Token, NEW out \in Token,
         NEW a \in Amounts, NEW l \in LimitPrices, place_order(c, in, out, a, l)
  PROVE  LimitInv'
<1> USE LimitAssumption, I128Assumption
<1> DEFINE r == [owner |-> c, token_in |-> in, token_out |-> out, amount_in |-> a,
                 limit_price |-> l, filled |-> 0, cancelled |-> FALSE]
<1>1. /\ a \in 1 .. I128Max /\ l \in 1 .. I128Max
      /\ orders' = Append(orders, r) /\ paid' = paid
      /\ book' = [book EXCEPT ![<<in, out>>] = Append(@, Len(orders) + 1)]
      /\ Transfer(in, c, Contract, a)
  BY DEF place_order
<1>2. LimitTypeOK
  BY DEF LimitInv
<1>3. /\ bal' \in [Token -> [Account -> Nat]]
      /\ bal'[in][Contract] = bal[in][Contract] + a
      /\ \A u \in Token : u # in => bal'[u] = bal[u]
  <2>1. a \in Int /\ c \in Account /\ Contract \in Account /\ c # Contract
    BY <1>1 DEF Account
  <2> QED BY <1>1, <1>2, <2>1, TransferEffect
<1>4. r \in Order
  BY <1>1 DEF Order
<1>5. orders \in Seq(Order) /\ orders' \in Seq(Order) /\ Len(orders') = Len(orders) + 1
      /\ Len(orders) \in Nat
  BY <1>1, <1>2, <1>4 DEF LimitTypeOK
<1>6. book' \in [Token \X Token -> Seq(1 .. Len(orders'))]
  <2>1. book \in [Token \X Token -> Seq(1 .. Len(orders))]
    BY <1>2 DEF LimitTypeOK
  <2>2. \A p \in Token \X Token : book[p] \in Seq(1 .. Len(orders'))
    <3>1. 1 .. Len(orders) \subseteq 1 .. Len(orders')
      BY <1>5
    <3> QED BY <2>1, <3>1, SeqWider
  <2>3. Len(orders) + 1 \in 1 .. Len(orders')
    BY <1>5
  <2>4. <<in, out>> \in Token \X Token
    OBVIOUS
  <2>5. Append(book[<<in, out>>], Len(orders) + 1) \in Seq(1 .. Len(orders'))
    BY <2>2, <2>3, <2>4
  <2> QED BY <1>1, <2>1, <2>2, <2>4, <2>5
<1>7. LimitTypeOK'
  BY <1>1, <1>2, <1>3, <1>5, <1>6 DEF LimitTypeOK
<1>8. FilledWhole'
  <2>1. /\ \A o \in DOMAIN orders : orders'[o] = orders[o]
        /\ DOMAIN orders' = DOMAIN orders \cup {Len(orders) + 1}
        /\ orders'[Len(orders) + 1] = r
    BY <1>1, <1>5
  <2>2. FilledWhole
    BY DEF LimitInv
  <2>3. r.filled = 0 /\ r.amount_in \in Amounts /\ r.limit_price \in LimitPrices
    OBVIOUS
  <2> HIDE DEF r
  <2> QED BY ONLY <2>1, <2>2, <2>3, Zenon DEF FilledWhole
<1>9. ASSUME NEW t \in Token
      PROVE  (bal[t][Contract] + paid[t])' - (bal[t][Contract] + paid[t])
               = IF r.token_in = t THEN r.amount_in ELSE 0
  <2>1. bal[t][Contract] \in Nat /\ paid[t] \in Nat
    BY <1>2 DEF LimitTypeOK, Account
  <2>2. r.token_in = in /\ r.amount_in = a
    OBVIOUS
  <2>3. paid' = paid /\ a \in Int /\ bal'[in][Contract] = bal[in][Contract] + a
        /\ (t # in => bal'[t] = bal[t])
    BY <1>1, <1>3
  <2> HIDE DEF r
  <2> QED BY ONLY <2>1, <2>2, <2>3
<1>10. PoolAccounted'
  <2> HIDE DEF r
  <2>1. ~r.cancelled
    BY DEF r
  <2> QED BY <1>1, <1>4, <1>7, <1>9, <2>1, PoolAfterPlace DEF PoolAccounted
<1> QED BY <1>7, <1>8, <1>10 DEF LimitInv

\* What match_order does, in terms of the amount it pays out.
LEMMA MatchEffect ==
  ASSUME LimitInv, NEW o \in DOMAIN orders, NEW p \in Prices, match_order(o, p)
  PROVE  /\ orders[o] \in Order /\ ~orders[o].cancelled /\ orders[o].filled = 0
         /\ orders' = [orders EXCEPT ![o].filled = orders[o].amount_in]
         /\ book' = book /\ PriceMet(o, p) /\ p \in Int /\ p # 0
         /\ \E out \in Nat :
              /\ out = DivI128(Wrap(orders[o].amount_in * orders[o].limit_price), p)
              /\ Transfer(orders[o].token_out, Contract, orders[o].owner, out)
              /\ paid' = [paid EXCEPT ![orders[o].token_out] = @ + out]
<1> USE LimitAssumption, I128Assumption
<1> DEFINE r == orders[o]
           out == DivI128(Wrap(Remaining(o) * r.limit_price), p)
<1>1. orders \in Seq(Order) /\ r \in Order /\ r.filled \in {0, r.amount_in}
  <2>1. orders \in Seq(Order) /\ FilledWhole
    BY DEF LimitInv, LimitTypeOK
  <2>2. r \in Order
    BY ONLY <2>1, o \in DOMAIN orders
  <2>3. r.filled \in {0, r.amount_in}
    BY ONLY <2>1, o \in DOMAIN orders, Zenon DEF FilledWhole
  <2> QED BY <2>1, <2>2, <2>3
<1>2. r.amount_in \in Nat /\ r.limit_price \in Nat /\ r.amount_in > 0
  BY <1>1 DEF Order
<1>3. Remaining(o) > 0 /\ ~r.cancelled /\ PriceMet(o, p) /\ p # 0
  BY DEF match_order
<1>4. r.filled = 0 /\ Remaining(o) = r.amount_in
  <2>1. \A f, m : m \in Nat /\ f \in {0, m} /\ m - f > 0 => f = 0 /\ m - f = m
    OBVIOUS
  <2>2. Remaining(o) = r.amount_in - r.filled
    BY ONLY Zenon DEF Remaining
  <2> QED BY ONLY <1>1, <1>2, <1>3, <2>1, <2>2, Zenon
<1>5. p \in Int
  OBVIOUS
<1>6. /\ Transfer(r.token_out, Contract, r.owner, out)
      /\ orders' = [orders EXCEPT ![o].filled = @ + Remaining(o)]
      /\ paid' = [paid EXCEPT ![r.token_out] = @ + out]
      /\ book' = book
  BY DEF match_order
<1>7. out \in Int
  <2>1. Remaining(o) * r.limit_price \in Int
    BY <1>2, <1>4
  <2>2. Wrap(Remaining(o) * r.limit_price) \in Int
    BY <2>1, WrapShift
  <2> QED BY <1>3, <1>5, <2>2, DivType
<1>8. out \in Nat
  BY <1>6, <1>7 DEF Transfer
<1>9. orders' = [orders EXCEPT ![o].filled = r.amount_in]
  <2>1. r.filled + Remaining(o) = r.amount_in
    BY <1>2, <1>4
  <2> QED BY <1>6, <2>1
<1>10. out = DivI128(Wrap(r.amount_in * r.limit_price), p)
  BY <1>4
<1> HIDE DEF out
<1> QED BY <1>1, <1>3, <1>4, <1>5, <1>6, <1>8, <1>9, <1>10

\* A change of one order's filled or cancelled keeps the types of the orders.
LEMMA OrderUpdate ==
  ASSUME LimitInv, NEW o \in DOMAIN orders, NEW r \in Order,
         orders' = [orders EXCEPT ![o] = r]
  PROVE  /\ orders' \in Seq(Order) /\ Len(orders') = Len(orders)
         /\ DOMAIN orders' = DOMAIN orders /\ orders'[o] = r
         /\ \A x \in DOMAIN orders : x # o => orders'[x] = orders[x]
<1>1. orders \in Seq(Order)
  BY DEF LimitInv, LimitTypeOK
<1> QED BY <1>1

LEMMA MatchStep ==
  ASSUME LimitInv, NEW o \in DOMAIN orders, NEW p \in Prices, match_order(o, p)
  PROVE  LimitInv'
<1> USE LimitAssumption, I128Assumption
<1> DEFINE r == orders[o]
           n == [r EXCEPT !.filled = r.amount_in]
<1>1. PICK out \in Nat :
        /\ Transfer(r.token_out, Contract, r.owner, out)
        /\ paid' = [paid EXCEPT ![r.token_out] = @ + out]
  BY MatchEffect
<1>2. /\ r \in Order /\ ~r.cancelled /\ book' = book
      /\ orders' = [orders EXCEPT ![o] = n]
  <2>1. r \in Order /\ ~r.cancelled /\ book' = book
        /\ orders' = [orders EXCEPT ![o].filled = r.amount_in]
    BY MatchEffect
  <2> QED BY <2>1
<1>3. n \in Order
  BY <1>2 DEF Order
<1>4. /\ orders' \in Seq(Order) /\ Len(orders') = Len(orders)
      /\ DOMAIN orders' = DOMAIN orders /\ orders'[o] = n
      /\ \A x \in DOMAIN orders : x # o => orders'[x] = orders[x]
  BY <1>2, <1>3, OrderUpdate
<1>5. LimitTypeOK
  BY DEF LimitInv
<1>6. r.token_out \in Token /\ r.owner \in Account /\ Contract \in Account
      /\ r.owner # Contract /\ out \in Int
  BY <1>2 DEF Order, Account
<1>7. /\ bal' \in [Token -> [Account -> Nat]]
      /\ bal'[r.token_out][Contract] = bal[r.token_out][Contract] - out
      /\ \A u \in Token : u # r.token_out => bal'[u] = bal[u]
  BY <1>1, <1>5, <1>6, TransferEffect
<1>8. LimitTypeOK'
  <2>1. paid' \in [Token -> Nat]
    BY <1>1, <1>5, <1>6 DEF LimitTypeOK
  <2>2. book' \in [Token \X Token -> Seq(1 .. Len(orders'))]
    BY <1>2, <1>4, <1>5 DEF LimitTypeOK
  <2> QED BY <1>4, <1>7, <2>1, <2>2 DEF LimitTypeOK
<1>9. n.filled = n.amount_in /\ n.amount_in = r.amount_in
      /\ n.limit_price = r.limit_price /\ n.token_in = r.token_in /\ ~n.cancelled
  BY <1>2 DEF Order
<1> HIDE DEF n
<1>10. FilledWhole'
  BY <1>4, <1>9 DEF FilledWhole, LimitInv
<1>11. ASSUME NEW t \in Token
       PROVE  (bal[t][Contract] + paid[t])' - (bal[t][Contract] + paid[t])
                = Brought(o, t)' - Brought(o, t)
  <2>1. Brought(o, t)' = Brought(o, t) /\ Brought(o, t) \in Int
    <3>1. r.amount_in \in Int /\ r.filled \in Int
      BY <1>2 DEF Order
    <3>2. orders'[o] = n /\ ~r.cancelled
      BY <1>2, <1>4
    <3>3. /\ Brought(o, t)' = IF n.token_in = t THEN n.amount_in ELSE 0
          /\ Brought(o, t) = IF r.token_in = t THEN r.amount_in ELSE 0
      BY ONLY <1>9, <3>2 DEF Brought
    <3> QED BY ONLY <1>9, <3>1, <3>3
  <2>2. bal[t][Contract] \in Nat /\ paid[t] \in Nat
    BY <1>5, <1>6 DEF LimitTypeOK
  <2>3. /\ paid'[t] = IF t = r.token_out THEN paid[t] + out ELSE paid[t]
        /\ bal'[t][Contract] = IF t = r.token_out THEN bal[t][Contract] - out
                              ELSE bal[t][Contract]
    <3>1. paid \in [Token -> Nat]
      BY <1>5 DEF LimitTypeOK
    <3>2. paid' = [paid EXCEPT ![r.token_out] = @ + out]
      BY <1>1
    <3> QED BY ONLY <1>6, <1>7, <3>1, <3>2, t \in Token
  <2>4. (bal[t][Contract] + paid[t])' = bal[t][Contract] + paid[t]
    BY ONLY <1>6, <2>2, <2>3
  <2> QED BY <2>1, <2>2, <2>4
<1>12. PoolAccounted'
  BY <1>4, <1>8, <1>11, PoolAfterChange DEF PoolAccounted
<1> QED BY <1>8, <1>10, <1>12 DEF LimitInv

LEMMA CancelStep ==
  ASSUME LimitInv, NEW c \in Trader, NEW o \in DOMAIN orders, cancel_order(c, o)
  PROVE  LimitInv'
<1> USE LimitAssumption, I128Assumption
<1> DEFINE r == orders[o]
           n == [r EXCEPT !.cancelled = TRUE]
<1>1. orders \in Seq(Order) /\ r \in Order /\ r.filled \in {0, r.amount_in}
  <2>1. orders \in Seq(Order) /\ FilledWhole
    BY DEF LimitInv, LimitTypeOK
  <2>2. r \in Order
    BY ONLY <2>1, o \in DOMAIN orders
  <2>3. r.filled \in {0, r.amount_in}
    BY ONLY <2>1, o \in DOMAIN orders, Zenon DEF FilledWhole
  <2> QED BY <2>1, <2>2, <2>3
<1>2. r.amount_in \in Nat /\ r.filled \in Nat /\ r.filled <= r.amount_in
  BY <1>1 DEF Order
<1>3. /\ ~r.cancelled /\ Refund(o) /\ book' = book /\ paid' = paid
      /\ orders' = [orders EXCEPT ![o] = n]
  BY DEF cancel_order
<1>4. n \in Order
  BY <1>1 DEF Order
<1>5. /\ orders' \in Seq(Order) /\ Len(orders') = Len(orders)
      /\ DOMAIN orders' = DOMAIN orders /\ orders'[o] = n
      /\ \A x \in DOMAIN orders : x # o => orders'[x] = orders[x]
  BY <1>3, <1>4, OrderUpdate
<1>6. LimitTypeOK
  BY DEF LimitInv
<1>7. r.token_in \in Token /\ r.owner \in Account /\ Contract \in Account
      /\ r.owner # Contract
  BY <1>1 DEF Order, Account
<1>8. /\ bal' \in [Token -> [Account -> Nat]]
      /\ bal'[r.token_in][Contract]
           = bal[r.token_in][Contract] - (r.amount_in - r.filled)
      /\ \A u \in Token : u # r.token_in => bal'[u] = bal[u]
  <2>1. CASE Remaining(o) > 0
    <3>1. Transfer(r.token_in, Contract, r.owner, r.amount_in - r.filled)
      BY <1>3, <2>1 DEF Refund, Remaining
    <3>2. r.amount_in - r.filled \in Int
      BY <1>2
    <3> QED BY <1>6, <1>7, <3>1, <3>2, TransferEffect
  <2>2. CASE ~(Remaining(o) > 0)
    <3>1. bal' = bal /\ r.amount_in = r.filled
      BY <1>2, <1>3, <2>2 DEF Refund, Remaining
    <3>2. bal \in [Token -> [Account -> Nat]]
      BY <1>6 DEF LimitTypeOK
    <3> QED BY <1>2, <1>7, <3>1, <3>2
  <2> QED BY <2>1, <2>2
<1>9. LimitTypeOK'
  BY <1>3, <1>5, <1>6, <1>8 DEF LimitTypeOK
<1>10. n.filled = r.filled /\ n.amount_in = r.amount_in
       /\ n.limit_price = r.limit_price /\ n.token_in = r.token_in /\ n.cancelled
  BY <1>1 DEF Order
<1> HIDE DEF n
<1>11. FilledWhole'
  BY <1>5, <1>10 DEF FilledWhole, LimitInv
<1>12. ASSUME NEW t \in Token
       PROVE  (bal[t][Contract] + paid[t])' - (bal[t][Contract] + paid[t])
                = Brought(o, t)' - Brought(o, t)
  <2>1. bal[t][Contract] \in Nat /\ paid[t] \in Nat
    BY <1>6, <1>7 DEF LimitTypeOK
  <2>2. CASE t = r.token_in
    <3>1. Brought(o, t)' = r.filled /\ Brought(o, t) = r.amount_in
      BY <1>3, <1>5, <1>10, <2>2 DEF Brought
    <3> QED BY <1>2, <1>3, <1>8, <2>1, <2>2, <3>1
  <2>3. CASE t # r.token_in
    <3>1. Brought(o, t)' = 0 /\ Brought(o, t) = 0
      BY <1>5, <1>10, <2>3 DEF Brought
    <3> QED BY <1>3, <1>8, <2>1, <2>3, <3>1
  <2> QED BY <2>2, <2>3
<1>13. PoolAccounted'
  BY <1>5, <1>9, <1>12, PoolAfterChange DEF PoolAccounted
<1> QED BY <1>9, <1>11, <1>13 DEF LimitInv

LEMMA LimitInitially == LimitInit => LimitInv
<1> SUFFICES ASSUME LimitInit PROVE LimitInv
  OBVIOUS
<1> USE LimitAssumption, I128Assumption
<1>1. orders = <<>> /\ DOMAIN orders = {} /\ Len(orders) = 0
  BY DEF LimitInit
<1>2. LimitTypeOK
  <2>1. orders \in Seq(Order)
    BY <1>1
  <2>2. book \in [Token \X Token -> Seq(1 .. Len(orders))]
    BY <1>1 DEF LimitInit
  <2> QED BY <2>1, <2>2 DEF LimitInit, LimitTypeOK
<1>3. FilledWhole
  BY <1>1 DEF FilledWhole
<1>4. ASSUME NEW t \in Token
      PROVE  bal[t][Contract] + paid[t]
               = Supply + SumFunction([o \in DOMAIN orders |-> Brought(o, t)])
  <2> DEFINE f == [o \in DOMAIN orders |-> Brought(o, t)]
  <2>1. f \in [{} -> Int]
    BY <1>1
  <2> HIDE DEF f
  <2>2. SumFunction(f) = 0
    BY <2>1, SumEmpty
  <2>3. bal[t][Contract] = Supply /\ paid[t] = 0 /\ Supply \in Int
    BY DEF LimitInit, Account
  <2>4. bal[t][Contract] + paid[t] = Supply + SumFunction(f)
    BY <2>2, <2>3
  <2> QED BY <2>4 DEF f
<1> QED BY <1>2, <1>3, <1>4 DEF LimitInv, PoolAccounted

LEMMA LimitInvStep == LimitInv /\ [LimitNext]_limitVars => LimitInv'
<1> SUFFICES ASSUME LimitInv, [LimitNext]_limitVars PROVE LimitInv'
  OBVIOUS
<1>1. CASE UNCHANGED limitVars
  BY <1>1 DEF limitVars, LimitInv, LimitTypeOK, FilledWhole, PoolAccounted, Brought
<1> QED BY <1>1, PlaceStep, MatchStep, CancelStep DEF LimitNext

\* A quotient of a product by no more than one factor is at least the other.
LEMMA QuotientAtLeast ==
  ASSUME NEW a \in Nat, NEW l \in Nat, NEW p \in Nat, p > 0, p <= l
  PROVE  (a * l) \div p >= a
<1> DEFINE x == a * l
           q == x \div p
           r == x % p
<1>1. x \in Nat /\ a * p \in Nat /\ a * p <= x
  BY SMTT(30)
<1> HIDE DEF x
<1>2. q \in Int /\ r \in Int /\ 0 <= r /\ r < p /\ x = q * p + r
  BY <1>1, DivMod
<1> HIDE DEF q, r
<1>3. CASE q < a
  <2>1. (q + 1) * p <= a * p
    BY <1>2, <1>3
  <2>2. (q + 1) * p = q * p + p /\ q * p \in Int
    BY <1>2
  <2> QED BY <1>1, <1>2, <2>1, <2>2
<1>4. CASE q >= a
  BY <1>4 DEF q, x
<1> QED BY <1>2, <1>3, <1>4

\* Under FairMatching a fill pays at least the amount it takes.
LEMMA FillPays ==
  ASSUME FairMatching, LimitInv, NEW o \in DOMAIN orders, NEW p \in Prices,
         match_order(o, p)
  PROVE  bal'[orders[o].token_out][orders[o].owner]
           - bal[orders[o].token_out][orders[o].owner] >= orders[o].amount_in
<1> USE LimitAssumption, I128Assumption
<1> DEFINE r == orders[o]
           a == r.amount_in
           l == r.limit_price
<1>1. /\ r \in Order /\ PriceMet(o, p) /\ p \in Int /\ p # 0
      /\ \E out \in Nat : /\ out = DivI128(Wrap(a * l), p)
                          /\ Transfer(r.token_out, Contract, r.owner, out)
  BY MatchEffect
<1>2. a \in Amounts /\ l \in LimitPrices
  BY DEF LimitInv, FilledWhole
<1>3. a \in Nat /\ a > 0 /\ l \in Nat /\ l > 0
  BY <1>1 DEF Order
<1>4. p \in Nat /\ p > 0 /\ p <= l
  BY <1>1 DEF FairMatching, PriceMet
<1>5. PICK out \in Nat : /\ out = DivI128(Wrap(a * l), p)
                         /\ Transfer(r.token_out, Contract, r.owner, out)
  BY <1>1
<1>6. bal'[r.token_out][r.owner] = bal[r.token_out][r.owner] + out
      /\ bal[r.token_out][r.owner] \in Int
  <2>1. r.token_out \in Token /\ r.owner \in Account /\ Contract \in Account
        /\ r.owner # Contract /\ out \in Int /\ LimitTypeOK
    BY <1>1 DEF Order, Account, LimitInv
  <2>2. bal[r.token_out][r.owner] \in Int
    BY <2>1 DEF LimitTypeOK
  <2> QED BY <1>5, <2>1, <2>2, TransferEffect
<1>7. a * l \in Int /\ a * l <= I128Max /\ a * l >= 0
  <2> HIDE DEF a, l
  <2>1. a * l <= I128Max
    BY <1>2, <1>3 DEF FairMatching
  <2> QED BY <1>3, <2>1
<1> HIDE DEF a, l
<1>8. Wrap(a * l) = a * l
  BY <1>7, WrapId
<1>9. out = (a * l) \div p
  BY <1>4, <1>5, <1>7, <1>8, DivType
<1>10. (a * l) \div p >= a
  BY <1>3, <1>4, QuotientAtLeast
<1>11. out >= a
  BY <1>9, <1>10
<1> QED BY <1>3, <1>6, <1>11 DEF a

LEMMA FillsAtLimit ==
  ASSUME FairMatching, LimitInv, [LimitNext]_limitVars
  PROVE  [\A o \in DOMAIN orders : FillPaysLimit(o)]_limitVars
<1> SUFFICES ASSUME LimitNext, NEW o \in DOMAIN orders PROVE FillPaysLimit(o)
  OBVIOUS
<1>0. orders \in Seq(Order) /\ orders[o] \in Order
  BY DEF LimitInv, LimitTypeOK
<1>1. ASSUME NEW c \in Trader, NEW in \in Token, NEW out \in Token,
             NEW a \in Amounts, NEW l \in LimitPrices, place_order(c, in, out, a, l)
      PROVE  FillPaysLimit(o)
  <2>1. orders'[o] = orders[o]
    BY <1>0, <1>1 DEF place_order
  <2> QED BY <2>1 DEF FillPaysLimit
<1>2. ASSUME NEW x \in DOMAIN orders, NEW p \in Prices, match_order(x, p)
      PROVE  FillPaysLimit(o)
  <2>1. /\ orders' = [orders EXCEPT ![x].filled = orders[x].amount_in]
        /\ orders[x].filled = 0
    BY <1>2, MatchEffect
  <2>2. CASE x = o
    <3>1. orders'[o].filled = orders[o].amount_in /\ orders[o].filled = 0
      BY <1>0, <2>1, <2>2 DEF Order
    <3>2. orders[o].amount_in - 0 = orders[o].amount_in
      BY <1>0, I128Assumption DEF Order
    <3> QED BY <1>2, <2>2, <3>1, <3>2, FillPays DEF FillPaysLimit
  <2>3. CASE x # o
    BY <1>0, <2>1, <2>3 DEF FillPaysLimit
  <2> QED BY <2>2, <2>3
<1>3. ASSUME NEW c \in Trader, NEW x \in DOMAIN orders, cancel_order(c, x)
      PROVE  FillPaysLimit(o)
  <2>1. orders' = [orders EXCEPT ![x].cancelled = TRUE]
    BY <1>3 DEF cancel_order
  <2>2. orders'[o].filled = orders[o].filled
    BY <1>0, <2>1 DEF Order
  <2> QED BY <2>2 DEF FillPaysLimit
<1> QED BY <1>1, <1>2, <1>3 DEF LimitNext

-----------------------------------------------------------------------------
(* Derivatives *)

\* A pair of match_orders is a buy and a sell, both open, that cross.
LEMMA PairShape ==
  ASSUME DerivTypeOK, NEW p \in Pairs
  PROVE  /\ p \in Id \X Id /\ p = <<p[1], p[2]>>
         /\ p[1] \in Unsettled /\ p[2] \in Unsettled
         /\ derivs[p[1]].is_buy /\ ~derivs[p[2]].is_buy
         /\ Crosses(p[1], p[2])
<1>1. PICK b \in MatchedBuys : p = <<b, First(Candidates(b))>>
  BY DEF Pairs
<1>2. derivs \in Seq(DerivOrder) /\ Len(derivs) \in Nat /\ Len(derivs) <= MaxDerivs
  BY DEF DerivTypeOK
<1>3. Unsettled \subseteq Id /\ Id \subseteq Nat
  BY <1>2, DerivativesAssumption DEF Unsettled, Id
<1>4. Candidates(b) \in SUBSET Nat /\ Candidates(b) # {}
  BY <1>1, <1>3 DEF Candidates, MatchedBuys
<1>5. \E s \in Candidates(b) : \A r \in Candidates(b) : s <= r
  BY <1>4, LeastNat
<1>6. First(Candidates(b)) \in Candidates(b)
  BY <1>5 DEF First
<1>7. b \in Unsettled /\ derivs[b].is_buy
  BY <1>1 DEF MatchedBuys
<1>8. p[1] = b /\ p[2] \in Candidates(b)
  BY <1>1, <1>6
<1>9. p[2] \in Unsettled /\ ~derivs[p[2]].is_buy /\ Crosses(p[1], p[2])
  BY <1>8 DEF Candidates
<1> QED BY <1>1, <1>3, <1>7, <1>8, <1>9

\* Every order of a pair has a last pair.
LEMMA LastPairExists ==
  ASSUME DerivTypeOK, NEW p \in Pairs, NEW o \in {p[1], p[2]}
  PROVE  LastPair(o) \in Pairs /\ o \in {LastPair(o)[1], LastPair(o)[2]}
<1> DEFINE S == {q \in Pairs : o \in {q[1], q[2]}}
           T == {MaxDerivs - q[1] : q \in S}
<1>1. \A q \in S : q[1] \in Id
  BY PairShape
<1>2. T \in SUBSET Nat /\ T # {}
  BY <1>1, DerivativesAssumption DEF Id
<1>3. PICK n \in T : \A m \in T : n <= m
  BY <1>2, LeastNat
<1>4. PICK q \in S : n = MaxDerivs - q[1]
  BY <1>3
<1>5. \A x \in S : x[1] <= q[1]
  <2> SUFFICES ASSUME NEW x \in S PROVE x[1] <= q[1]
    OBVIOUS
  <2>1. MaxDerivs - q[1] <= MaxDerivs - x[1]
    BY <1>3, <1>4
  <2>2. q[1] \in Int /\ x[1] \in Int /\ MaxDerivs \in Int
    BY <1>1, DerivativesAssumption DEF Id
  <2> HIDE DEF S
  <2> QED BY <2>1, <2>2
<1>6. \E y \in Pairs : o \in {y[1], y[2]} /\
        \A x \in Pairs : o \in {x[1], x[2]} => x[1] <= y[1]
  BY <1>5
<1> QED BY <1>6 DEF LastPair

\* A position is within the order that it is given to.
LEMMA PositionFits ==
  ASSUME DerivTypeOK, NEW p \in Pairs, NEW o \in {p[1], p[2]}
  PROVE  /\ o \in DOMAIN derivs /\ o \in Id /\ ~derivs[o].settled
         /\ PositionOf(p) \in Position
         /\ PositionOf(p).quantity <= derivs[o].quantity
         /\ IF derivs[o].is_buy
            THEN PositionOf(p).entry_price <= derivs[o].strike_price
            ELSE PositionOf(p).entry_price >= derivs[o].strike_price
<1>1. derivs \in Seq(DerivOrder)
  BY DEF DerivTypeOK
<1>2. /\ p[1] \in DOMAIN derivs /\ p[2] \in DOMAIN derivs /\ o \in Id
      /\ ~derivs[p[1]].settled /\ ~derivs[p[2]].settled
      /\ derivs[p[1]].is_buy /\ ~derivs[p[2]].is_buy
      /\ derivs[p[1]].strike_price >= derivs[p[2]].strike_price
  BY PairShape DEF Unsettled, Crosses
<1>3. derivs[p[1]] \in DerivOrder /\ derivs[p[2]] \in DerivOrder
  BY <1>1, <1>2
<1>4. /\ derivs[p[1]].quantity \in 1 .. I128Max /\ derivs[p[2]].quantity \in 1 .. I128Max
      /\ derivs[p[1]].strike_price \in 1 .. I128Max
      /\ derivs[p[2]].strike_price \in 1 .. I128Max
  BY <1>3 DEF DerivOrder
<1>5. /\ PositionOf(p).quantity \in 1 .. I128Max
      /\ PositionOf(p).quantity <= derivs[p[1]].quantity
      /\ PositionOf(p).quantity <= derivs[p[2]].quantity
      /\ PositionOf(p).entry_price = derivs[p[2]].strike_price
  BY <1>4, I128Assumption DEF PositionOf, Smaller
<1>6. PositionOf(p) \in Position
  BY <1>4, <1>5 DEF PositionOf, Position
<1> QED BY <1>2, <1>4, <1>5, <1>6, I128Assumption

LEMMA MatchOrdersStep ==
  ASSUME DerivInv, match_orders
  PROVE  DerivInv'
<1> USE DerivativesAssumption
<1> DEFINE matched == UNION {{p[1], p[2]} : p \in Pairs}
<1>1. /\ DerivTypeOK /\ derivs \in Seq(DerivOrder) /\ Len(derivs) <= MaxDerivs
      /\ Len(derivs) \in Nat
  BY DEF DerivInv, DerivTypeOK
<1>2. /\ DOMAIN positions' = DOMAIN positions \cup matched
      /\ \A o \in matched : positions'[o] = PositionOf(LastPair(o))
      /\ \A o \in DOMAIN positions \ matched : positions'[o] = positions[o]
      /\ derivs' = [o \in DOMAIN derivs |->
                      [derivs[o] EXCEPT !.settled = @ \/ o \in matched]]
      /\ trades' = trades \cup Pairs
      /\ UNCHANGED <<now, underlying, payouts>>
  BY DEF match_orders
<1>3. \A o \in matched : \E p \in Pairs : o \in {p[1], p[2]}
  OBVIOUS
<1>4. ASSUME NEW o \in matched
      PROVE  /\ LastPair(o) \in Pairs /\ o \in {LastPair(o)[1], LastPair(o)[2]}
             /\ o \in DOMAIN derivs /\ o \in Id /\ ~derivs[o].settled
             /\ positions'[o] \in Position
             /\ positions'[o].quantity <= derivs[o].quantity
             /\ IF derivs[o].is_buy
                THEN positions'[o].entry_price <= derivs[o].strike_price
                ELSE positions'[o].entry_price >= derivs[o].strike_price
  <2>1. LastPair(o) \in Pairs /\ o \in {LastPair(o)[1], LastPair(o)[2]}
    BY <1>1, <1>3, LastPairExists
  <2>2. positions'[o] = PositionOf(LastPair(o))
    BY <1>2
  <2> HIDE DEF matched
  <2> QED BY <1>1, <2>1, <2>2, PositionFits
<1>5. \A p \in Pairs : p[1] \in matched /\ p[2] \in matched
  OBVIOUS
<1> HIDE DEF matched
<1>6. /\ DOMAIN derivs' = DOMAIN derivs /\ derivs' \in Seq(DerivOrder)
      /\ Len(derivs') = Len(derivs)
      /\ \A o \in DOMAIN derivs :
           /\ derivs'[o].quantity = derivs[o].quantity
           /\ derivs'[o].strike_price = derivs[o].strike_price
           /\ derivs'[o].is_buy = derivs[o].is_buy
           /\ derivs'[o].derivative_type = derivs[o].derivative_type
           /\ derivs'[o].settled <=> (derivs[o].settled \/ o \in matched)
  <2>1. ASSUME NEW o \in DOMAIN derivs
        PROVE  /\ derivs'[o] \in DerivOrder
               /\ derivs'[o].quantity = derivs[o].quantity
               /\ derivs'[o].strike_price = derivs[o].strike_price
               /\ derivs'[o].is_buy = derivs[o].is_buy
               /\ derivs'[o].derivative_type = derivs[o].derivative_type
               /\ derivs'[o].settled <=> (derivs[o].settled \/ o \in matched)
    <3>1. derivs[o] \in DerivOrder
      BY <1>1
    <3>2. derivs'[o] = [derivs[o] EXCEPT !.settled = @ \/ o \in matched]
      BY <1>2
    <3> QED BY <3>1, <3>2 DEF DerivOrder
  <2>2. derivs' \in [1 .. Len(derivs) -> DerivOrder] /\ DOMAIN derivs' = DOMAIN derivs
    <3>1. DOMAIN derivs = 1 .. Len(derivs)
      BY <1>1
    <3>2. DOMAIN derivs' = DOMAIN derivs
          /\ derivs' = [o \in DOMAIN derivs |-> derivs'[o]]
      BY <1>2
    <3> QED BY <2>1, <3>1, <3>2
  <2> QED BY <1>1, <2>1, <2>2
<1>7. DerivTypeOK'
  <2>1. DOMAIN positions' \subseteq DOMAIN derivs'
    BY <1>1, <1>2, <1>4, <1>6 DEF DerivTypeOK
  <2>2. \A o \in DOMAIN positions' : positions'[o] \in Position
    BY <1>1, <1>2, <1>4 DEF DerivTypeOK
  <2>3. trades' \subseteq Id \X Id
    BY <1>1, <1>2, PairShape DEF DerivTypeOK
  <2> QED BY <1>1, <1>2, <1>6, <2>1, <2>2, <2>3 DEF DerivTypeOK
<1>8. ClosedStaysClosed'
  <2>1. \A p \in trades' : \A o \in {p[1], p[2]} : o \in DOMAIN derivs' /\ derivs'[o].settled
    <3>1. ASSUME NEW p \in trades, NEW o \in {p[1], p[2]}
          PROVE  o \in DOMAIN derivs' /\ derivs'[o].settled
      BY <1>6, <3>1 DEF DerivInv, ClosedStaysClosed
    <3>2. ASSUME NEW p \in Pairs, NEW o \in {p[1], p[2]}
          PROVE  o \in DOMAIN derivs' /\ derivs'[o].settled
      <4>1. o \in matched /\ o \in DOMAIN derivs
        BY <1>4, <1>5, <3>2
      <4> QED BY <1>6, <4>1
    <3> QED BY <1>2, <3>1, <3>2
  <2>2. \A o \in Id : payouts'[o] > 0 => o \in DOMAIN derivs' /\ derivs'[o].settled
    BY <1>2, <1>6 DEF DerivInv, ClosedStaysClosed
  <2> QED BY <2>1, <2>2 DEF ClosedStaysClosed
<1>9. ClosedOneWay'
  <2> SUFFICES ASSUME NEW o \in Id
               PROVE  payouts'[o] + (IF Matched(o)' THEN 1 ELSE 0) <= 1
    BY DEF ClosedOneWay
  <2>0. payouts[o] \in Nat /\ payouts'[o] = payouts[o]
        /\ payouts[o] + (IF Matched(o) THEN 1 ELSE 0) <= 1
    BY <1>1, <1>2 DEF DerivTypeOK, DerivInv, ClosedOneWay
  <2>1. CASE o \in matched
    <3>1. payouts[o] = 0
      BY <1>4, <2>0, <2>1 DEF DerivInv, ClosedStaysClosed
    <3> QED BY <2>0, <3>1
  <2>2. CASE o \notin matched
    <3>1. Matched(o)' <=> Matched(o)
      BY <1>2, <1>5, <2>2 DEF Matched
    <3> QED BY <2>0, <3>1
  <2> QED BY <2>1, <2>2
<1>10. EnteredWithinOrder'
  <2> SUFFICES ASSUME NEW o \in DOMAIN positions'
               PROVE  /\ positions'[o].quantity <= derivs'[o].quantity
                      /\ IF derivs'[o].is_buy
                         THEN positions'[o].entry_price <= derivs'[o].strike_price
                         ELSE positions'[o].entry_price >= derivs'[o].strike_price
                      /\ \E p \in trades' :
                           /\ o \in {p[1], p[2]}
                           /\ derivs'[p[1]].derivative_type
                                = derivs'[p[2]].derivative_type
    BY DEF EnteredWithinOrder
  <2>1. CASE o \in matched
    <3> DEFINE p == LastPair(o)
    <3>1. p \in trades' /\ o \in {p[1], p[2]}
      BY <1>2, <1>4, <2>1
    <3>2. /\ p[1] \in DOMAIN derivs /\ p[2] \in DOMAIN derivs
          /\ derivs[p[1]].derivative_type = derivs[p[2]].derivative_type
      BY <1>1, <1>4, <2>1, PairShape DEF Unsettled, Crosses
    <3>3. derivs'[p[1]].derivative_type = derivs'[p[2]].derivative_type
      BY <1>6, <3>2
    <3> HIDE DEF p
    <3> QED BY <1>4, <1>6, <2>1, <3>1, <3>3
  <2>2. CASE o \notin matched
    <3>1. o \in DOMAIN positions /\ positions'[o] = positions[o] /\ o \in DOMAIN derivs
      BY <1>1, <1>2, <2>2 DEF DerivTypeOK
    <3>2. PICK p \in trades : /\ o \in {p[1], p[2]}
                              /\ derivs[p[1]].derivative_type = derivs[p[2]].derivative_type
      BY <3>1 DEF DerivInv, EnteredWithinOrder
    <3>3. p[1] \in DOMAIN derivs /\ p[2] \in DOMAIN derivs
      BY DEF DerivInv, ClosedStaysClosed
    <3>4. derivs'[p[1]].derivative_type = derivs'[p[2]].derivative_type /\ p \in trades'
      BY <1>2, <1>6, <3>2, <3>3
    <3> QED BY <1>6, <3>1, <3>2, <3>4 DEF DerivInv, EnteredWithinOrder
  <2> QED BY <2>1, <2>2
<1> QED BY <1>7, <1>8, <1>9, <1>10 DEF DerivInv

\* A change of one order keeps the others.
LEMMA DerivUpdate ==
  ASSUME derivs \in Seq(DerivOrder), NEW o \in DOMAIN derivs, NEW r \in DerivOrder,
         derivs' = [derivs EXCEPT ![o] = r]
  PROVE  /\ derivs' \in Seq(DerivOrder) /\ Len(derivs') = Len(derivs)
         /\ DOMAIN derivs' = DOMAIN derivs /\ derivs'[o] = r
         /\ \A x \in DOMAIN derivs : x # o => derivs'[x] = derivs[x]
OBVIOUS

\* settle_order and cancel_order close one open order; one of them pays it.
LEMMA CloseStep ==
  ASSUME DerivInv, NEW o \in DOMAIN derivs, ~derivs[o].settled,
         derivs' = [derivs EXCEPT ![o].settled = TRUE],
         payouts' \in {payouts, [payouts EXCEPT ![o] = @ + 1]},
         underlying' \in [Holder \cup {"contract"} -> Nat],
         UNCHANGED <<positions, now, trades>>
  PROVE  DerivInv'
<1> USE DerivativesAssumption
<1>1. /\ derivs \in Seq(DerivOrder) /\ Len(derivs) <= MaxDerivs /\ Len(derivs) \in Nat
      /\ payouts \in [Id -> Nat]
  BY DEF DerivInv, DerivTypeOK
<1>2. o \in Id
  BY <1>1 DEF Id
<1>3. /\ DOMAIN derivs' = DOMAIN derivs /\ Len(derivs') = Len(derivs)
      /\ derivs' \in Seq(DerivOrder)
      /\ \A x \in DOMAIN derivs :
           /\ derivs'[x].quantity = derivs[x].quantity
           /\ derivs'[x].strike_price = derivs[x].strike_price
           /\ derivs'[x].is_buy = derivs[x].is_buy
           /\ derivs'[x].derivative_type = derivs[x].derivative_type
           /\ derivs[x].settled => derivs'[x].settled
      /\ derivs'[o].settled
  <2> DEFINE n == [derivs[o] EXCEPT !.settled = TRUE]
  <2>1. derivs[o] \in DerivOrder /\ derivs' = [derivs EXCEPT ![o] = n]
    BY <1>1
  <2>2. /\ n \in DerivOrder /\ n.settled
        /\ n.quantity = derivs[o].quantity /\ n.strike_price = derivs[o].strike_price
        /\ n.is_buy = derivs[o].is_buy /\ n.derivative_type = derivs[o].derivative_type
    BY <2>1 DEF DerivOrder
  <2> HIDE DEF n
  <2>3. /\ derivs' \in Seq(DerivOrder) /\ Len(derivs') = Len(derivs)
        /\ DOMAIN derivs' = DOMAIN derivs /\ derivs'[o] = n
        /\ \A x \in DOMAIN derivs : x # o => derivs'[x] = derivs[x]
    BY <1>1, <2>1, <2>2, DerivUpdate
  <2> QED BY <2>2, <2>3
<1>4. payouts' \in [Id -> Nat] /\ \A x \in Id : x # o => payouts'[x] = payouts[x]
      /\ payouts'[o] <= payouts[o] + 1
  BY <1>1, <1>2
<1>5. payouts[o] = 0 /\ ~Matched(o)
  <2>1. ~Matched(o)
    BY DEF Matched, DerivInv, ClosedStaysClosed
  <2>2. payouts[o] \in Nat /\ ~(payouts[o] > 0)
    BY <1>1, <1>2 DEF DerivInv, ClosedStaysClosed
  <2> QED BY <2>1, <2>2
<1>6. DerivTypeOK'
  BY <1>1, <1>3, <1>4 DEF DerivInv, DerivTypeOK
<1>7. ClosedStaysClosed'
  <2>1. ASSUME NEW p \in trades', NEW x \in {p[1], p[2]}
        PROVE  x \in DOMAIN derivs' /\ derivs'[x].settled
    BY <1>3, <2>1 DEF DerivInv, ClosedStaysClosed
  <2>2. ASSUME NEW x \in Id, payouts'[x] > 0
        PROVE  x \in DOMAIN derivs' /\ derivs'[x].settled
    <3>1. CASE x = o
      BY <1>3, <3>1
    <3>2. CASE x # o
      BY <1>3, <1>4, <2>2, <3>2 DEF DerivInv, ClosedStaysClosed
    <3> QED BY <3>1, <3>2
  <2> QED BY <2>1, <2>2 DEF ClosedStaysClosed
<1>8. ClosedOneWay'
  <2> SUFFICES ASSUME NEW x \in Id
               PROVE  payouts'[x] + (IF Matched(x)' THEN 1 ELSE 0) <= 1
    BY DEF ClosedOneWay
  <2>0. Matched(x)' <=> Matched(x)
    BY DEF Matched
  <2>1. CASE x = o
    BY <1>1, <1>2, <1>4, <1>5, <2>0, <2>1
  <2>2. CASE x # o
    BY <1>4, <2>0, <2>2 DEF DerivInv, ClosedOneWay
  <2> QED BY <2>1, <2>2
<1>9. EnteredWithinOrder'
  <2> SUFFICES ASSUME NEW x \in DOMAIN positions
               PROVE  /\ positions[x].quantity <= derivs'[x].quantity
                      /\ IF derivs'[x].is_buy
                         THEN positions[x].entry_price <= derivs'[x].strike_price
                         ELSE positions[x].entry_price >= derivs'[x].strike_price
                      /\ \E p \in trades :
                           /\ x \in {p[1], p[2]}
                           /\ derivs'[p[1]].derivative_type
                                = derivs'[p[2]].derivative_type
    BY DEF EnteredWithinOrder
  <2>1. x \in DOMAIN derivs
    BY DEF DerivInv, DerivTypeOK
  <2>2. PICK p \in trades : /\ x \in {p[1], p[2]}
                            /\ derivs[p[1]].derivative_type = derivs[p[2]].derivative_type
    BY DEF DerivInv, EnteredWithinOrder
  <2>3. p[1] \in DOMAIN derivs /\ p[2] \in DOMAIN derivs
    BY DEF DerivInv, ClosedStaysClosed
  <2>4. derivs'[p[1]].derivative_type = derivs'[p[2]].derivative_type
    BY <1>3, <2>2, <2>3
  <2> QED BY <1>3, <2>1, <2>2, <2>4 DEF DerivInv, EnteredWithinOrder
<1> QED BY <1>6, <1>7, <1>8, <1>9 DEF DerivInv

LEMMA PlaceDerivativeStep ==
  ASSUME DerivInv, NEW c \in Holder, NEW k \in Kinds, NEW s \in Strikes,
         NEW x \in Expiries, NEW q \in Quantities, NEW b \in BOOLEAN,
         place_derivative_order(c, k, s, x, q, b)
  PROVE  DerivInv'
<1> USE DerivativesAssumption, I128Assumption
<1> DEFINE r == [owner |-> c, derivative_type |-> k, strike_price |-> s,
                 expiry |-> x, quantity |-> q, is_buy |-> b, settled |-> FALSE]
<1>1. /\ derivs' = Append(derivs, r) /\ Len(derivs) < MaxDerivs /\ q > 0 /\ s > 0
      /\ UNCHANGED <<positions, now, underlying, trades, payouts>>
  BY DEF place_derivative_order
<1>2. r \in DerivOrder
  BY <1>1 DEF DerivOrder
<1>3. derivs \in Seq(DerivOrder) /\ Len(derivs) \in Nat
  BY DEF DerivInv, DerivTypeOK
<1> HIDE DEF r
<1>4. /\ derivs' \in Seq(DerivOrder) /\ Len(derivs') <= MaxDerivs
      /\ DOMAIN derivs \subseteq DOMAIN derivs'
      /\ \A o \in DOMAIN derivs : derivs'[o] = derivs[o]
  BY <1>1, <1>2, <1>3
<1>5. DerivTypeOK'
  BY <1>1, <1>4 DEF DerivInv, DerivTypeOK
<1>6. ClosedStaysClosed'
  BY <1>1, <1>4 DEF DerivInv, ClosedStaysClosed
<1>7. ClosedOneWay'
  BY <1>1 DEF DerivInv, ClosedOneWay, Matched
<1>8. EnteredWithinOrder'
  <2> SUFFICES ASSUME NEW o \in DOMAIN positions
               PROVE  /\ positions[o].quantity <= derivs'[o].quantity
                      /\ IF derivs'[o].is_buy
                         THEN positions[o].entry_price <= derivs'[o].strike_price
                         ELSE positions[o].entry_price >= derivs'[o].strike_price
                      /\ \E p \in trades :
                           /\ o \in {p[1], p[2]}
                           /\ derivs'[p[1]].derivative_type
                                = derivs'[p[2]].derivative_type
    BY <1>1 DEF EnteredWithinOrder
  <2>1. derivs'[o] = derivs[o]
    BY <1>4 DEF DerivInv, DerivTypeOK
  <2>2. \A p \in trades : derivs'[p[1]] = derivs[p[1]] /\ derivs'[p[2]] = derivs[p[2]]
    BY <1>4 DEF DerivInv, ClosedStaysClosed
  <2> QED BY <2>1, <2>2 DEF DerivInv, EnteredWithinOrder
<1> QED BY <1>5, <1>6, <1>7, <1>8 DEF DerivInv

LEMMA DerivInitially == DerivInit => DerivInv
<1> SUFFICES ASSUME DerivInit PROVE DerivInv
  OBVIOUS
<1>1. derivs = <<>> /\ positions = <<>> /\ trades = {} /\ payouts = [o \in Id |-> 0]
  BY DEF DerivInit
<1>2. DerivTypeOK
  BY <1>1, DerivativesAssumption DEF DerivInit, DerivTypeOK
<1>3. ClosedStaysClosed /\ ClosedOneWay /\ EnteredWithinOrder
  BY <1>1 DEF ClosedStaysClosed, ClosedOneWay, EnteredWithinOrder, Matched
<1> QED BY <1>2, <1>3 DEF DerivInv

LEMMA DerivInvStep == DerivInv /\ [DerivNext]_derivVars => DerivInv'
<1> SUFFICES ASSUME DerivInv, [DerivNext]_derivVars PROVE DerivInv'
  OBVIOUS
<1> USE DerivativesAssumption
<1>1. CASE Tick
  BY <1>1 DEF Tick, DerivInv, DerivTypeOK, ClosedStaysClosed, ClosedOneWay,
              EnteredWithinOrder, Matched
<1>2. ASSUME NEW o \in DOMAIN derivs, settle_order(o)
      PROVE  DerivInv'
  <2> DEFINE value == Wrap(derivs[o].quantity * derivs[o].strike_price)
  <2>1. /\ ~derivs[o].settled /\ value \in 0 .. underlying["contract"]
        /\ underlying' = [underlying EXCEPT !["contract"] = @ - value,
                                            ![derivs[o].owner] = @ + value]
        /\ derivs' = [derivs EXCEPT ![o].settled = TRUE]
        /\ payouts' = [payouts EXCEPT ![o] = @ + 1]
        /\ UNCHANGED <<positions, now, trades>>
    BY <1>2 DEF settle_order
  <2> HIDE DEF value
  <2>2. underlying' \in [Holder \cup {"contract"} -> Nat]
    <3>1. underlying \in [Holder \cup {"contract"} -> Nat] /\ derivs[o] \in DerivOrder
      BY DEF DerivInv, DerivTypeOK
    <3>2. derivs[o].owner \in Holder
      BY <3>1 DEF DerivOrder
    <3>3. value \in Nat /\ underlying["contract"] - value \in Nat
      BY <2>1, <3>1
    <3> QED BY <2>1, <3>1, <3>2, <3>3
  <2> QED BY <2>1, <2>2, CloseStep
<1>3. ASSUME NEW c \in Holder, NEW o \in DOMAIN derivs, cancel_derivative_order(c, o)
      PROVE  DerivInv'
  <2>1. underlying \in [Holder \cup {"contract"} -> Nat]
    BY DEF DerivInv, DerivTypeOK
  <2> QED BY <1>3, <2>1, CloseStep DEF cancel_derivative_order
<1>4. CASE UNCHANGED derivVars
  BY <1>4 DEF derivVars, DerivInv, DerivTypeOK, ClosedStaysClosed, ClosedOneWay,
              EnteredWithinOrder, Matched
<1> QED BY <1>1, <1>2, <1>3, <1>4, PlaceDerivativeStep, MatchOrdersStep DEF DerivNext

-----------------------------------------------------------------------------
(* Risk management *)

\* A score lies between 0 and Scale.
LEMMA ScoreType ==
  ASSUME NEW x \in Int, NEW t \in 1 .. I128Max
  PROVE  Score(x, t) \in 0 .. Scale
<1> USE RiskAssumption, I128Assumption
<1> DEFINE raw == DivI128(Wrap(x * Scale), t)
<1>1. x * Scale \in Int /\ Scale \in Nat
  OBVIOUS
<1>2. Wrap(x * Scale) \in Int
  BY <1>1, WrapShift
<1>3. raw \in Int
  <2> HIDE DEF Wrap
  <2> QED BY <1>2, DivType
<1>4. Score(x, t) = IF raw > Scale THEN Scale ELSE IF raw < 0 THEN 0 ELSE raw
  BY DEF Score
<1> HIDE DEF raw
<1> QED BY <1>1, <1>3, <1>4

\* As long as the product fits, the score is full from the threshold on.
LEMMA ScoreFull ==
  ASSUME NEW x \in Int, NEW t \in 1 .. I128Max, Scorable(x)
  PROVE  Score(x, t) = Scale <=> x >= t
<1> USE RiskAssumption, I128Assumption
<1> DEFINE p == x * Scale
           raw == DivI128(p, t)
<1>1. p \in Int /\ Scale \in Nat /\ Scale > 0 /\ t \in Nat /\ t > 0
  OBVIOUS
<1>2. p <= I128Max /\ p >= -I128Max /\ (x >= 0 => p >= 0) /\ (x < 0 => p < 0)
  <2>1. CASE x >= 0
    <3>1. p <= I128Max /\ p >= 0
      BY <2>1 DEF Scorable, Abs
    <3> HIDE DEF p
    <3> QED BY <1>1, <2>1, <3>1
  <2>2. CASE x < 0
    <3>1. (-x) * Scale <= I128Max /\ (-x) * Scale > 0 /\ (-x) * Scale = -p
      BY <2>2 DEF Scorable, Abs
    <3> HIDE DEF p
    <3> QED BY <1>1, <2>2, <3>1
  <2> QED BY <2>1, <2>2
<1>3. Score(x, t) = IF raw > Scale THEN Scale ELSE IF raw < 0 THEN 0 ELSE raw
  <2>1. Wrap(p) = p
    <3> HIDE DEF p
    <3> QED BY <1>1, <1>2, WrapId
  <2> QED BY <2>1 DEF Score
<1>4. CASE x >= 0
  <2> DEFINE q == p \div t
             r == p % t
  <2>1. q \in Int /\ r \in Int /\ 0 <= r /\ r < t /\ p = q * t + r
    BY <1>1, DivMod
  <2>2. raw = q
    <3> HIDE DEF p
    <3> QED BY <1>1, <1>2, <1>4, DivType
  <2>3. q >= 0 /\ (q >= Scale <=> x >= t)
    <3>1. Scale * x = p /\ Scale * t \in Int
      OBVIOUS
    <3> HIDE DEF q, r, p
    <3>2. CASE x >= t
      <4>1. Scale * t <= p
        BY <1>1, <1>4, <3>1, <3>2
      <4>2. CASE q < Scale
        <5>1. (q + 1) * t <= Scale * t
          BY <1>1, <2>1, <4>2
        <5>2. (q + 1) * t = q * t + t /\ q * t \in Int
          BY <1>1, <2>1
        <5> QED BY <1>1, <2>1, <3>1, <4>1, <5>1, <5>2
      <4> QED BY <1>1, <2>1, <3>2, <4>2
    <3>3. CASE x < t
      <4>1. p < Scale * t
        BY <1>1, <1>4, <3>1, <3>3
      <4>2. CASE q >= Scale
        <5>1. q * t >= Scale * t /\ q * t \in Int
          BY <1>1, <2>1, <4>2
        <5> QED BY <1>1, <2>1, <3>1, <4>1, <5>1
      <4>3. CASE q < 0
        <5>1. q * t <= -t /\ q * t \in Int
          BY <1>1, <2>1, <4>3
        <5> QED BY <1>1, <1>2, <1>4, <2>1, <5>1
      <4> QED BY <1>1, <2>1, <3>3, <4>2, <4>3
    <3> QED BY <1>1, <3>2, <3>3
  <2> HIDE DEF q, raw
  <2> QED BY <1>1, <1>3, <2>1, <2>2, <2>3
<1>5. CASE x < 0
  <2>1. raw \in Int /\ raw <= 0
    <3>1. Abs(p) \in Nat /\ Abs(t) = t /\ p < 0
      BY <1>1, <1>2, <1>5 DEF Abs
    <3>2. raw = -(Abs(p) \div Abs(t))
      <4> HIDE DEF p, Abs
      <4> QED BY <1>1, <3>1 DEF DivI128
    <3> DEFINE q == Abs(p) \div t
               r == Abs(p) % t
    <3>3. q \in Int /\ r \in Int /\ 0 <= r /\ r < t /\ Abs(p) = q * t + r
      BY <1>1, <3>1, DivMod
    <3>4. q >= 0
      <4> HIDE DEF q, r, p
      <4>1. CASE q < 0
        <5>1. q * t <= -t /\ q * t \in Int
          BY <1>1, <3>3, <4>1
        <5> QED BY <1>1, <3>1, <3>3, <5>1
      <4> QED BY <3>3, <4>1
    <3>5. raw = -q
      BY <3>1, <3>2
    <3> HIDE DEF q, raw
    <3> QED BY <3>3, <3>4, <3>5
  <2> HIDE DEF raw, p
  <2> QED BY <1>1, <1>3, <1>5, <2>1
<1> QED BY <1>4, <1>5

\* The exposure of one participant, as a summand of Exposure.
ExposureOf(u) == IF profile[u] = None THEN 0 ELSE profile[u].exposure

\* A step that gives one participant another exposure moves the total with it.
LEMMA ExposureMoves ==
  ASSUME RiskTypeOK, RiskTypeOK', NEW u \in User,
         \A v \in User : v # u => profile'[v] = profile[v]
  PROVE  /\ Exposure \in Int /\ Exposure' \in Int
         /\ Exposure' = Exposure + ExposureOf(u)' - ExposureOf(u)
         /\ ExposureOf(u) \in Int /\ ExposureOf(u)' \in Int
<1> USE RiskAssumption, I128Assumption
<1> DEFINE before == [v \in User |-> ExposureOf(v)]
           after == [v \in User |-> ExposureOf(v)']
<1>1. \A v \in User : profile[v] = None \/ profile[v] \in Profile
  BY DEF RiskTypeOK
<1>2. \A v \in User : profile'[v] = None \/ profile'[v] \in Profile
  BY DEF RiskTypeOK
<1>3. \A v \in User : ExposureOf(v) \in Int
  BY <1>1 DEF ExposureOf, Profile, I128
<1>4. \A v \in User : ExposureOf(v)' \in Int
  BY <1>2 DEF ExposureOf, Profile, I128
<1>5. before \in [User -> Int] /\ after \in [User -> Int]
      /\ \A v \in User \ {u} : after[v] = before[v]
  BY <1>3, <1>4 DEF ExposureOf
<1>6. Exposure = SumFunction(before) /\ Exposure' = SumFunction(after)
  BY DEF Exposure, ExposureOf
<1>7. before[u] = ExposureOf(u) /\ after[u] = ExposureOf(u)'
  OBVIOUS
<1> HIDE DEF before, after
<1>8. SumFunction(after) = SumFunction(before) + after[u] - before[u]
  BY <1>5, SumUpdate
<1>9. SumFunction(before) \in Int /\ SumFunction(after) \in Int
  BY <1>5, SumType
<1> QED BY <1>3, <1>4, <1>6, <1>7, <1>8, <1>9

\* The total follows a change of one participant's exposure.
LEMMA TotalMoves ==
  ASSUME RiskInv, RiskTypeOK', NEW u \in User, profile[u] # None,
         \A v \in User : v # u => profile'[v] = profile[v],
         profile'[u] # None, atInit' = atInit,
         total_exposure' = NewTotal(profile[u].exposure, profile'[u].exposure)
  PROVE  TotalInStep'
<1> DEFINE old == ExposureOf(u)
           new == ExposureOf(u)'
           e == Exposure
           f == Exposure'
<1>1. RiskTypeOK /\ total_exposure \in Int /\ atInit \in Int
  BY I128Assumption DEF RiskInv, RiskTypeOK, I128
<1>2. /\ e \in Int /\ f \in Int /\ f = e + new - old
      /\ old \in Int /\ new \in Int
  BY <1>1, ExposureMoves
<1>3. total_exposure = Wrap(e - atInit)
  BY DEF RiskInv, TotalInStep
<1>4. total_exposure' = Wrap(Wrap(total_exposure - old) + new)
  BY DEF NewTotal, ExposureOf
<1> HIDE DEF old, new, e, f
<1>5. Wrap(total_exposure - old) = Wrap(e - atInit - old)
  <2>1. e - atInit \in Int /\ -old \in Int
    BY <1>1, <1>2
  <2>2. Wrap(Wrap(e - atInit) + (-old)) = Wrap((e - atInit) + (-old))
    BY <2>1, WrapSum
  <2>3. Wrap(e - atInit) + (-old) = total_exposure - old
        /\ (e - atInit) + (-old) = e - atInit - old
    BY <1>1, <1>2, <1>3
  <2> QED BY <2>2, <2>3
<1>6. total_exposure' = Wrap(e - atInit - old + new)
  <2>1. e - atInit - old \in Int
    BY <1>1, <1>2
  <2> QED BY <1>2, <1>4, <1>5, <2>1, WrapSum
<1>7. e - atInit - old + new = f - atInit
  BY <1>1, <1>2
<1>8. total_exposure' = Wrap(f - atInit)
  BY <1>6, <1>7
<1> QED BY <1>8 DEF TotalInStep, f

\* A step that changes one profile, and keeps its score fresh and the total in step,
\* keeps the invariant.
LEMMA ProfileStep ==
  ASSUME RiskInv, NEW u \in User, profile[u] # None,
         NEW x \in I128, NEW s \in 0 .. Scale,
         s = Score(x, profile[u].alert_threshold),
         profile' = [profile EXCEPT ![u].exposure = x, ![u].risk_score = s],
         total_exposure' = NewTotal(profile[u].exposure, x),
         UNCHANGED <<admin, inits, atInit>>
  PROVE  RiskInv'
<1> USE RiskAssumption, I128Assumption
<1>1. profile \in [User -> Profile \cup {None}] /\ profile[u] \in Profile
      /\ total_exposure \in Int
  BY DEF RiskInv, RiskTypeOK, I128
<1> DEFINE n == [profile[u] EXCEPT !.exposure = x, !.risk_score = s]
<1>2. n \in Profile /\ profile' = [profile EXCEPT ![u] = n]
      /\ n.exposure = x /\ n.risk_score = s
      /\ n.alert_threshold = profile[u].alert_threshold
  BY <1>1 DEF Profile
<1> HIDE DEF n
<1>3. profile' \in [User -> Profile \cup {None}] /\ profile'[u] = n
      /\ \A v \in User : v # u => profile'[v] = profile[v]
  <2>1. n \in Profile \cup {None} /\ profile' = [profile EXCEPT ![u] = n]
    BY <1>2
  <2> QED BY ONLY <1>1, <2>1, u \in User
<1>4. total_exposure' \in I128
  <2> DEFINE y == Wrap(total_exposure - profile[u].exposure)
  <2>1. profile[u].exposure \in Int /\ x \in Int
    BY <1>1 DEF Profile, I128
  <2>2. y \in Int
    BY <1>1, <2>1, WrapShift
  <2>3. total_exposure' = Wrap(y + x)
    BY DEF NewTotal
  <2> HIDE DEF y
  <2>4. y + x \in Int
    BY <2>1, <2>2
  <2> QED BY <2>3, <2>4, WrapShift DEF I128
<1>5. RiskTypeOK'
  BY <1>3, <1>4 DEF RiskInv, RiskTypeOK
<1>6. profile'[u] # None
  BY <1>2, <1>3
<1>7. TotalInStep'
  BY <1>2, <1>3, <1>5, <1>6, TotalMoves
<1>8. ScoresFresh'
  BY <1>2, <1>3 DEF RiskInv, ScoresFresh
<1> QED BY <1>5, <1>7, <1>8 DEF RiskInv

LEMMA RiskInvStep == RiskInv /\ [RiskNext]_riskVars => RiskInv'
<1> SUFFICES ASSUME RiskInv, [RiskNext]_riskVars PROVE RiskInv'
  OBVIOUS
<1> USE RiskAssumption, I128Assumption
<1>t. RiskTypeOK /\ profile \in [User -> Profile \cup {None}]
  BY DEF RiskInv, RiskTypeOK
<1>1. ASSUME NEW a \in User, init(a)
      PROVE  RiskInv'
  <2>1. Exposure' = Exposure
    BY <1>1 DEF init, Exposure
  <2>2. Exposure \in Int
    <3>1. \A v \in User : ExposureOf(v) \in Int
      BY <1>t DEF ExposureOf, Profile, I128
    <3> DEFINE f == [v \in User |-> ExposureOf(v)]
    <3>2. f \in [User -> Int] /\ Exposure = SumFunction(f)
      BY <3>1 DEF Exposure, ExposureOf
    <3> HIDE DEF f
    <3> QED BY <3>2, SumType
  <2> HIDE DEF Exposure
  <2>3. RiskTypeOK' /\ ScoresFresh'
    BY <1>1, <2>2 DEF init, RiskInv, RiskTypeOK, I128, ScoresFresh
  <2>4. Wrap(0) = 0
    BY WrapId
  <2>5. (Exposure - atInit)' = 0 /\ total_exposure' = 0
    BY <1>1, <2>1, <2>2 DEF init
  <2>6. TotalInStep'
    BY <2>4, <2>5 DEF TotalInStep
  <2> QED BY <2>3, <2>6 DEF RiskInv
<1>2. ASSUME NEW u \in User, NEW t \in Thresholds, register_participant(u, t)
      PROVE  RiskInv'
  <2> DEFINE n == [exposure |-> 0, risk_score |-> 0, alert_threshold |-> t]
  <2>1. /\ t \in 1 .. I128Max /\ profile[u] = None
        /\ profile' = [profile EXCEPT ![u] = n]
        /\ UNCHANGED <<admin, total_exposure, inits, atInit>>
    BY <1>2 DEF register_participant, I128
  <2>2. n \in Profile
    BY <2>1 DEF Profile, I128
  <2>3. RiskTypeOK'
    BY <1>t, <2>1, <2>2 DEF RiskTypeOK
  <2>4. ExposureOf(u) = 0 /\ ExposureOf(u)' = 0
    BY <1>t, <2>1, <2>2 DEF ExposureOf
  <2>5. Exposure' = Exposure
    BY <1>t, <2>1, <2>3, <2>4, ExposureMoves
  <2>6. TotalInStep'
    BY <2>1, <2>5 DEF RiskInv, TotalInStep
  <2>7. Score(0, t) = 0
    <3>1. 0 * Scale = 0 /\ Wrap(0) = 0
      BY WrapId
    <3>2. DivI128(0, t) = 0
      <4>1. DivI128(0, t) = 0 \div t
        BY <2>1, DivType
      <4> QED BY <2>1, <4>1
    <3> QED BY <3>1, <3>2 DEF Score
  <2>8. ScoresFresh'
    <3>1. profile'[u] = n /\ \A v \in User : v # u => profile'[v] = profile[v]
      BY <1>t, <2>1
    <3> HIDE DEF Score
    <3> QED BY <2>7, <3>1 DEF RiskInv, ScoresFresh
  <2> QED BY <2>3, <2>6, <2>8 DEF RiskInv
<1>3. ASSUME NEW u \in User, NEW d \in Deltas, update_exposure(u, d)
      PROVE  RiskInv'
  <2> DEFINE x == Wrap(profile[u].exposure + d)
             s == Score(x, profile[u].alert_threshold)
  <2>1. /\ profile[u] # None
        /\ profile' = [profile EXCEPT ![u].exposure = x, ![u].risk_score = s]
        /\ total_exposure' = NewTotal(profile[u].exposure, x)
        /\ UNCHANGED <<admin, inits, atInit>>
    BY <1>3 DEF update_exposure
  <2>2. profile[u] \in Profile
    BY <1>t, <2>1
  <2>3. profile[u].exposure + d \in Int /\ profile[u].alert_threshold \in 1 .. I128Max
    BY <2>2 DEF Profile, I128
  <2>4. x \in I128 /\ x \in Int
    BY <2>3, WrapShift DEF I128
  <2> HIDE DEF x
  <2>5. s \in 0 .. Scale
    BY <2>3, <2>4, ScoreType
  <2> QED BY <2>1, <2>4, <2>5, ProfileStep
<1>4. ASSUME NEW a \in User, NEW u \in User, reset_exposure(a, u)
      PROVE  RiskInv'
  <2>1. /\ profile[u] # None
        /\ profile' = [profile EXCEPT ![u].exposure = 0, ![u].risk_score = 0]
        /\ total_exposure' = NewTotal(profile[u].exposure, 0)
        /\ UNCHANGED <<admin, inits, atInit>>
    BY <1>4 DEF reset_exposure
  <2>2. profile[u] \in Profile
    BY <1>t, <2>1
  <2> DEFINE t == profile[u].alert_threshold
  <2>3. t \in 1 .. I128Max
    BY <2>2 DEF Profile
  <2> HIDE DEF t
  <2>4. Score(0, t) = 0
    <3>1. 0 * Scale = 0 /\ Wrap(0) = 0
      BY WrapId
    <3>2. DivI128(0, t) = 0
      <4>1. DivI128(0, t) = 0 \div t
        BY <2>3, DivType
      <4> QED BY <2>3, <4>1
    <3> QED BY <3>1, <3>2 DEF Score
  <2>5. 0 \in I128 /\ 0 \in 0 .. Scale
    BY DEF I128
  <2> HIDE DEF Score
  <2> QED BY <2>1, <2>4, <2>5, ProfileStep DEF t
<1>5. CASE UNCHANGED riskVars
  BY <1>5 DEF riskVars, RiskInv, RiskTypeOK, TotalInStep, Exposure, ScoresFresh
<1> QED BY <1>1, <1>2, <1>3, <1>4, <1>5 DEF RiskNext

LEMMA RiskInitially == RiskInit => RiskInv
<1> SUFFICES ASSUME RiskInit PROVE RiskInv
  OBVIOUS
<1> USE RiskAssumption, I128Assumption
<1>1. RiskTypeOK /\ ScoresFresh
  BY DEF RiskInit, RiskTypeOK, ScoresFresh, I128
<1> DEFINE f == [u \in User |-> ExposureOf(u)]
<1>2. f \in [User -> Int] /\ \A u \in User : f[u] = 0
  BY DEF ExposureOf, RiskInit
<1>3. Exposure = SumFunction(f)
  BY DEF Exposure, ExposureOf
<1> HIDE DEF f
<1>4. Exposure = 0
  BY <1>2, <1>3, SumZero
<1>5. Wrap(0) = 0
  BY WrapId
<1>6. TotalInStep
  BY <1>4, <1>5 DEF TotalInStep, RiskInit
<1> QED BY <1>1, <1>6 DEF RiskInv

LEMMA ScoresFollow == RiskInv => ScoreFollowsExposure
<1> SUFFICES ASSUME RiskInv, NEW u \in User, profile[u] # None,
                    Scorable(profile[u].exposure)
             PROVE  /\ profile[u].risk_score = Scale
                         <=> profile[u].exposure >= profile[u].alert_threshold
                    /\ ~enforce_limit(u) => profile[u].risk_score = Scale
  BY DEF ScoreFollowsExposure
<1> DEFINE x == profile[u].exposure
           t == profile[u].alert_threshold
<1>1. profile[u] \in Profile
  BY DEF RiskInv, RiskTypeOK
<1>2. x \in Int /\ t \in 1 .. I128Max
  BY <1>1, I128Assumption DEF Profile, I128
<1>3. profile[u].risk_score = Score(x, t)
  BY DEF RiskInv, ScoresFresh
<1>4. Score(x, t) = Scale <=> x >= t
  BY <1>2, ScoreFull
<1>5. ~enforce_limit(u) => x > t
  BY <1>2 DEF enforce_limit
<1> QED BY <1>2, <1>3, <1>4, <1>5

-----------------------------------------------------------------------------
(* The contracts beside one another *)

\* The invariant of the three contracts.
ContractsInv == LimitInv /\ DerivInv /\ RiskInv

\* A step of the composition is a step of each contract, or leaves it alone.
LEMMA ContractSteps ==
  ASSUME [Next]_vars
  PROVE  [LimitNext]_limitVars /\ [DerivNext]_derivVars /\ [RiskNext]_riskVars
<1>1. CASE UNCHANGED vars
  BY <1>1, Zenon DEF vars
<1>2. CASE Next
  BY <1>2, Zenon DEF Next
<1> QED BY <1>1, <1>2

THEOREM ContractsInvariant == Spec => []ContractsInv
<1>1. Init => ContractsInv
  <2>1. Init => LimitInit /\ DerivInit /\ RiskInit
    BY Zenon DEF Init
  <2> QED BY <2>1, LimitInitially, DerivInitially, RiskInitially DEF ContractsInv
<1>2. ContractsInv /\ [Next]_vars => ContractsInv'
  BY ContractSteps, LimitInvStep, DerivInvStep, RiskInvStep DEF ContractsInv
<1> QED BY <1>1, <1>2, PTL DEF Spec

\* Fills and refunds of limit orders account for the whole pool; match_orders,
\* settle_order and cancel_order close a derivative order for one another, and a
\* position stays within its order; the running total of the risk contract is in step
\* with the profiles, and no score is stale.
THEOREM ContractsStayInStep == Spec => []ContractsInStep
<1>1. ContractsInv => ContractsInStep
  BY ScoresFollow DEF ContractsInv, LimitInv, DerivInv, RiskInv, ContractsInStep
<1> QED BY <1>1, ContractsInvariant, PTL

\* A limit order is never filled for less token_out than it takes token_in, provided
\* callers name no negative price and no order's product overflows.
THEOREM LimitsAreKept ==
  ASSUME FairMatching PROVE Spec => FilledAtLimitOrBetter
<1>1. ContractsInv /\ [Next]_vars
        => [\A o \in DOMAIN orders : FillPaysLimit(o)]_limitVars
  BY ContractSteps, FillsAtLimit DEF ContractsInv
<1> QED BY <1>1, ContractsInvariant, PTL DEF Spec, FilledAtLimitOrBetter

-----------------------------------------------------------------------------
(* The limiter's window *)

InWindow(x, t) == x <= t /\ x > t - Window
Bit(b) == IF b THEN 1 ELSE 0

\* Appending a time adds to the window that ends with t exactly if it is in it.
LEMMA WithinAppend ==
  ASSUME NEW s \in Seq(Times), NEW x \in Times, NEW t \in Times
  PROVE  /\ IsFiniteSet(Within(s, t)) /\ Cardinality(Within(s, t)) \in 0 .. Len(s)
         /\ Cardinality(Within(Append(s, x), t))
              = Cardinality(Within(s, t)) + Bit(InWindow(x, t))
<1>1. Len(s) \in Nat /\ DOMAIN s = 1 .. Len(s)
  OBVIOUS
<1>2. Within(s, t) \in SUBSET (1 .. Len(s))
  BY <1>1 DEF Within
<1>3. IsFiniteSet(1 .. Len(s)) /\ Cardinality(1 .. Len(s)) = Len(s)
  <2>0. 1 \in Int /\ Len(s) \in Int
    BY <1>1
  <2>1. /\ IsFiniteSet(1 .. Len(s))
        /\ Cardinality(1 .. Len(s)) = IF 1 > Len(s) THEN 0 ELSE Len(s) - 1 + 1
    BY <2>0, FS_Interval, Zenon
  <2>2. (IF 1 > Len(s) THEN 0 ELSE Len(s) - 1 + 1) = Len(s)
    BY <1>1
  <2> QED BY <2>1, <2>2
<1>4. /\ IsFiniteSet(Within(s, t)) /\ Cardinality(Within(s, t)) \in Nat
      /\ Cardinality(Within(s, t)) <= Len(s)
  BY <1>2, <1>3, FS_Subset, FS_CardinalityType
<1>5. /\ DOMAIN Append(s, x) = 1 .. Len(s) + 1
      /\ \A i \in 1 .. Len(s) : Append(s, x)[i] = s[i]
      /\ Append(s, x)[Len(s) + 1] = x
  OBVIOUS
<1>6. Len(s) + 1 \notin Within(s, t)
  BY <1>1, <1>2
<1>7. CASE InWindow(x, t)
  <2>1. Within(Append(s, x), t) = Within(s, t) \cup {Len(s) + 1}
    BY <1>1, <1>5, <1>7 DEF Within, InWindow
  <2>2. Cardinality(Within(s, t) \cup {Len(s) + 1}) = Cardinality(Within(s, t)) + 1
    BY <1>4, <1>6, FS_AddElement
  <2> QED BY <1>4, <1>7, <2>1, <2>2 DEF Bit
<1>8. CASE ~InWindow(x, t)
  <2>1. Within(Append(s, x), t) = Within(s, t)
    BY <1>1, <1>5, <1>8 DEF Within, InWindow
  <2> QED BY <1>4, <1>8, <2>1 DEF Bit
<1> QED BY <1>7, <1>8

\* One step of Retained, and the function it builds.
KeepStep(s, moment, g, i) ==
  IF i = 0 THEN <<>>
  ELSE IF s[i] > moment - Window THEN Append(g[i - 1], s[i])
  ELSE g[i - 1]
Keeps(s, moment) == CHOOSE g : g = [i \in 0 .. Len(s) |-> KeepStep(s, moment, g, i)]
KeepsUpTo(s, moment, n) ==
  \E g \in [0 .. n -> Seq(Times)] : \A i \in 0 .. n : g[i] = KeepStep(s, moment, g, i)

LEMMA RetainedUnfold ==
  ASSUME NEW s, NEW moment
  PROVE  Retained(s, moment) = Keeps(s, moment)[Len(s)]
BY DEF Retained, Keeps, KeepStep

LEMMA KeepsExist ==
  ASSUME NEW s \in Seq(Times), NEW moment \in Times, NEW n \in 0 .. Len(s)
  PROVE  KeepsUpTo(s, moment, n)
<1>0. Len(s) \in Nat /\ moment \in Int /\ Window \in Int /\ \A i \in 1 .. Len(s) : s[i] \in Times
  BY MonitorAssumption DEF Times
<1> DEFINE T == {m \in 0 .. Len(s) : ~KeepsUpTo(s, moment, m)}
<1> SUFFICES ASSUME T # {} PROVE FALSE
  OBVIOUS
<1>1. PICK m \in T : \A k \in T : m <= k
  <2>1. T \in SUBSET Nat
    BY <1>0
  <2> QED BY <2>1, LeastNat
<1>2. CASE m = 0
  <2> DEFINE g == [i \in 0 .. 0 |-> <<>>]
  <2>1. g \in [0 .. 0 -> Seq(Times)] /\ \A i \in 0 .. 0 : g[i] = KeepStep(s, moment, g, i)
    BY DEF KeepStep
  <2>2. KeepsUpTo(s, moment, 0)
    BY <2>1 DEF KeepsUpTo
  <2> QED BY <1>2, <2>2
<1>3. CASE m # 0
  <2>1. m \in 1 .. Len(s) /\ m - 1 \in 0 .. Len(s) /\ m - 1 < m
    BY <1>0, <1>3
  <2>2. KeepsUpTo(s, moment, m - 1)
    BY <1>1, <2>1
  <2>3. PICK g \in [0 .. m - 1 -> Seq(Times)] :
          \A i \in 0 .. m - 1 : g[i] = KeepStep(s, moment, g, i)
    BY <2>2 DEF KeepsUpTo
  <2> DEFINE h == [i \in 0 .. m |-> KeepStep(s, moment, g, i)]
  <2>4. ASSUME NEW i \in 0 .. m, i # 0
        PROVE  i - 1 \in 0 .. m - 1 /\ s[i] \in Times
    BY <1>0, <2>1, <2>4
  <2>5. ASSUME NEW i \in 0 .. m
        PROVE  KeepStep(s, moment, g, i) \in Seq(Times)
    <3>1. CASE i = 0
      BY <3>1 DEF KeepStep
    <3>2. CASE i # 0
      <4>1. g[i - 1] \in Seq(Times) /\ s[i] \in Times
        BY <2>3, <2>4, <3>2
      <4> QED BY <4>1, <3>2 DEF KeepStep
    <3> QED BY <3>1, <3>2
  <2>6. \A i \in 0 .. m - 1 : h[i] = g[i]
    BY <2>1, <2>3
  <2>7. ASSUME NEW i \in 0 .. m
        PROVE  h[i] = KeepStep(s, moment, h, i)
    <3>1. CASE i = 0
      BY <3>1 DEF KeepStep
    <3>2. CASE i # 0
      <4>1. h[i - 1] = g[i - 1]
        BY <2>4, <2>6, <3>2
      <4> QED BY <4>1, <3>2 DEF KeepStep
    <3> QED BY <3>1, <3>2
  <2>8. KeepsUpTo(s, moment, m)
    BY <2>5, <2>7 DEF KeepsUpTo
  <2> QED BY <1>1, <2>8
<1> QED BY <1>2, <1>3

\* Retained drops no time of a window that ends at `moment` or later.
LEMMA RetainedFacts ==
  ASSUME NEW s \in Seq(Times), NEW moment \in Times
  PROVE  /\ Retained(s, moment) \in Seq(Times)
         /\ Len(Retained(s, moment)) <= Len(s)
         /\ \A t \in Times : moment <= t =>
              Cardinality(Within(Retained(s, moment), t)) = Cardinality(Within(s, t))
<1>0. /\ Len(s) \in Nat /\ moment \in Int /\ Window \in Int
      /\ \A i \in 1 .. Len(s) : s[i] \in Times
  BY MonitorAssumption DEF Times
<1> DEFINE K == Keeps(s, moment)
           H(i) == SubSeq(s, 1, i)
           Right(i) == /\ K[i] \in Seq(Times) /\ Len(K[i]) <= i
                       /\ \A t \in Times : moment <= t =>
                            Cardinality(Within(K[i], t)) = Cardinality(Within(H(i), t))
           T == {i \in 0 .. Len(s) : ~Right(i)}
<1>1. \A i \in 0 .. Len(s) : K[i] = KeepStep(s, moment, K, i)
  <2>1. KeepsUpTo(s, moment, Len(s))
    BY <1>0, KeepsExist
  <2>2. PICK g \in [0 .. Len(s) -> Seq(Times)] :
          \A i \in 0 .. Len(s) : g[i] = KeepStep(s, moment, g, i)
    BY <2>1 DEF KeepsUpTo
  <2>3. g = [i \in 0 .. Len(s) |-> KeepStep(s, moment, g, i)]
    BY <2>2
  <2>4. K = [i \in 0 .. Len(s) |-> KeepStep(s, moment, K, i)]
    BY <2>3 DEF Keeps
  <2> HIDE DEF K
  <2> QED BY <2>4
<1>2. /\ \A i \in 0 .. Len(s) : H(i) \in Seq(Times)
      /\ \A i \in 1 .. Len(s) : H(i) = Append(H(i - 1), s[i])
      /\ H(0) = <<>> /\ H(Len(s)) = s
  <2>1. \A i \in 0 .. Len(s) : /\ H(i) \in Seq(Times) /\ Len(H(i)) = i
                               /\ \A j \in 1 .. i : H(i)[j] = s[j]
    BY <1>0
  <2>2. ASSUME NEW i \in 1 .. Len(s)
        PROVE  H(i) = Append(H(i - 1), s[i])
    <3>1. i - 1 \in 0 .. Len(s) /\ i \in 0 .. Len(s)
      BY <1>0
    <3>2. /\ H(i) \in Seq(Times) /\ Len(H(i)) = i /\ \A j \in 1 .. i : H(i)[j] = s[j]
          /\ H(i - 1) \in Seq(Times) /\ Len(H(i - 1)) = i - 1
          /\ \A j \in 1 .. i - 1 : H(i - 1)[j] = s[j]
      BY <2>1, <3>1
    <3> HIDE DEF H
    <3> QED BY <1>0, <3>2
  <2>3. H(0) = <<>> /\ H(Len(s)) = s
    BY <1>0
  <2> QED BY <2>1, <2>2, <2>3
<1> HIDE DEF K, H
<1>3. ASSUME T # {} PROVE FALSE
  <2>1. PICK i \in T : \A k \in T : i <= k
    <3>1. T \in SUBSET Nat
      BY <1>0
    <3> QED BY <1>3, <3>1, LeastNat
  <2>2. CASE i = 0
    <3>1. K[0] = <<>>
      BY <1>0, <1>1 DEF KeepStep
    <3>2. Right(0)
      BY <1>2, <3>1
    <3> QED BY <2>1, <2>2, <3>2
  <2>3. CASE i # 0
    <3>1. i \in 1 .. Len(s) /\ i - 1 \in 0 .. Len(s) /\ i - 1 < i /\ i \in 0 .. Len(s)
      BY <1>0, <2>3
    <3>2. Right(i - 1)
      BY <2>1, <3>1
    <3>3. s[i] \in Times /\ H(i - 1) \in Seq(Times) /\ H(i) = Append(H(i - 1), s[i])
      BY <1>0, <1>2, <3>1
    <3>4. K[i] = IF s[i] > moment - Window THEN Append(K[i - 1], s[i]) ELSE K[i - 1]
      BY <1>1, <3>1 DEF KeepStep
    <3>5. K[i] \in Seq(Times) /\ Len(K[i]) <= i
      BY <3>1, <3>2, <3>3, <3>4
    <3>6. ASSUME NEW t \in Times, moment <= t
          PROVE  Cardinality(Within(K[i], t)) = Cardinality(Within(H(i), t))
      <4>1. Cardinality(Within(K[i - 1], t)) = Cardinality(Within(H(i - 1), t))
        BY <3>2, <3>6
      <4>2. Cardinality(Within(H(i), t))
              = Cardinality(Within(H(i - 1), t)) + Bit(InWindow(s[i], t))
        BY <3>3, WithinAppend
      <4>3. CASE s[i] > moment - Window
        <5>1. Cardinality(Within(Append(K[i - 1], s[i]), t))
                = Cardinality(Within(K[i - 1], t)) + Bit(InWindow(s[i], t))
          BY <3>2, <3>3, WithinAppend
        <5> QED BY <3>4, <4>1, <4>2, <4>3, <5>1
      <4>4. CASE ~(s[i] > moment - Window)
        <5>1. ~InWindow(s[i], t)
          BY <1>0, <3>3, <3>6, <4>4 DEF InWindow, Times
        <5>2. Cardinality(Within(H(i - 1), t)) \in 0 .. Len(H(i - 1))
          BY <3>3, WithinAppend
        <5> QED BY <3>4, <3>3, <4>1, <4>2, <4>4, <5>1, <5>2 DEF Bit
      <4> QED BY <4>3, <4>4
    <3>7. Right(i)
      BY <3>5, <3>6
    <3> QED BY <2>1, <3>7
  <2> QED BY <2>2, <2>3
<1>4. Right(Len(s))
  BY <1>0, <1>3
<1> QED BY <1>2, <1>4, RetainedUnfold DEF K

-----------------------------------------------------------------------------
(* The monitor's invariant, conjunct by conjunct *)

LEMMA MonitorInitially == MonitorInit => MonitorInv
<1> SUFFICES ASSUME MonitorInit PROVE MonitorInv
  OBVIOUS
<1>1. MonitorTypeOK
  <2>1. (CHOOSE s \in Sender : TRUE) \in Sender
    BY MonitorAssumption
  <2> DEFINE e == <<>>
  <2>2. e \in Seq(Times) /\ Len(e) <= MaxTx /\ 0 \in Times
    BY MonitorAssumption DEF Times
  <2>3. /\ events = e /\ windows = [s \in Sender |-> e] /\ admitted = [s \in Sender |-> e]
        /\ time = 0 /\ seen = [c \in Call |-> 0]
    BY DEF MonitorInit
  <2> HIDE DEF e
  <2>4. /\ events \in Seq(Times) /\ windows \in [Sender -> Seq(Times)]
        /\ admitted \in [Sender -> Seq(Times)] /\ \A s \in Sender : Len(windows[s]) <= MaxTx
        /\ time \in Times /\ seen \in [Call -> Times]
    BY <2>2, <2>3
  <2>8. open \in BOOLEAN /\ resetting \in BOOLEAN /\ listed \in [Call -> BOOLEAN]
    BY Zenon DEF MonitorInit
  <2>5. /\ blacklist \subseteq Sender /\ whitelist \subseteq Sender
        /\ scored \in [Sender -> 0 .. 2]
        /\ openings \in Nat /\ alerts \in Nat /\ approved \subseteq Call
    BY DEF MonitorInit
  <2>6. pc \in [Call -> Places]
    BY DEF MonitorInit, Places
  <2>7. sender \in [Call -> Sender]
    BY <2>1, Zenon DEF MonitorInit
  <2> QED BY <2>4, <2>5, <2>6, <2>7, <2>8, Zenon DEF MonitorTypeOK
<1>2. ListsHonoured /\ BlockedAllAlong
  BY DEF MonitorInit, ListsHonoured, BlockedAllAlong
<1>3. TrippedAtThreshold
  BY MonitorAssumption DEF MonitorInit, TrippedAtThreshold
<1>4. OneAlertPerTrip
  <2>1. {c \in Call : pc[c] = "alert"} = {}
    BY DEF MonitorInit
  <2>2. Cardinality({c \in Call : pc[c] = "alert"}) = 0
    BY <2>1, FS_EmptySet, Zenon
  <2>3. openings = 0 /\ alerts = 0
    BY DEF MonitorInit
  <2> QED BY <2>2, <2>3 DEF OneAlertPerTrip
<1>5. WindowsSound
  <2>1. \A c \in Call : seen[c] <= time
    BY DEF MonitorInit
  <2>2. ASSUME NEW s \in Sender, NEW t \in Times
        PROVE  StillCounted(s, t)
    <3>1. admitted[s] = windows[s] /\ windows[s] = <<>>
      BY DEF MonitorInit
    <3>2. Within(<<>>, t) = {}
      BY DEF Within
    <3>3. /\ Cardinality(Within(admitted[s], t)) = 0
          /\ Cardinality(Within(windows[s], t)) = 0
      BY <3>1, <3>2, FS_EmptySet, Zenon
    <3> QED BY <3>3 DEF StillCounted
  <2> QED BY <2>1, <2>2 DEF WindowsSound
<1> QED BY <1>1, <1>2, <1>3, <1>4, <1>5 DEF MonitorInv

LEMMA MonitorTypeStep == MonitorInv /\ [MonitorNext]_monitorVars => MonitorTypeOK'
<1> SUFFICES ASSUME MonitorTypeOK, [MonitorNext]_monitorVars PROVE MonitorTypeOK'
  BY DEF MonitorInv
<1>0. /\ MaxTx \in Nat /\ Window \in Nat /\ Threshold \in Nat /\ MaxTime \in Nat
      /\ \A x \in Times : x \in Int
  BY MonitorAssumption DEF Times
<1> USE DEF MonitorTypeOK, breaker, limiter, lists, counters
<1>1. CASE Clock
  BY <1>0, <1>1 DEF Clock, Times
<1>2. ASSUME NEW c \in Call, NEW s \in Sender, Begin(c, s) PROVE MonitorTypeOK'
  BY <1>2 DEF Begin, Goto, Places
<1>3. ASSUME NEW c \in Call, is_open(c) PROVE MonitorTypeOK'
  BY <1>3 DEF is_open, Goto, Places
<1>4. ASSUME NEW c \in Call, is_blacklisted(c) PROVE MonitorTypeOK'
  BY <1>4 DEF is_blacklisted, Goto, Places
<1>5. ASSUME NEW c \in Call, is_whitelisted(c) PROVE MonitorTypeOK'
  BY <1>5 DEF is_whitelisted, Goto, Places
<1>6. ASSUME NEW c \in Call, check(c) PROVE MonitorTypeOK'
  <2> DEFINE s == sender[c]
             kept == Retained(windows[s], seen[c])
  <2>1. s \in Sender /\ seen[c] \in Times /\ windows[s] \in Seq(Times)
    OBVIOUS
  <2>2. kept \in Seq(Times) /\ Len(kept) <= Len(windows[s])
    BY <2>1, RetainedFacts
  <2>3. Len(kept) <= MaxTx /\ (~Full(kept) => Len(kept) + 1 <= MaxTx)
    BY <1>0, <2>1, <2>2 DEF Full
  <2>4. /\ \/ windows' = [windows EXCEPT ![s] = kept] /\ admitted' = admitted
           \/ /\ ~Full(kept) /\ windows' = [windows EXCEPT ![s] = Append(kept, seen[c])]
              /\ admitted' = [admitted EXCEPT ![s] = Append(admitted[s], seen[c])]
        /\ pc' \in [Call -> Places] /\ approved' = {}
        /\ UNCHANGED <<time, breaker, lists, scored, counters, sender, seen, listed, alerts>>
    BY <1>6 DEF check, Goto, Places
  <2> HIDE DEF kept
  <2>5. /\ windows' \in [Sender -> Seq(Times)] /\ admitted' \in [Sender -> Seq(Times)]
        /\ \A r \in Sender : Len(windows'[r]) <= MaxTx
    <3> DEFINE more == Append(kept, seen[c])
               all == Append(admitted[s], seen[c])
    <3>1. more \in Seq(Times) /\ all \in Seq(Times) /\ Len(more) = Len(kept) + 1
      BY <2>1, <2>2
    <3>2. \/ windows' = [windows EXCEPT ![s] = kept] /\ admitted' = admitted
          \/ /\ ~Full(kept) /\ windows' = [windows EXCEPT ![s] = more]
             /\ admitted' = [admitted EXCEPT ![s] = all]
      BY <2>4
    <3>3. ~Full(kept) => Len(more) <= MaxTx
      BY <2>3, <3>1
    <3> HIDE DEF more, all, s
    <3>4. PICK q \in Seq(Times) : windows' = [windows EXCEPT ![s] = q] /\ Len(q) <= MaxTx
      BY <2>2, <2>3, <3>1, <3>2, <3>3
    <3>5. admitted' \in [Sender -> Seq(Times)]
      BY <3>1, <3>2
    <3>6. \A r \in Sender : Len(windows'[r]) <= MaxTx
      BY <3>4
    <3> QED BY <3>4, <3>5, <3>6
  <2> QED BY <2>4, <2>5
<1>7. ASSUME NEW c \in Call, score(c) PROVE MonitorTypeOK'
  <2>1. scored' \in [Sender -> 0 .. 2]
    <3>1. \A n \in 0 .. 2 : (IF n < 2 THEN n + 1 ELSE 2) \in 0 .. 2
      OBVIOUS
    <3> QED BY <1>7, <3>1 DEF score
  <2>2. pc' \in [Call -> Places] /\ approved' \subseteq Call
    BY <1>7 DEF score, Goto, Approve, Places
  <2>3. UNCHANGED <<time, breaker, limiter, lists, sender, seen, listed, alerts>>
    BY <1>7 DEF score
  <2> QED BY <2>1, <2>2, <2>3
<1>8. ASSUME NEW c \in Call, send_alert(c) PROVE MonitorTypeOK'
  BY <1>8 DEF send_alert, Goto, Places
<1>9. ASSUME NEW c \in Call, record_anomaly(c) PROVE MonitorTypeOK'
  <2>1. seen[c] \in Times /\ Retained(events, seen[c]) \in Seq(Times)
    BY RetainedFacts
  <2> DEFINE kept == Append(Retained(events, seen[c]), seen[c])
  <2>2. kept \in Seq(Times)
    BY <2>1
  <2> HIDE DEF kept
  <2>3. /\ events' = kept /\ open' = (open \/ Reached(kept))
        /\ openings' = openings + (IF Reached(kept) /\ ~open THEN 1 ELSE 0)
        /\ pc' \in [Call -> Places] /\ approved' = {}
        /\ UNCHANGED <<time, resetting, limiter, lists, scored, sender, seen, listed, alerts>>
    BY <1>9 DEF record_anomaly, Goto, Places, kept
  <2>4. (open \/ Reached(kept)) \in BOOLEAN
    BY DEF Reached
  <2> QED BY <2>2, <2>3, <2>4
<1>10. ASSUME NEW c \in Call, SayTripped(c) PROVE MonitorTypeOK'
  BY <1>10 DEF SayTripped, Goto, Places
<1>11. CASE ResetState
  BY <1>11 DEF ResetState
<1>12. CASE ResetEvents
  <2>1. <<>> \in Seq(Times)
    OBVIOUS
  <2>2. events' \in Seq(Times)
    BY <1>12, <2>1 DEF ResetEvents
  <2> QED BY <1>12, <2>2 DEF ResetEvents
<1>13. ASSUME NEW s \in Sender, add_to_blacklist(s) PROVE MonitorTypeOK'
  BY <1>13 DEF add_to_blacklist, Edit
<1>14. ASSUME NEW s \in Sender, remove_from_blacklist(s) PROVE MonitorTypeOK'
  BY <1>14 DEF remove_from_blacklist, Edit
<1>15. ASSUME NEW s \in Sender, add_to_whitelist(s) PROVE MonitorTypeOK'
  BY <1>15 DEF add_to_whitelist, Edit
<1>16. CASE UNCHANGED monitorVars
  BY <1>16 DEF monitorVars, calls
<1> QED
  BY <1>1, <1>2, <1>3, <1>4, <1>5, <1>6, <1>7, <1>8, <1>9, <1>10, <1>11, <1>12, <1>13,
     <1>14, <1>15, <1>16 DEF MonitorNext, CallStep, Operator

\* The steps that leave the breaker, its lists and its alerts alone are told apart
\* from those that do not.
LEMMA ListsStep ==
  MonitorInv /\ [MonitorNext]_monitorVars => ListsHonoured' /\ BlockedAllAlong'
<1> SUFFICES ASSUME MonitorTypeOK, ListsHonoured, BlockedAllAlong, [MonitorNext]_monitorVars
             PROVE  ListsHonoured' /\ BlockedAllAlong'
  BY DEF MonitorInv
<1>0. /\ pc \in [Call -> Places] /\ sender \in [Call -> Sender] /\ listed \in [Call -> BOOLEAN]
      /\ approved \subseteq Call
  BY DEF MonitorTypeOK
<1> USE DEF ListsHonoured, BlockedAllAlong, lists
<1>1. CASE Clock
  BY <1>0, <1>1 DEF Clock
<1>2. ASSUME NEW c \in Call, NEW s \in Sender, Begin(c, s) PROVE ListsHonoured' /\ BlockedAllAlong'
  BY <1>0, <1>2 DEF Begin, Goto
<1>3. ASSUME NEW c \in Call, is_open(c) PROVE ListsHonoured' /\ BlockedAllAlong'
  BY <1>0, <1>3 DEF is_open, Goto
<1>4. ASSUME NEW c \in Call, is_blacklisted(c) PROVE ListsHonoured' /\ BlockedAllAlong'
  BY <1>0, <1>4 DEF is_blacklisted, Goto, Blacklisted
<1>5. ASSUME NEW c \in Call, is_whitelisted(c) PROVE ListsHonoured' /\ BlockedAllAlong'
  BY <1>0, <1>5 DEF is_whitelisted, Goto
<1>6. ASSUME NEW c \in Call, check(c) PROVE ListsHonoured' /\ BlockedAllAlong'
  BY <1>0, <1>6 DEF check, Goto
<1>7. ASSUME NEW c \in Call, score(c) PROVE ListsHonoured' /\ BlockedAllAlong'
  BY <1>0, <1>7 DEF score, Goto, Approve
<1>8. ASSUME NEW c \in Call, send_alert(c) PROVE ListsHonoured' /\ BlockedAllAlong'
  BY <1>0, <1>8 DEF send_alert, Goto
<1>9. ASSUME NEW c \in Call, record_anomaly(c) PROVE ListsHonoured' /\ BlockedAllAlong'
  BY <1>0, <1>9 DEF record_anomaly, Goto
<1>10. ASSUME NEW c \in Call, SayTripped(c) PROVE ListsHonoured' /\ BlockedAllAlong'
  BY <1>0, <1>10 DEF SayTripped, Goto
<1>11. CASE ResetState
  BY <1>0, <1>11 DEF ResetState
<1>12. CASE ResetEvents
  BY <1>0, <1>12 DEF ResetEvents
<1>13. ASSUME NEW s \in Sender, add_to_blacklist(s) PROVE ListsHonoured' /\ BlockedAllAlong'
  BY <1>0, <1>13 DEF add_to_blacklist, Edit
<1>14. ASSUME NEW s \in Sender, remove_from_blacklist(s) PROVE ListsHonoured' /\ BlockedAllAlong'
  BY <1>0, <1>14 DEF remove_from_blacklist, Edit
<1>15. ASSUME NEW s \in Sender, add_to_whitelist(s) PROVE ListsHonoured' /\ BlockedAllAlong'
  BY <1>0, <1>15 DEF add_to_whitelist, Edit
<1>16. CASE UNCHANGED monitorVars
  BY <1>16 DEF monitorVars, calls
<1> QED
  BY <1>1, <1>2, <1>3, <1>4, <1>5, <1>6, <1>7, <1>8, <1>9, <1>10, <1>11, <1>12, <1>13,
     <1>14, <1>15, <1>16 DEF MonitorNext, CallStep, Operator

\* Which steps touch the breaker, and how the set of callers that owe an alert moves.
Owing == {c \in Call : pc[c] = "alert"}
BreakerMoves(c) ==
  \/ UNCHANGED <<breaker, alerts>> /\ Owing' = Owing
  \/ record_anomaly(c)
  \/ SayTripped(c)
  \/ UNCHANGED alerts /\ Owing' = Owing /\ (ResetState \/ ResetEvents)

LEMMA BreakerSteps ==
  MonitorInv /\ [MonitorNext]_monitorVars => \E c \in Call : BreakerMoves(c)
<1> SUFFICES ASSUME MonitorTypeOK, [MonitorNext]_monitorVars
             PROVE  \E c \in Call : BreakerMoves(c)
  BY DEF MonitorInv
<1>0. pc \in [Call -> Places] /\ Call # {}
  BY MonitorAssumption DEF MonitorTypeOK
<1> USE DEF BreakerMoves, Owing, breaker
<1>1. CASE Clock
  BY <1>0, <1>1 DEF Clock
<1>2. ASSUME NEW c \in Call, NEW s \in Sender, Begin(c, s) PROVE BreakerMoves(c)
  BY <1>0, <1>2 DEF Begin, Goto
<1>3. ASSUME NEW c \in Call, is_open(c) PROVE BreakerMoves(c)
  BY <1>0, <1>3 DEF is_open, Goto
<1>4. ASSUME NEW c \in Call, is_blacklisted(c) PROVE BreakerMoves(c)
  BY <1>0, <1>4 DEF is_blacklisted, Goto
<1>5. ASSUME NEW c \in Call, is_whitelisted(c) PROVE BreakerMoves(c)
  BY <1>0, <1>5 DEF is_whitelisted, Goto
<1>6. ASSUME NEW c \in Call, check(c) PROVE BreakerMoves(c)
  BY <1>0, <1>6 DEF check, Goto
<1>7. ASSUME NEW c \in Call, score(c) PROVE BreakerMoves(c)
  BY <1>0, <1>7 DEF score, Goto, Approve
<1>8. ASSUME NEW c \in Call, send_alert(c) PROVE BreakerMoves(c)
  BY <1>0, <1>8 DEF send_alert, Goto
<1>9. ASSUME NEW c \in Call, record_anomaly(c) \/ SayTripped(c) PROVE BreakerMoves(c)
  BY <1>9
<1>10. CASE ResetState \/ ResetEvents
  BY <1>0, <1>10 DEF ResetState, ResetEvents
<1>11. ASSUME NEW s \in Sender,
              add_to_blacklist(s) \/ remove_from_blacklist(s) \/ add_to_whitelist(s)
       PROVE  \E c \in Call : BreakerMoves(c)
  BY <1>0, <1>11 DEF add_to_blacklist, remove_from_blacklist, add_to_whitelist
<1>12. CASE UNCHANGED monitorVars
  BY <1>0, <1>12 DEF monitorVars, calls
<1> QED
  BY <1>1, <1>2, <1>3, <1>4, <1>5, <1>6, <1>7, <1>8, <1>9, <1>10, <1>11, <1>12
     DEF MonitorNext, CallStep, Operator

LEMMA BreakerStep ==
  MonitorInv /\ [MonitorNext]_monitorVars => TrippedAtThreshold' /\ OneAlertPerTrip'
<1> SUFFICES ASSUME MonitorInv, [MonitorNext]_monitorVars
             PROVE  TrippedAtThreshold' /\ OneAlertPerTrip'
  OBVIOUS
<1>1. PICK c \in Call : BreakerMoves(c)
  BY BreakerSteps
<1>2. /\ MonitorTypeOK /\ TrippedAtThreshold /\ OneAlertPerTrip
      /\ openings \in Nat /\ alerts \in Nat /\ pc \in [Call -> Places]
  BY DEF MonitorInv, MonitorTypeOK
<1>3. IsFiniteSet(Owing) /\ Cardinality(Owing) \in Nat /\ Threshold \in Nat \ {0}
  BY MonitorAssumption, FS_Subset, FS_CardinalityType DEF Owing
<1>4. openings = alerts + Cardinality(Owing)
  BY <1>2 DEF OneAlertPerTrip, Owing
<1>5. OneAlertPerTrip' <=> openings' = alerts' + Cardinality(Owing')
  BY DEF OneAlertPerTrip, Owing
<1>6. CASE UNCHANGED <<breaker, alerts>> /\ Owing' = Owing
  BY <1>2, <1>4, <1>5, <1>6 DEF breaker, TrippedAtThreshold
<1>7. CASE record_anomaly(c)
  <2> DEFINE kept == Append(Retained(events, seen[c]), seen[c])
  <2>1. /\ pc[c] = "lock" /\ events' = kept /\ open' = (open \/ Reached(kept))
        /\ openings' = openings + (IF Reached(kept) /\ ~open THEN 1 ELSE 0)
        /\ pc' = [pc EXCEPT ![c] = IF JustTripped(kept) THEN "alert" ELSE "idle"]
        /\ alerts' = alerts
    BY <1>7 DEF record_anomaly, Goto
  <2> HIDE DEF kept
  <2>2. TrippedAtThreshold'
    BY <2>1 DEF TrippedAtThreshold, Reached
  <2>3. c \notin Owing
    BY <2>1 DEF Owing
  <2>4. CASE JustTripped(kept)
    <3>1. Owing' = Owing \cup {c}
      BY <1>2, <2>1, <2>4 DEF Owing
    <3>2. Cardinality(Owing') = Cardinality(Owing) + 1
      BY <1>3, <2>3, <3>1, FS_AddElement
    <3>3. openings' = openings + 1
      BY <2>1, <2>4 DEF JustTripped
    <3> QED BY <1>2, <1>3, <1>4, <1>5, <2>1, <2>2, <3>2, <3>3
  <2>5. CASE ~JustTripped(kept)
    <3>1. Owing' = Owing
      BY <1>2, <2>1, <2>5 DEF Owing
    <3>2. openings' = openings
      BY <1>2, <2>1, <2>5 DEF JustTripped
    <3> QED BY <1>4, <1>5, <2>1, <2>2, <3>1, <3>2
  <2> QED BY <2>4, <2>5
<1>8. CASE SayTripped(c)
  <2>1. /\ pc[c] = "alert" /\ alerts' = alerts + 1 /\ pc' = [pc EXCEPT ![c] = "idle"]
        /\ UNCHANGED breaker
    BY <1>8 DEF SayTripped, Goto
  <2>2. c \in Owing /\ Owing' = Owing \ {c}
    BY <1>2, <2>1 DEF Owing
  <2>3. Cardinality(Owing') = Cardinality(Owing) - 1
    BY <1>3, <2>2, FS_RemoveElement
  <2>4. OneAlertPerTrip'
    BY <1>2, <1>3, <1>4, <1>5, <2>1, <2>3 DEF breaker
  <2>5. TrippedAtThreshold'
    BY <1>2, <2>1 DEF breaker, TrippedAtThreshold
  <2> QED BY <2>4, <2>5
<1>9. CASE UNCHANGED alerts /\ Owing' = Owing /\ (ResetState \/ ResetEvents)
  <2>1. UNCHANGED openings
    BY <1>9 DEF ResetState, ResetEvents
  <2>2. OneAlertPerTrip'
    BY <1>4, <1>5, <1>9, <2>1
  <2>3. TrippedAtThreshold'
    <3>1. CASE ResetState
      BY <3>1 DEF ResetState, TrippedAtThreshold
    <3>2. CASE ResetEvents
      <4>1. events' = <<>>
        BY <3>2 DEF ResetEvents
      <4>2. Len(events') = 0
        BY <4>1
      <4> QED BY <1>3, <4>2 DEF TrippedAtThreshold
    <3> QED BY <1>9, <3>1, <3>2
  <2> QED BY <2>2, <2>3
<1> QED BY <1>1, <1>6, <1>7, <1>8, <1>9 DEF BreakerMoves

\* Every step but check leaves the windows alone, and nobody becomes late for a
\* window that is over.
Punctual == \A s \in Sender, t \in Times : t < time => Late(s, t)' \subseteq Late(s, t)
WindowMoves ==
  /\ \A c \in Call : seen'[c] <= time'
  /\ time <= time'
  /\ (UNCHANGED limiter /\ Punctual) \/ \E c \in Call : check(c) /\ UNCHANGED <<time, seen, sender>>

LEMMA WindowSteps ==
  MonitorInv /\ [MonitorNext]_monitorVars => WindowMoves
<1> SUFFICES ASSUME MonitorTypeOK, WindowsSound, [MonitorNext]_monitorVars PROVE WindowMoves
  BY DEF MonitorInv
<1>0. /\ pc \in [Call -> Places] /\ sender \in [Call -> Sender] /\ seen \in [Call -> Times]
      /\ time \in Times /\ (\A c \in Call : seen[c] <= time) /\ \A x \in Times : x \in Int
  BY MonitorAssumption DEF MonitorTypeOK, WindowsSound, Times
<1> USE DEF WindowMoves, Punctual, Late, limiter
<1>1. CASE Clock
  BY <1>0, <1>1 DEF Clock
<1>2. ASSUME NEW c \in Call, NEW s \in Sender, Begin(c, s) PROVE WindowMoves
  BY <1>0, <1>2 DEF Begin, Goto
<1>3. ASSUME NEW c \in Call, is_open(c) PROVE WindowMoves
  BY <1>0, <1>3 DEF is_open, Goto
<1>4. ASSUME NEW c \in Call, is_blacklisted(c) PROVE WindowMoves
  BY <1>0, <1>4 DEF is_blacklisted, Goto
<1>5. ASSUME NEW c \in Call, is_whitelisted(c) PROVE WindowMoves
  BY <1>0, <1>5 DEF is_whitelisted, Goto
<1>6. ASSUME NEW c \in Call, check(c) PROVE WindowMoves
  <2>1. UNCHANGED <<time, seen, sender>>
    BY <1>6 DEF check
  <2>2. seen' = seen /\ time' = time /\ time <= time'
    BY <1>0, <2>1
  <2>3. \A d \in Call : seen'[d] <= time'
    BY ONLY <1>0, <2>2, Zenon
  <2> QED BY ONLY <1>6, <2>1, <2>2, <2>3, Zenon DEF WindowMoves
<1>7. ASSUME NEW c \in Call, score(c) PROVE WindowMoves
  BY <1>0, <1>7 DEF score, Goto, Approve
<1>8. ASSUME NEW c \in Call, send_alert(c) PROVE WindowMoves
  BY <1>0, <1>8 DEF send_alert, Goto
<1>9. ASSUME NEW c \in Call, record_anomaly(c) PROVE WindowMoves
  BY <1>0, <1>9 DEF record_anomaly, Goto
<1>10. ASSUME NEW c \in Call, SayTripped(c) PROVE WindowMoves
  BY <1>0, <1>10 DEF SayTripped, Goto
<1>11. CASE ResetState \/ ResetEvents
  BY <1>0, <1>11 DEF ResetState, ResetEvents
<1>12. ASSUME NEW s \in Sender,
              add_to_blacklist(s) \/ remove_from_blacklist(s) \/ add_to_whitelist(s)
       PROVE  WindowMoves
  BY <1>0, <1>12 DEF add_to_blacklist, remove_from_blacklist, add_to_whitelist
<1>13. CASE UNCHANGED monitorVars
  BY <1>0, <1>13 DEF monitorVars, calls
<1> QED
  BY <1>1, <1>2, <1>3, <1>4, <1>5, <1>6, <1>7, <1>8, <1>9, <1>10, <1>11, <1>12, <1>13
     DEF MonitorNext, CallStep, Operator

\* The limiter with the times a and w of a sender on record: what WindowsSound says of
\* the sender and the window that ends with t.
Counts(a, w, late, moment, t) ==
  \/ Cardinality(Within(a, t)) <= Cardinality(Within(w, t))
  \/ /\ moment > t
     /\ Cardinality(Within(a, t)) + Cardinality(late) <= MaxTx + Cardinality(Call) - 1

LEMMA CheckCounts ==
  ASSUME NEW a \in Seq(Times), NEW w \in Seq(Times), Len(w) <= MaxTx,
         NEW late \in SUBSET Call, NEW c \in Call, NEW u \in Times, NEW moment \in Times,
         u <= moment, NEW t \in Times, c \in late <=> u <= t,
         Counts(a, w, late, moment, t)
  PROVE  /\ Counts(a, Retained(w, u), late \ {c}, moment, t)
         /\ Counts(Append(a, u), Append(Retained(w, u), u), late \ {c}, moment, t)
<1> DEFINE kept == Retained(w, u)
           more == Append(kept, u)
           all == Append(a, u)
           A == Cardinality(Within(a, t))
           W == Cardinality(Within(w, t))
           K == Cardinality(Within(kept, t))
           N == Cardinality(Call)
           L == Cardinality(late)
           R == Cardinality(late \ {c})
           b == Bit(InWindow(u, t))
<1>1. kept \in Seq(Times) /\ (u <= t => K = W)
  BY RetainedFacts
<1>2. /\ A \in Nat /\ W \in Nat /\ W <= Len(w)
      /\ K \in Nat /\ Cardinality(Within(all, t)) = A + b
      /\ Cardinality(Within(more, t)) = K + b
  <2>1. Len(a) \in Nat /\ Len(w) \in Nat /\ Len(kept) \in Nat
    BY <1>1
  <2>2. A \in 0 .. Len(a) /\ Cardinality(Within(all, t)) = A + b
    BY WithinAppend
  <2>3. W \in 0 .. Len(w)
    BY WithinAppend
  <2>4. K \in 0 .. Len(kept) /\ Cardinality(Within(more, t)) = K + b
    BY <1>1, WithinAppend
  <2> HIDE DEF A, W, K, b
  <2> QED BY <2>1, <2>2, <2>3, <2>4
<1>3. /\ N \in Nat /\ L \in Nat /\ L <= N /\ R \in Nat
      /\ R = (IF c \in late THEN L - 1 ELSE L) /\ (c \notin late => L <= N - 1)
  <2>1. IsFiniteSet(Call) /\ IsFiniteSet(late) /\ N \in Nat /\ L \in Nat /\ L <= N
    BY MonitorAssumption, FS_Subset, FS_CardinalityType
  <2>2. R = IF c \in late THEN L - 1 ELSE L
    BY <2>1, FS_RemoveElement, Zenon
  <2>3. R \in Nat
    BY <2>1, FS_RemoveElement, FS_CardinalityType, Zenon
  <2>4. ASSUME c \notin late PROVE L <= N - 1
    <3>1. Cardinality(Call \ {c}) = N - 1 /\ IsFiniteSet(Call \ {c})
      BY <2>1, FS_RemoveElement
    <3>2. late \in SUBSET (Call \ {c})
      BY <2>4
    <3>3. L <= Cardinality(Call \ {c})
      BY <3>1, <3>2, FS_Subset
    <3> QED BY <3>1, <3>3
  <2> QED BY <2>1, <2>2, <2>3, <2>4
<1>4. b \in {0, 1} /\ (b = 1 => u <= t) /\ MaxTx \in Nat /\ Len(w) \in Nat
      /\ u \in Int /\ moment \in Int /\ t \in Int
  BY MonitorAssumption DEF Bit, InWindow, Times
<1>5. A <= W \/ (moment > t /\ A + L <= MaxTx + N - 1)
  BY DEF Counts
<1>6. /\ Counts(a, kept, late \ {c}, moment, t) <=>
           (A <= K \/ (moment > t /\ A + R <= MaxTx + N - 1))
      /\ Counts(all, more, late \ {c}, moment, t) <=>
           (A + b <= K + b \/ (moment > t /\ A + b + R <= MaxTx + N - 1))
  BY <1>2 DEF Counts
<1> HIDE DEF kept, more, all, A, W, K, N, L, R, b
<1>9. Counts(a, kept, late \ {c}, moment, t) /\ Counts(all, more, late \ {c}, moment, t)
  <2>1. CASE u <= t
    <3>1. K = W /\ R = L - 1 /\ b <= 1
      BY <1>1, <1>3, <1>4, <2>1
    <3>2. CASE A <= W
      <4>1. A + b <= K + b
        BY <1>2, <1>4, <3>1, <3>2
      <4> QED BY <1>6, <3>1, <3>2, <4>1
    <3>3. CASE moment > t /\ A + L <= MaxTx + N - 1
      <4>1. A + R <= MaxTx + N - 1 /\ A + b + R <= MaxTx + N - 1
        BY <1>2, <1>3, <1>4, <3>1, <3>3
      <4> QED BY <1>6, <3>3, <4>1
    <3> QED BY <1>5, <3>2, <3>3
  <2>2. CASE u > t
    BY <1>2, <1>3, <1>4, <1>5, <1>6, <2>2
  <2> QED BY <1>4, <2>1, <2>2
<1> QED BY <1>9 DEF kept, more, all

LEMMA WindowsStep ==
  MonitorInv /\ [MonitorNext]_monitorVars => WindowsSound'
<1> SUFFICES ASSUME MonitorInv, [MonitorNext]_monitorVars PROVE WindowsSound'
  OBVIOUS
<1>1. WindowMoves
  BY WindowSteps
<1>2. /\ MonitorTypeOK /\ windows \in [Sender -> Seq(Times)] /\ admitted \in [Sender -> Seq(Times)]
      /\ (\A s \in Sender : Len(windows[s]) <= MaxTx)
      /\ pc \in [Call -> Places] /\ sender \in [Call -> Sender] /\ seen \in [Call -> Times]
      /\ time \in Times
      /\ \A s \in Sender, t \in Times : Counts(admitted[s], windows[s], Late(s, t), time, t)
      /\ \A c \in Call : seen[c] <= time
  BY DEF MonitorInv, MonitorTypeOK, WindowsSound, StillCounted, Counts
<1>3. time' \in Times
  BY MonitorTypeStep DEF MonitorTypeOK
<1> SUFFICES ASSUME NEW s \in Sender, NEW t \in Times
             PROVE  Counts(admitted'[s], windows'[s], Late(s, t)', time', t)
  BY <1>1 DEF WindowMoves, WindowsSound, StillCounted, Counts
<1>4. Counts(admitted[s], windows[s], Late(s, t), time, t)
  BY <1>2
<1>5. CASE UNCHANGED limiter /\ Punctual
  <2>1. admitted' = admitted /\ windows' = windows /\ time <= time'
    BY <1>1, <1>5 DEF limiter, WindowMoves
  <2>2. CASE Cardinality(Within(admitted[s], t)) <= Cardinality(Within(windows[s], t))
    BY <2>1, <2>2 DEF Counts
  <2>3. CASE /\ time > t
             /\ Cardinality(Within(admitted[s], t)) + Cardinality(Late(s, t))
                  <= MaxTx + Cardinality(Call) - 1
    <3>1. Late(s, t)' \in SUBSET Late(s, t)
      BY <1>2, <1>5, <2>3 DEF Punctual, Times
    <3>2. IsFiniteSet(Late(s, t))
      BY MonitorAssumption, FS_Subset DEF Late
    <3>3. /\ Cardinality(Late(s, t)') <= Cardinality(Late(s, t))
          /\ Cardinality(Late(s, t)') \in Nat /\ Cardinality(Late(s, t)) \in Nat
      BY <3>1, <3>2, FS_Subset, FS_CardinalityType
    <3>4. Cardinality(Call) \in Nat /\ MaxTx \in Nat
      BY MonitorAssumption, FS_CardinalityType
    <3>5. Cardinality(Within(admitted[s], t)) \in 0 .. Len(admitted[s]) /\ Len(admitted[s]) \in Nat
      BY <1>2, WithinAppend
    <3>6. time' > t
      BY <1>2, <1>3, <2>1, <2>3 DEF Times
    <3> QED BY <2>1, <2>3, <3>3, <3>4, <3>5, <3>6 DEF Counts
  <2> QED BY <1>4, <2>2, <2>3 DEF Counts
<1>6. ASSUME NEW c \in Call, check(c), UNCHANGED <<time, seen, sender>>
      PROVE  Counts(admitted'[s], windows'[s], Late(s, t)', time', t)
  <2>1. /\ pc[c] = "window" /\ \E place \in {"idle", "score"} : pc' = [pc EXCEPT ![c] = place]
        /\ time' = time /\ seen' = seen /\ sender' = sender
    BY <1>6 DEF check, Goto
  <2>2. CASE s # sender[c]
    <3>1. Late(s, t)' = Late(s, t)
      BY <1>2, <2>1, <2>2 DEF Late
    <3>2. admitted'[s] = admitted[s] /\ windows'[s] = windows[s]
      BY <1>2, <1>6, <2>2 DEF check
    <3> QED BY <1>4, <2>1, <3>1, <3>2
  <2>3. CASE s = sender[c]
    <3>1. Late(s, t)' = Late(s, t) \ {c}
      BY <1>2, <2>1, <2>3 DEF Late
    <3>2. c \in Late(s, t) <=> seen[c] <= t
      BY <2>1, <2>3 DEF Late
    <3>3. Late(s, t) \in SUBSET Call
      BY DEF Late
    <3>4. \/ windows'[s] = Retained(windows[s], seen[c]) /\ admitted'[s] = admitted[s]
          \/ /\ windows'[s] = Append(Retained(windows[s], seen[c]), seen[c])
             /\ admitted'[s] = Append(admitted[s], seen[c])
      BY <1>2, <1>6, <2>3 DEF check
    <3>5. /\ admitted[s] \in Seq(Times) /\ windows[s] \in Seq(Times) /\ Len(windows[s]) <= MaxTx
          /\ seen[c] \in Times /\ seen[c] <= time
      BY <1>2
    <3>6. /\ Counts(admitted[s], Retained(windows[s], seen[c]), Late(s, t) \ {c}, time, t)
          /\ Counts(Append(admitted[s], seen[c]), Append(Retained(windows[s], seen[c]), seen[c]),
                    Late(s, t) \ {c}, time, t)
      BY <1>2, <1>4, <3>2, <3>3, <3>5, CheckCounts
    <3> QED BY <2>1, <3>1, <3>4, <3>6
  <2> QED BY <2>2, <2>3
<1> QED BY <1>1, <1>5, <1>6 DEF WindowMoves

LEMMA MonitorInvStep == MonitorInv /\ [MonitorNext]_monitorVars => MonitorInv'
BY MonitorTypeStep, ListsStep, BreakerStep, WindowsStep DEF MonitorInv

\* What is admitted in a window never exceeds the limit by more than the late callers.
LEMMA MonitorInvHolds == MonitorInv => MonitorHolds
<1> SUFFICES ASSUME MonitorInv PROVE WindowHeld
  BY DEF MonitorInv, MonitorHolds
<1> SUFFICES ASSUME NEW s \in Sender, NEW t \in Times
             PROVE  Cardinality(Within(admitted[s], t)) <= MaxTx + Cardinality(Call) - 1
  BY DEF WindowHeld
<1>1. /\ admitted[s] \in Seq(Times) /\ windows[s] \in Seq(Times) /\ Len(windows[s]) <= MaxTx
      /\ Counts(admitted[s], windows[s], Late(s, t), time, t)
  BY DEF MonitorInv, MonitorTypeOK, WindowsSound, StillCounted, Counts
<1>2. /\ Cardinality(Within(admitted[s], t)) \in 0 .. Len(admitted[s])
      /\ Cardinality(Within(windows[s], t)) \in 0 .. Len(windows[s])
      /\ Len(windows[s]) \in Nat /\ Len(admitted[s]) \in Nat
  BY <1>1, WithinAppend
<1>3. Cardinality(Call) \in Nat /\ Cardinality(Call) # 0 /\ MaxTx \in Nat
  BY MonitorAssumption, FS_CardinalityType, FS_EmptySet
<1>4. Cardinality(Late(s, t)) \in Nat
  BY MonitorAssumption, FS_Subset, FS_CardinalityType DEF Late
<1> DEFINE A == Cardinality(Within(admitted[s], t))
           W == Cardinality(Within(windows[s], t))
           L == Cardinality(Late(s, t))
           N == Cardinality(Call)
<1>5. A <= W \/ A + L <= MaxTx + N - 1
  BY <1>1 DEF Counts
<1>6. A \in Nat /\ W \in Nat /\ W <= MaxTx /\ N \in Nat /\ N # 0 /\ L \in Nat /\ MaxTx \in Nat
  <2> HIDE DEF A, W
  <2>1. A \in 0 .. Len(admitted[s]) /\ W \in 0 .. Len(windows[s])
    BY <1>2 DEF A, W
  <2> QED BY <1>1, <1>2, <1>3, <1>4, <2>1
<1> HIDE DEF A, W, L, N
<1>7. A <= MaxTx + N - 1
  BY <1>5, <1>6
<1> QED BY <1>7 DEF A, N

-----------------------------------------------------------------------------
(* The backup tools *)

LEMMA EntriesShape ==
  ASSUME NEW f
  PROVE  f \in Entries <=>
           /\ f = [k \in DOMAIN f |-> f[k]] /\ DOMAIN f \subseteq Key
           /\ \A k \in DOMAIN f : f[k] \in Value
BY DEF Entries

LEMMA EntriesClosed ==
  ASSUME NEW f \in Entries, NEW g \in Entries, NEW K
  PROVE  Only(f, K) \in Entries /\ Joined(f, g) \in Entries /\ NoEntries \in Entries
<1>1. /\ DOMAIN f \subseteq Key /\ DOMAIN g \subseteq Key
      /\ (\A k \in DOMAIN f : f[k] \in Value) /\ \A k \in DOMAIN g : g[k] \in Value
  BY EntriesShape
<1>2. Only(f, K) \in [DOMAIN f \cap K -> Value] /\ DOMAIN f \cap K \in SUBSET Key
  BY <1>1 DEF Only
<1>3. /\ Joined(f, g) \in [DOMAIN f \cup DOMAIN g -> Value]
      /\ DOMAIN f \cup DOMAIN g \in SUBSET Key
  BY <1>1 DEF Joined
<1>4. NoEntries \in [{} -> Value] /\ {} \in SUBSET Key
  BY DEF NoEntries
<1> QED BY <1>2, <1>3, <1>4 DEF Entries

\* What a file makes of a base, as a function of the file.
AppliedTo(base, file) == Only(Joined(base, file.entries), Key \ file.removed)

\* compute_diff undone: applied to its base, a difference gives back what was fetched.
LEMMA DiffRebuilds ==
  ASSUME NEW base \in Entries, Current \in Entries, NEW x,
         x.entries = compute_diff(base).changed, x.removed = compute_diff(base).removed
  PROVE  AppliedTo(base, x) = Current
<1> DEFINE cur == Current
           D == {k \in DOMAIN cur : k \in DOMAIN base => base[k] # cur[k]}
           changed == Only(cur, D)
           removed == DOMAIN base \ DOMAIN cur
           joined == Joined(base, changed)
<1>1. x.entries = changed /\ x.removed = removed
  BY DEF compute_diff
<1>2. /\ cur = [k \in DOMAIN cur |-> cur[k]]
      /\ DOMAIN cur \subseteq Key /\ DOMAIN base \subseteq Key
  BY EntriesShape
<1> HIDE DEF cur
<1>3. DOMAIN changed = D /\ \A k \in D : changed[k] = cur[k]
  BY DEF Only
<1> HIDE DEF changed
<1>4. /\ DOMAIN joined = DOMAIN base \cup D
      /\ \A k \in DOMAIN joined : joined[k] = IF k \in D THEN cur[k] ELSE base[k]
  BY <1>3 DEF Joined
<1> HIDE DEF joined
<1>5. DOMAIN joined \cap (Key \ removed) = DOMAIN cur
  BY <1>2, <1>4
<1>6. \A k \in DOMAIN cur : joined[k] = cur[k]
  BY <1>4
<1>7. Only(joined, Key \ removed) = cur
  BY <1>2, <1>5, <1>6 DEF Only
<1> QED BY <1>1, <1>7 DEF AppliedTo, joined, cur

\* The names a new file may not take, and that FreshName takes none of them.
Used == {last} \cup UNION {{files[f].name, files[f].base} : f \in DOMAIN files}

LEMMA FreshIsFresh ==
  ASSUME files \in Seq(File), last \in Nat
  PROVE  FreshName \in Nat \ {0} /\ FreshName \notin Used
<1> DEFINE names == {files[f].name : f \in DOMAIN files}
           bases == {files[f].base : f \in DOMAIN files}
           n == [f \in DOMAIN files |-> files[f].name]
           b == [f \in DOMAIN files |-> files[f].base]
           free == (1 .. Cardinality(Used) + 1) \ Used
<1>1. IsFiniteSet(DOMAIN files)
  <2>1. DOMAIN files = 1 .. Len(files) /\ Len(files) \in Int
    OBVIOUS
  <2> QED BY <2>1, FS_Interval
<1>2. n \in Surjection(DOMAIN files, names) /\ b \in Surjection(DOMAIN files, bases)
  BY DEF Surjection
<1>3. IsFiniteSet(names) /\ IsFiniteSet(bases)
  <2> HIDE DEF names, bases, n, b
  <2> QED BY <1>1, <1>2, FS_Surjection
<1>4. Used = {last} \cup (names \cup bases)
  BY DEF Used
<1>5. IsFiniteSet(Used) /\ Cardinality(Used) \in Nat
  <2> HIDE DEF names, bases
  <2>1. IsFiniteSet(names \cup bases)
    BY <1>3, FS_Union
  <2>2. IsFiniteSet({last} \cup (names \cup bases))
    BY <2>1, FS_Union, FS_Singleton
  <2> QED BY <1>4, <2>2, FS_CardinalityType
<1>6. free # {}
  <2> SUFFICES ASSUME free = {} PROVE FALSE
    OBVIOUS
  <2>1. 1 .. Cardinality(Used) + 1 \in SUBSET Used
    OBVIOUS
  <2>2. Cardinality(1 .. Cardinality(Used) + 1) <= Cardinality(Used)
    BY <1>5, <2>1, FS_Subset
  <2> DEFINE c == Cardinality(Used)
  <2>3. c \in Nat
    BY <1>5
  <2> HIDE DEF c
  <2>4. Cardinality(1 .. c + 1) = c + 1
    <3>1. 1 \in Int /\ c + 1 \in Int
      BY <2>3
    <3>2. Cardinality(1 .. c + 1) = IF 1 > c + 1 THEN 0 ELSE (c + 1) - 1 + 1
      BY <3>1, FS_Interval, Zenon
    <3>3. (IF 1 > c + 1 THEN 0 ELSE (c + 1) - 1 + 1) = c + 1
      BY <2>3
    <3> QED BY <3>2, <3>3
  <2>5. Cardinality(1 .. c + 1) <= c
    BY <2>2 DEF c
  <2> QED BY <2>3, <2>4, <2>5
<1>7. free \in SUBSET Nat
  BY <1>5
<1>8. PICK m \in free : \A k \in free : m <= k
  BY <1>6, <1>7, LeastNat
<1>9. FreshName = CHOOSE k \in free : \A j \in free : k <= j
  BY DEF FreshName, Used
<1> HIDE DEF free
<1>10. FreshName \in free
  BY <1>8, <1>9
<1> QED BY <1>5, <1>10 DEF free

\* NamesUnique and DiffsFit, as facts about a directory q.
Distinct(q) == \A f, g \in DOMAIN q : q[f].name = q[g].name => f = g
Fitting(q) ==
  \A f, b \in DOMAIN q :
    q[f].kind = "diff" /\ q[b].kind = "full" /\ q[b].name = q[f].base =>
      AppliedTo(q[b].entries, q[f]) = q[f].state

LEMMA DirectoryFacts ==
  /\ NamesUnique <=> Distinct(files)
  /\ DiffsFit <=> Fitting(files)
  /\ NamesUnique' <=> Distinct(files')
  /\ DiffsFit' <=> Fitting(files')
BY DEF NamesUnique, Distinct, DiffsFit, Fitting, BasesOf, Applied, AppliedTo

\* A file with a name nobody knows may be added, if it fits the bases it finds.
LEMMA DirectoryAppend ==
  ASSUME NEW q \in Seq(File), NEW x \in File, Distinct(q), Fitting(q),
         \A f \in DOMAIN q : q[f].name # x.name /\ q[f].base # x.name,
         x.base # x.name,
         \A b \in DOMAIN q :
           x.kind = "diff" /\ q[b].kind = "full" /\ q[b].name = x.base =>
             AppliedTo(q[b].entries, x) = x.state
  PROVE  /\ Append(q, x) \in Seq(File) /\ Len(Append(q, x)) = Len(q) + 1
         /\ Append(q, x)[Len(q) + 1] = x
         /\ Distinct(Append(q, x)) /\ Fitting(Append(q, x))
<1> DEFINE a == Append(q, x)
<1>1. /\ a \in Seq(File) /\ Len(a) = Len(q) + 1 /\ Len(q) \in Nat
      /\ DOMAIN a = 1 .. Len(q) + 1 /\ DOMAIN q = 1 .. Len(q)
      /\ a[Len(q) + 1] = x /\ \A i \in DOMAIN q : a[i] = q[i]
  OBVIOUS
<1>2. \A i \in DOMAIN a : i = Len(q) + 1 \/ i \in DOMAIN q
  BY <1>1
<1> HIDE DEF a
<1>3. Distinct(a)
  BY <1>1, <1>2 DEF Distinct
<1>4. Fitting(a)
  <2> SUFFICES ASSUME NEW f \in DOMAIN a, NEW b \in DOMAIN a,
                      a[f].kind = "diff", a[b].kind = "full", a[b].name = a[f].base
               PROVE  AppliedTo(a[b].entries, a[f]) = a[f].state
    BY DEF Fitting
  <2>1. b \in DOMAIN q
    <3> SUFFICES ASSUME b = Len(q) + 1 PROVE FALSE
      BY <1>2
    <3>1. x.name = a[f].base
      BY <1>1
    <3> QED BY <1>1, <1>2, <3>1
  <2>2. a[b] = q[b]
    BY <1>1, <2>1
  <2>3. CASE f \in DOMAIN q
    BY <1>1, <2>1, <2>2, <2>3 DEF Fitting
  <2>4. CASE f = Len(q) + 1
    BY <1>1, <2>1, <2>2, <2>4
  <2> QED BY <1>2, <2>3, <2>4
<1> QED BY <1>1, <1>3, <1>4 DEF a

\* The newest m files of a directory.
LEMMA DirectorySuffix ==
  ASSUME NEW q \in Seq(File), Distinct(q), Fitting(q), NEW m \in Nat \ {0}, Len(q) > m
  PROVE  LET k == SubSeq(q, Len(q) - m + 1, Len(q))
         IN  /\ k \in Seq(File) /\ Len(k) = m /\ k[m] = q[Len(q)]
             /\ Distinct(k) /\ Fitting(k)
<1> DEFINE k == SubSeq(q, Len(q) - m + 1, Len(q))
           d == Len(q) - m
<1>0. Len(q) \in Nat /\ DOMAIN q = 1 .. Len(q) /\ d \in Nat
  OBVIOUS
<1>1. k \in Seq(File) /\ Len(k) = m
  BY <1>0
<1>2. \A i \in 1 .. m : k[i] = q[i + d] /\ i + d \in DOMAIN q
  BY <1>0
<1>3. DOMAIN k = 1 .. m
  BY <1>1
<1> HIDE DEF k
<1>4. Distinct(k)
  <2> SUFFICES ASSUME NEW f \in DOMAIN k, NEW g \in DOMAIN k, k[f].name = k[g].name
               PROVE  f = g
    BY DEF Distinct
  <2>1. f + d = g + d
    BY <1>2, <1>3 DEF Distinct
  <2> QED BY <1>0, <1>3, <2>1
<1>5. Fitting(k)
  <2> SUFFICES ASSUME NEW f \in DOMAIN k, NEW b \in DOMAIN k,
                      k[f].kind = "diff", k[b].kind = "full", k[b].name = k[f].base
               PROVE  AppliedTo(k[b].entries, k[f]) = k[f].state
    BY DEF Fitting
  <2>1. PICK i \in DOMAIN q : k[f] = q[i]
    BY <1>2, <1>3
  <2>2. PICK j \in DOMAIN q : k[b] = q[j]
    BY <1>2, <1>3
  <2> QED BY <2>1, <2>2 DEF Fitting
<1>6. k[m] = q[Len(q)]
  <2>1. m + d = Len(q)
    BY <1>0
  <2> QED BY <1>2, <2>1
<1> QED BY <1>1, <1>4, <1>5, <1>6 DEF k

LEMMA BackupInitially == BackupInit => BackupInv
<1> SUFFICES ASSUME BackupInit PROVE BackupInv
  OBVIOUS
<1>1. NoEntries \in Entries
  <2>1. NoEntries \in [{} -> Value] /\ {} \in SUBSET Key
    BY DEF NoEntries
  <2> QED BY <2>1 DEF Entries
<1>2. /\ MaxBackups \in Nat /\ MaxChanges \in Nat /\ MaxFaults \in Nat /\ MaxCrashes \in Nat
  BY BackupAssumption
<1>3. files = <<>> /\ Len(files) = 0 /\ DOMAIN files = {} /\ files \in Seq(File)
  BY DEF BackupInit
<1>4. last = 0 /\ stage = "sleep" /\ crashes = 0 /\ changes = 0 /\ faults = 0
  BY DEF BackupInit
<1>5. BackupTypeOK
  BY <1>1, <1>2, <1>3, <1>4 DEF BackupInit, BackupTypeOK
<1> QED BY <1>2, <1>3, <1>4, <1>5 DEF BackupInv, FilesCounted, NamesUnique, DiffsFit, LatestIsLast

\* What every step but those of the directory keeps.
BackupTypes ==
  /\ incremental \in Modes
  /\ ledger \in Entries /\ instance \in Entries /\ persistent \in Entries
  /\ stage \in {"sleep", "instance", "persistent", "write", "prune", "stopped"}
  /\ changes \in 0 .. MaxChanges
  /\ faults \in 0 .. MaxFaults /\ crashes \in 0 .. MaxCrashes

LEMMA BackupTypesStep ==
  BackupInv /\ [BackupNext]_backupVars => BackupTypes'
<1> SUFFICES ASSUME BackupTypes, [BackupNext]_backupVars PROVE BackupTypes'
  BY DEF BackupInv, BackupTypeOK, BackupTypes
<1>0. /\ MaxBackups \in Nat /\ MaxChanges \in Nat /\ MaxFaults \in Nat /\ MaxCrashes \in Nat
      /\ \A f, g \in Entries : Joined(f, g) \in Entries
      /\ \A f \in Entries : \A K : Only(f, K) \in Entries
      /\ NoEntries \in Entries
  <2>1. ledger \in Entries
    BY DEF BackupTypes
  <2> QED BY <2>1, BackupAssumption, EntriesClosed
<1>1. \A n \in Nat : \A x \in 0 .. n : x < n => x + 1 \in 0 .. n
  OBVIOUS
<1>2. Fault => faults' \in 0 .. MaxFaults
  BY <1>0, <1>1 DEF Fault, BackupTypes
<1> USE DEF BackupTypes, environment
<1>3. ASSUME NEW k \in Key, Change(k) PROVE BackupTypes'
  <2>1. changes' \in 0 .. MaxChanges
    BY <1>0, <1>1, <1>3 DEF Change
  <2>2. ledger' \in Entries
    <3>1. CASE \E v \in Value : ledger' = Joined(ledger, [x \in {k} |-> v])
      <4>1. PICK v \in Value : ledger' = Joined(ledger, [x \in {k} |-> v])
        BY <3>1
      <4>2. [x \in {k} |-> v] \in [{k} -> Value] /\ {k} \in SUBSET Key
        OBVIOUS
      <4>3. [x \in {k} |-> v] \in Entries
        BY <4>2 DEF Entries
      <4> QED BY <1>0, <4>1, <4>3
    <3>2. CASE ledger' = Only(ledger, Key \ {k})
      BY <1>0, <3>2
    <3> QED BY <1>3, <3>1, <3>2 DEF Change
  <2> QED BY <1>3, <2>1, <2>2 DEF Change
<1>4. CASE Cycle
  BY <1>4 DEF Cycle
<1>5. CASE RequestFails
  BY <1>2, <1>5 DEF RequestFails
<1>6. CASE fetch_contract_entries
  BY <1>0, <1>2, <1>6 DEF fetch_contract_entries, Fetched
<1>7. CASE fetch_persistent_entries
  BY <1>0, <1>2, <1>7 DEF fetch_persistent_entries, Fetched
<1>8. CASE Write
  BY <1>8 DEF Write
<1>9. CASE NoBase
  BY <1>9 DEF NoBase
<1>10. CASE prune_old_backups
  BY <1>2, <1>10 DEF prune_old_backups
<1>11. CASE Crash
  BY <1>0, <1>1, <1>11 DEF Crash
<1>12. CASE UNCHANGED backupVars
  BY <1>12 DEF backupVars
<1> QED
  BY <1>3, <1>4, <1>5, <1>6, <1>7, <1>8, <1>9, <1>10, <1>11, <1>12 DEF BackupNext, Scheduler

\* What the directory promises, with the last backup, the stage and the crashes beside it.
Directory(q, latest, at, n) ==
  /\ q \in Seq(File) /\ Distinct(q) /\ Fitting(q) /\ latest \in Nat
  /\ MaxBackups > 0 =>
       Len(q) <= MaxBackups + n + (IF at \in {"prune", "stopped"} THEN 1 ELSE 0)
  /\ latest # 0 => q # <<>> /\ q[Len(q)].name = latest

DirectoryHolds == Directory(files, last, stage, crashes)

LEMMA BackupInvSplits == BackupInv <=> BackupTypes /\ DirectoryHolds
<1>1. BackupInv => BackupTypes /\ DirectoryHolds
  BY DirectoryFacts DEF BackupInv, BackupTypeOK, BackupTypes, FilesCounted, LatestIsLast,
                        Directory, DirectoryHolds
<1>2. ASSUME BackupTypes, DirectoryHolds PROVE BackupInv
  <2>1. NamesUnique /\ DiffsFit /\ files \in Seq(File) /\ FilesCounted /\ LatestIsLast
    BY <1>2, DirectoryFacts DEF Directory, DirectoryHolds, FilesCounted, LatestIsLast
  <2>2. \A f \in DOMAIN files : /\ files[f].kind \in {"full", "diff", "torn"}
                                /\ files[f].entries \in Entries
                                /\ files[f].removed \subseteq Key
    <3>1. \A f \in DOMAIN files : files[f] \in File
      BY <2>1
    <3> QED BY <3>1 DEF File
  <2>3. MaxBackups > 0 => Len(files) <= MaxBackups + 1 + crashes
    <3>1. crashes \in Nat /\ MaxBackups \in Nat /\ Len(files) \in Nat
      BY <1>2, <2>1, BackupAssumption DEF BackupTypes
    <3> QED BY <2>1, <3>1 DEF FilesCounted
  <2> QED BY <1>2, <2>1, <2>2, <2>3
          DEF BackupInv, BackupTypeOK, BackupTypes, Directory, DirectoryHolds
<1> QED BY <1>1, <1>2

\* A new file: it takes a fresh name, and a difference fits the only base it can have.
LEMMA FileAdded ==
  ASSUME BackupInv, NEW x \in File, files' = Append(files, x),
         x.name = FreshName, x.base \in {0, last},
         x.kind = "diff" => \E f \in DOMAIN files :
           files[f].name = last /\ x.base = last /\ AppliedTo(files[f].entries, x) = x.state
  PROVE  /\ files' \in Seq(File) /\ Distinct(files') /\ Fitting(files')
         /\ Len(files') = Len(files) + 1 /\ files'[Len(files')].name = FreshName
         /\ FreshName \in Nat
<1>1. files \in Seq(File) /\ last \in Nat /\ Distinct(files) /\ Fitting(files)
  BY BackupInvSplits DEF DirectoryHolds, Directory
<1>2. FreshName \in Nat \ {0} /\ FreshName \notin Used
  BY <1>1, FreshIsFresh
<1>3. /\ \A f \in DOMAIN files : files[f].name # x.name /\ files[f].base # x.name
      /\ last # x.name /\ x.name # 0
  BY <1>2 DEF Used
<1>4. ASSUME NEW b \in DOMAIN files, x.kind = "diff", files[b].kind = "full",
             files[b].name = x.base
      PROVE  AppliedTo(files[b].entries, x) = x.state
  BY <1>1, <1>4 DEF Distinct
<1>5. /\ Append(files, x) \in Seq(File) /\ Len(Append(files, x)) = Len(files) + 1
      /\ Append(files, x)[Len(files) + 1] = x
      /\ Distinct(Append(files, x)) /\ Fitting(Append(files, x))
  BY <1>1, <1>3, <1>4, DirectoryAppend
<1> QED BY <1>2, <1>5

LEMMA DirectoryStep ==
  BackupInv /\ [BackupNext]_backupVars => DirectoryHolds'
<1> SUFFICES ASSUME BackupInv, [BackupNext]_backupVars PROVE DirectoryHolds'
  OBVIOUS
<1>0. /\ BackupTypes /\ Directory(files, last, stage, crashes)
      /\ files \in Seq(File) /\ Distinct(files) /\ Fitting(files) /\ last \in Nat
      /\ crashes \in Nat /\ Len(files) \in Nat /\ MaxBackups \in Nat
      /\ instance \in Entries /\ persistent \in Entries
  BY BackupInvSplits, BackupAssumption DEF DirectoryHolds, Directory, BackupTypes
<1>1. Current \in Entries /\ NoEntries \in Entries
      /\ \A base \in Entries : /\ compute_diff(base).changed \in Entries
                               /\ compute_diff(base).removed \subseteq Key
  <2>1. Current \in Entries /\ NoEntries \in Entries
    BY <1>0, EntriesClosed DEF Current
  <2>2. ASSUME NEW base \in Entries
        PROVE  /\ compute_diff(base).changed \in Entries
               /\ compute_diff(base).removed \subseteq Key
    BY <2>1, EntriesClosed, EntriesShape DEF compute_diff
  <2> QED BY <2>1, <2>2
<1>2. FreshName \in Nat
  BY <1>0, FreshIsFresh
<1>3. ASSUME NEW kind \in {"full", "diff", "torn"}, NEW e \in Entries, NEW r \in SUBSET Key
      PROVE  /\ NewFile(kind, e, r) \in File /\ NewFile(kind, e, r).name = FreshName
             /\ NewFile(kind, e, r).base = (IF kind = "diff" THEN last ELSE 0)
             /\ NewFile(kind, e, r).kind = kind
             /\ NewFile(kind, e, r).entries = e /\ NewFile(kind, e, r).removed = r
             /\ NewFile(kind, e, r).state = Current
  BY <1>0, <1>1, FreshIsFresh DEF NewFile, File
<1>4. ASSUME UNCHANGED <<files, last, crashes>>,
             stage \in {"prune", "stopped"} => stage' \in {"prune", "stopped"}
      PROVE  DirectoryHolds'
  BY <1>0, <1>4 DEF Directory, DirectoryHolds
<1>5. CASE Write
  <2>1. \E x \in File : /\ files' = Append(files, x)
                        /\ x.name = FreshName /\ x.base \in {0, last}
                        /\ x.kind = "diff" => \E f \in DOMAIN files :
                             files[f].name = last /\ x.base = last
                               /\ AppliedTo(files[f].entries, x) = x.state
    <3>1. CASE UseIncremental
      <4>1. PICK f \in Bases : LET diff == compute_diff(files[f].entries)
              IN  files' = Append(files, NewFile("diff", diff.changed, diff.removed))
        BY <1>5, <3>1 DEF Write
      <4>2. f \in DOMAIN files /\ files[f].name = last
        BY DEF Bases
      <4> DEFINE diff == compute_diff(files[f].entries)
                 x == NewFile("diff", diff.changed, diff.removed)
      <4>3. files[f].entries \in Entries
        <5>1. files[f] \in File
          BY <1>0, <4>2
        <5> QED BY <5>1 DEF File
      <4>4. /\ x \in File /\ x.name = FreshName /\ x.base = last /\ x.state = Current
            /\ x.entries = diff.changed /\ x.removed = diff.removed
        BY <1>1, <1>3, <4>3
      <4>5. AppliedTo(files[f].entries, x) = Current
        <5> HIDE DEF x
        <5> QED BY <1>1, <4>3, <4>4, DiffRebuilds
      <4>6. files' = Append(files, x)
        BY <4>1
      <4> HIDE DEF x
      <4> QED BY <4>2, <4>4, <4>5, <4>6
    <3>2. CASE ~UseIncremental
      <4> DEFINE x == NewFile("full", Current, {})
      <4>1. /\ x \in File /\ x.name = FreshName /\ x.base = 0 /\ x.kind = "full"
        BY <1>1, <1>3
      <4>2. files' = Append(files, x)
        BY <1>5, <3>2 DEF Write
      <4> HIDE DEF x
      <4> QED BY <4>1, <4>2
    <3> QED BY <3>1, <3>2
  <2>2. /\ files' \in Seq(File) /\ Distinct(files') /\ Fitting(files')
        /\ Len(files') = Len(files) + 1 /\ files'[Len(files')].name = FreshName
    BY <2>1, FileAdded
  <2>3. /\ last' = FreshName /\ stage = "write" /\ stage' = "prune" /\ crashes' = crashes
    BY <1>5 DEF Write
  <2>4. MaxBackups > 0 => Len(files') <= MaxBackups + crashes' + 1
    BY <1>0, <2>2, <2>3 DEF Directory
  <2>5. files' # <<>>
    BY <1>0, <2>2
  <2> QED BY <1>2, <2>2, <2>3, <2>4, <2>5 DEF Directory, DirectoryHolds
<1>6. CASE prune_old_backups
  <2>1. CASE files' = files
    <3>1. stage' = "stopped" \/ (stage' = "sleep" /\ (MaxBackups = 0 \/ Len(files) <= MaxBackups))
          \/ (stage' = "sleep" /\ Len(files) > MaxBackups /\ MaxBackups # 0 /\ files' = Kept)
      BY <1>0, <1>6 DEF prune_old_backups
    <3>2. last' = last /\ crashes' = crashes /\ stage = "prune"
      BY <1>6 DEF prune_old_backups
    <3>3. CASE stage' = "stopped"
      BY <1>4, <2>1, <3>2, <3>3
    <3>4. CASE stage' = "sleep" /\ (MaxBackups = 0 \/ Len(files) <= MaxBackups)
      BY <1>0, <2>1, <3>2, <3>4 DEF Directory, DirectoryHolds
    <3>5. CASE stage' = "sleep" /\ Len(files) > MaxBackups /\ MaxBackups # 0 /\ files' = Kept
      <4>1. Len(files') = MaxBackups
        BY <1>0, <3>5, DirectorySuffix DEF Kept
      <4> QED BY <1>0, <2>1, <3>2, <3>5, <4>1 DEF Directory, DirectoryHolds
    <3> QED BY <3>1, <3>3, <3>4, <3>5
  <2>2. CASE files' # files
    <3>1. /\ files' = Kept /\ Len(files) > MaxBackups /\ MaxBackups # 0
          /\ stage' = "sleep" /\ last' = last /\ crashes' = crashes
      BY <1>0, <1>6, <2>2 DEF prune_old_backups
    <3>2. /\ files' \in Seq(File) /\ Distinct(files') /\ Fitting(files')
          /\ Len(files') = MaxBackups /\ files'[MaxBackups] = files[Len(files)]
      BY <1>0, <3>1, DirectorySuffix DEF Kept
    <3>3. files' # <<>>
      BY <1>0, <3>1, <3>2
    <3>4. MaxBackups > 0 => Len(files') <= MaxBackups + crashes'
      BY <1>0, <3>1, <3>2
    <3>5. last' # 0 => files'[Len(files')].name = last'
      BY <1>0, <3>1, <3>2 DEF Directory
    <3> QED BY <1>0, <3>1, <3>2, <3>3, <3>4, <3>5 DEF Directory, DirectoryHolds
  <2> QED BY <2>1, <2>2
<1>7. CASE Crash
  <2>1. crashes' = crashes + 1 /\ last' = 0 /\ stage' = "sleep"
    BY <1>7 DEF Crash
  <2>2. CASE files' = files
    BY <1>0, <2>1, <2>2 DEF Directory, DirectoryHolds
  <2>3. CASE stage = "write" /\ files' = Append(files, NewFile("torn", NoEntries, {}))
    <3> DEFINE x == NewFile("torn", NoEntries, {})
    <3>1. /\ x \in File /\ x.name = FreshName /\ x.base = 0 /\ x.kind = "torn"
      BY <1>1, <1>3
    <3>2. files' = Append(files, x)
      BY <2>3
    <3> HIDE DEF x
    <3>3. /\ files' \in Seq(File) /\ Distinct(files') /\ Fitting(files')
          /\ Len(files') = Len(files) + 1
      BY <3>1, <3>2, FileAdded
    <3>4. MaxBackups > 0 => Len(files') <= MaxBackups + crashes'
      BY <1>0, <2>1, <2>3, <3>3 DEF Directory
    <3> QED BY <1>0, <2>1, <3>3, <3>4 DEF Directory, DirectoryHolds
  <2> QED BY <1>7, <2>2, <2>3 DEF Crash
<1>8. ASSUME NEW k \in Key, Change(k) PROVE DirectoryHolds'
  BY <1>4, <1>8 DEF Change
<1>9. CASE Cycle \/ RequestFails \/ fetch_contract_entries \/ fetch_persistent_entries \/ NoBase
  BY <1>4, <1>9 DEF Cycle, RequestFails, fetch_contract_entries, fetch_persistent_entries, NoBase
<1>10. CASE UNCHANGED backupVars
  BY <1>4, <1>10 DEF backupVars
<1> QED
  BY <1>5, <1>6, <1>7, <1>8, <1>9, <1>10 DEF BackupNext, Scheduler

LEMMA BackupInvStep == BackupInv /\ [BackupNext]_backupVars => BackupInv'
<1>1. BackupInv /\ [BackupNext]_backupVars => BackupTypes' /\ DirectoryHolds'
  BY BackupTypesStep, DirectoryStep
<1> QED BY <1>1, BackupInvSplits, PTL

LEMMA BackupInvUsable == BackupInv => BackupsUsable
<1> SUFFICES ASSUME BackupInv PROVE BackupsUsable
  OBVIOUS
<1>1. DiffsRebuild
  BY DEF BackupInv, DiffsFit, DiffsRebuild, Restorable
<1>2. LatestKept
  <2> SUFFICES ASSUME last # 0 PROVE \E f \in DOMAIN files : files[f].name = last
    BY DEF LatestKept
  <2>1. files \in Seq(File) /\ files # <<>> /\ files[Len(files)].name = last
    BY DEF BackupInv, LatestIsLast
  <2>2. Len(files) \in DOMAIN files
    BY <2>1
  <2> QED BY <2>1, <2>2
<1> QED BY <1>1, <1>2 DEF BackupsUsable

-----------------------------------------------------------------------------
(* The migration toolkit *)

LEMMA StorageShape ==
  ASSUME NEW e
  PROVE  e \in Storage <=>
           /\ e = [k \in DOMAIN e |-> e[k]]
           /\ Settings \subseteq DOMAIN e /\ DOMAIN e \subseteq Entry
           /\ \A k \in DOMAIN e : e[k] \in Contents
<1>1. ASSUME e \in Storage
      PROVE  /\ e = [k \in DOMAIN e |-> e[k]]
             /\ Settings \subseteq DOMAIN e /\ DOMAIN e \subseteq Entry
             /\ \A k \in DOMAIN e : e[k] \in Contents
  <2>1. PICK S \in SUBSET Records : e \in [Settings \cup S -> Contents]
    BY <1>1 DEF Storage
  <2> QED BY <2>1 DEF Entry
<1>2. ASSUME e = [k \in DOMAIN e |-> e[k]], Settings \subseteq DOMAIN e,
             DOMAIN e \subseteq Entry, \A k \in DOMAIN e : e[k] \in Contents
      PROVE  e \in Storage
  <2> DEFINE S == DOMAIN e \cap Records
  <2>1. S \in SUBSET Records /\ DOMAIN e = Settings \cup S
    BY <1>2 DEF Entry
  <2>2. e \in [DOMAIN e -> Contents]
    BY <1>2
  <2> QED BY <2>1, <2>2 DEF Storage
<1> QED BY <1>1, <1>2

LEMMA PutStorage ==
  ASSUME NEW e \in Storage, NEW k \in Entry, NEW v \in Contents
  PROVE  Put(e, k, v) \in Storage
<1> DEFINE p == Put(e, k, v)
<1>1. /\ DOMAIN p = DOMAIN e \cup {k} /\ p[k] = v /\ p = [x \in DOMAIN p |-> p[x]]
      /\ \A x \in DOMAIN e : x # k => p[x] = e[x]
  BY DEF Put
<1> HIDE DEF p
<1>2. /\ Settings \subseteq DOMAIN e /\ DOMAIN e \subseteq Entry
      /\ \A x \in DOMAIN e : e[x] \in Contents
  BY StorageShape
<1>3. Settings \subseteq DOMAIN p /\ DOMAIN p \subseteq Entry /\ \A x \in DOMAIN p : p[x] \in Contents
  BY <1>1, <1>2
<1>4. p \in Storage
  BY <1>1, <1>3, StorageShape
<1> QED BY <1>4 DEF p

LEMMA TransformedStorage ==
  ASSUME NEW e \in Storage
  PROVE  Transformed(e) \in Storage
<1> DEFINE t == Transformed(e)
           kept == {k \in DOMAIN e : k \in Settings \/ e[k] # ZeroValue}
<1>1. /\ Settings \subseteq DOMAIN e /\ DOMAIN e \subseteq Entry
      /\ \A x \in DOMAIN e : e[x] \in Contents
  BY StorageShape
<1>2. /\ t = [k \in kept |-> IF k \in Records /\ e[k] = Expired THEN Cancelled ELSE e[k]]
  BY DEF Transformed
<1>3. DOMAIN t = kept /\ t = [k \in DOMAIN t |-> t[k]]
      /\ \A k \in kept : t[k] = IF k \in Records /\ e[k] = Expired THEN Cancelled ELSE e[k]
  BY <1>2
<1> HIDE DEF t
<1>4. Settings \subseteq DOMAIN t /\ DOMAIN t \subseteq Entry /\ \A x \in DOMAIN t : t[x] \in Contents
  BY <1>1, <1>3 DEF Contents
<1>5. t \in Storage
  BY <1>3, <1>4, StorageShape
<1> QED BY <1>5 DEF t

\* The contracts and the files, as facts about values of their variables.
JarOK(j) == /\ DOMAIN j = {"source", "target"}
            /\ j["source"] \in Snapshot /\ j["target"] \in Snapshot
FilesOK(sn) ==
  /\ DOMAIN sn = {"export", "transformed", "backup"}
  /\ \A f \in {"export", "transformed", "backup"} : sn[f] \in Snapshot \cup {Missing}

LEMMA FilesUpdate ==
  ASSUME NEW sn, FilesOK(sn), NEW f \in {"export", "transformed", "backup"},
         NEW x \in Snapshot \cup {Missing}
  PROVE  /\ FilesOK([sn EXCEPT ![f] = x])
         /\ \A g \in {"export", "transformed", "backup"} :
              g # f => [sn EXCEPT ![f] = x][g] = sn[g]
BY DEF FilesOK

LEMMA SnapshotUpdate ==
  ASSUME NEW c \in Snapshot, NEW p \in BOOLEAN, NEW e \in Storage
  PROVE  /\ [c EXCEPT !.paused = p] \in Snapshot /\ [c EXCEPT !.paused = p].paused = p
         /\ [c EXCEPT !.paused = p].entries = c.entries
         /\ [c EXCEPT !.entries = e] \in Snapshot /\ [c EXCEPT !.entries = e].entries = e
         /\ [c EXCEPT !.entries = e].paused = c.paused
         /\ c.paused \in BOOLEAN /\ c.entries \in Storage
         /\ [paused |-> p, entries |-> e] \in Snapshot
BY DEF Snapshot

\* MigrationInv without its parts about reading and importing.
MigrationTypes ==
  /\ JarOK(jar) /\ FilesOK(snapshots)
  /\ step \in {"idle", "reading", "pause", "writing", "verify", "unpause", "record",
               "rollback"}
  /\ from \in {"transformed", "backup"}
  /\ todo \subseteq Entry /\ unread \subseteq Entry
  /\ history \in {Missing} \cup Seq({"DryRun", "RolledBack", "Success"})

LEMMA MigrationInvSplits == MigrationInv <=> MigrationTypes /\ ReadingSound /\ ImportSound
BY DEF MigrationInv, MigrationTypeOK, MigrationTypes, JarOK, FilesOK

LEMMA MigrationInitially == MigrationInit => MigrationInv
<1> SUFFICES ASSUME MigrationInit PROVE MigrationInv
  OBVIOUS
<1>1. Settings \subseteq Entry /\ Live \in Contents /\ ZeroValue \in Contents
  BY DEF Entry, Contents
<1>2. [Settings -> {Live}] \cup [Entry -> {Live}] \subseteq Storage
  BY <1>1, StorageShape
<1>3. [k \in Settings |-> ZeroValue] \in Storage
  BY <1>1, StorageShape
<1>4. JarOK(jar)
  <2> DEFINE z == [k \in Settings |-> ZeroValue]
             E == [Settings -> {Live}] \cup [Entry -> {Live}]
  <2>1. jar \in [source : [paused : BOOLEAN, entries : E],
                 target : {[paused |-> FALSE, entries |-> z]}]
    BY DEF MigrationInit
  <2>2. z \in Storage /\ E \subseteq Storage
    BY <1>2, <1>3
  <2> HIDE DEF z, E
  <2>3. /\ DOMAIN jar = {"source", "target"}
        /\ jar["source"] \in [paused : BOOLEAN, entries : E]
        /\ jar["target"] = [paused |-> FALSE, entries |-> z]
    BY <2>1
  <2>4. jar["source"] \in Snapshot
    BY <2>2, <2>3 DEF Snapshot
  <2>5. jar["target"] \in Snapshot
    <3>1. FALSE \in BOOLEAN
      OBVIOUS
    <3> QED BY <2>2, <2>3, <3>1 DEF Snapshot
  <2> QED BY <2>3, <2>4, <2>5 DEF JarOK
<1>5. FilesOK(snapshots)
  BY DEF MigrationInit, FilesOK
<1>6. MigrationTypes
  BY <1>4, <1>5 DEF MigrationInit, MigrationTypes
<1>7. ReadingSound /\ ImportSound
  BY DEF MigrationInit, ReadingSound, ImportSound
<1> QED BY <1>6, <1>7, MigrationInvSplits

\* Once nothing is being read or imported there is nothing to say of it.
AtRest == step \in {"idle", "record", "rollback"} /\ reading \in {"source", "target"}
LEMMA RestIsSound == AtRest => ReadingSound /\ ImportSound
BY DEF AtRest, ReadingSound, ImportSound

LEMMA HistoryStep ==
  ASSUME history \in {Missing} \cup Seq({"DryRun", "RolledBack", "Success"}),
         NEW status \in {"DryRun", "RolledBack", "Success"},
         append_history_entry(status)
  PROVE  history' \in {Missing} \cup Seq({"DryRun", "RolledBack", "Success"})
<1> DEFINE D == {"DryRun", "RolledBack", "Success"}
<1>1. CASE history = Missing
  <2>1. <<status>> \in Seq(D)
    OBVIOUS
  <2> QED BY <1>1, <2>1 DEF append_history_entry
<1>2. CASE history # Missing
  <2> HIDE DEF D
  <2>1. history \in Seq(D) /\ status \in D /\ history' = Append(history, status)
    BY <1>2 DEF append_history_entry, D
  <2>2. history' \in Seq(D)
    BY <2>1
  <2> QED BY <2>2 DEF D
<1> QED BY <1>1, <1>2

\* The commands and calls that neither read nor write a contract's entries.
LEMMA CommandStep ==
  ASSUME MigrationInv,
         \/ run_export \/ run_transform \/ run_import_dry \/ run_import \/ run_rollback
         \/ give_up_reading \/ record_success \/ crash_migration
  PROVE  MigrationInv'
<1>0. MigrationTypes /\ ReadingSound /\ ImportSound
  BY MigrationInvSplits
<1>2. CASE run_export \/ run_import
  <2>1. /\ step' = "reading" /\ reading' \in {"source", "target"} /\ unread' = Entry
        /\ got' = [k \in {} |-> Live]
        /\ UNCHANGED <<jar, fileVars, importVars>>
    BY <1>2 DEF run_export, run_import, BeginReading
  <2>2. reading' = "target" => snapshots.transformed # Missing
    BY <1>2 DEF run_export, run_import, BeginReading
  <2>3. MigrationTypes'
    BY <1>0, <2>1 DEF MigrationTypes, fileVars, importVars
  <2>4. ReadingSound'
    BY <2>1 DEF ReadingSound, Entry
  <2>5. ImportSound'
    BY <2>1, <2>2 DEF ImportSound, fileVars
  <2> QED BY <2>3, <2>4, <2>5, MigrationInvSplits, PTL
<1>3. CASE run_transform
  <2>1. /\ snapshots.export # Missing /\ step = "idle"
        /\ snapshots' = [snapshots EXCEPT !.transformed =
                           [snapshots.export EXCEPT !.entries = Transformed(@)]]
        /\ UNCHANGED <<jar, history, step, exportVars, importVars>>
    BY <1>3 DEF run_transform, Command
  <2>2. snapshots.export \in Snapshot
    BY <1>0, <2>1 DEF MigrationTypes, FilesOK
  <2> DEFINE x == [snapshots.export EXCEPT !.entries = Transformed(snapshots.export.entries)]
  <2>3. x \in Snapshot
    <3>1. snapshots.export.entries \in Storage
      BY <2>2 DEF Snapshot
    <3>2. Transformed(snapshots.export.entries) \in Storage
      BY <3>1, TransformedStorage
    <3> QED BY <2>2, <3>2, SnapshotUpdate
  <2>4. snapshots' = [snapshots EXCEPT !["transformed"] = x]
    BY <2>1
  <2> HIDE DEF x
  <2>5. FilesOK(snapshots')
    BY <1>0, <2>3, <2>4, FilesUpdate DEF MigrationTypes
  <2>6. MigrationTypes'
    BY <1>0, <2>1, <2>5 DEF MigrationTypes, exportVars, importVars
  <2>7. AtRest'
    BY <1>0, <2>1 DEF AtRest, ReadingSound, exportVars
  <2> QED BY <2>6, <2>7, MigrationInvSplits, RestIsSound, PTL
<1>4. CASE run_import_dry \/ record_success
  <2>1. /\ UNCHANGED <<jar, snapshots, exportVars, importVars>> /\ step' = "idle"
        /\ \/ append_history_entry("DryRun") \/ append_history_entry("Success")
           \/ UNCHANGED history
    BY <1>4 DEF run_import_dry, record_success, Command
  <2>2. history' \in {Missing} \cup Seq({"DryRun", "RolledBack", "Success"})
    BY <1>0, <2>1, HistoryStep DEF MigrationTypes
  <2>3. MigrationTypes'
    BY <1>0, <2>1, <2>2 DEF MigrationTypes, exportVars, importVars
  <2>4. AtRest'
    BY <1>0, <2>1 DEF AtRest, ReadingSound, exportVars
  <2> QED BY <2>3, <2>4, MigrationInvSplits, RestIsSound, PTL
<1>5. CASE run_rollback \/ give_up_reading \/ crash_migration
  <2>1. /\ UNCHANGED <<jar, snapshots, exportVars, from, todo>>
        /\ step' \in {"idle", "rollback"} /\ history' \in {history, Missing}
    BY <1>5 DEF run_rollback, give_up_reading, crash_migration, fileVars, importVars
  <2>2. MigrationTypes'
    BY <1>0, <2>1 DEF MigrationTypes, exportVars
  <2>3. AtRest'
    BY <1>0, <2>1 DEF AtRest, ReadingSound, exportVars
  <2> QED BY <2>2, <2>3, MigrationInvSplits, RestIsSound, PTL
<1> QED BY <1>2, <1>3, <1>4, <1>5

LEMMA UserStep ==
  ASSUME MigrationInv, NEW c \in {"source", "target"}, NEW k \in Entry,
         NEW v \in {ZeroValue, Expired}, user_call(c, k, v)
  PROVE  MigrationInv' /\ (jar.target.paused => jar'.target = jar.target)
<1>0. MigrationTypes /\ ReadingSound /\ ImportSound
  BY MigrationInvSplits
<1> DEFINE e == Put(jar[c].entries, k, v)
           x == [jar[c] EXCEPT !.entries = e]
<1>1. /\ ~jar[c].paused /\ jar' = [jar EXCEPT ![c] = x]
      /\ UNCHANGED <<fileVars, step, exportVars, importVars>>
  BY DEF user_call
<1>2. JarOK(jar) /\ jar[c] \in Snapshot
  BY <1>0 DEF MigrationTypes, JarOK
<1>3. x \in Snapshot /\ x.paused = jar[c].paused
  <2>1. jar[c].entries \in Storage /\ jar[c].paused \in BOOLEAN
    BY <1>2 DEF Snapshot
  <2>2. e \in Storage
    BY <2>1, PutStorage DEF Contents
  <2> HIDE DEF e
  <2> QED BY <1>2, <2>1, <2>2 DEF Snapshot
<1> HIDE DEF x
<1>4. JarOK(jar') /\ (c # "target" => jar'.target = jar.target) /\ (c = "target" => jar'.target = x)
  BY <1>1, <1>2, <1>3 DEF JarOK
<1>5. MigrationTypes'
  BY <1>0, <1>1, <1>4 DEF MigrationTypes, fileVars, exportVars, importVars
<1>6. ReadingSound'
  BY <1>0, <1>1 DEF ReadingSound, exportVars
<1>7. jar'.target = jar.target \/ ~jar'.target.paused
  BY <1>1, <1>3, <1>4
<1>8. ImportSound'
  BY <1>0, <1>1, <1>7 DEF ImportSound, Arrived, fileVars, importVars, exportVars
<1>9. jar.target.paused => jar'.target = jar.target
  BY <1>1, <1>4
<1> QED BY <1>5, <1>6, <1>8, <1>9, MigrationInvSplits, PTL

LEMMA ReadStep ==
  ASSUME MigrationInv, NEW k \in Entry, read_entry(k)
  PROVE  MigrationInv'
<1>0. MigrationTypes /\ ReadingSound /\ ImportSound
  BY MigrationInvSplits
<1>1. /\ step = "reading" /\ k \in unread /\ unread' = unread \ {k}
      /\ got' \in {Stored(k), Defaulted(k)}
      /\ UNCHANGED <<jar, fileVars, step, reading, importVars>>
  BY DEF read_entry, At
<1>2. MigrationTypes'
  BY <1>0, <1>1 DEF MigrationTypes, fileVars, importVars
<1>3. ImportSound'
  BY <1>0, <1>1 DEF ImportSound, Arrived, fileVars, importVars
<1>4. ReadingSound'
  <2>1. /\ reading \in {"source", "target"} /\ got \in [DOMAIN got -> Contents]
        /\ DOMAIN got \subseteq Entry /\ Settings \ unread \subseteq DOMAIN got
    BY <1>0, <1>1 DEF ReadingSound
  <2>2. jar[reading].entries \in Storage
    BY <1>0, <2>1, SnapshotUpdate DEF MigrationTypes, JarOK, Snapshot
  <2>3. /\ Settings \subseteq DOMAIN jar[reading].entries
        /\ \A x \in DOMAIN jar[reading].entries : jar[reading].entries[x] \in Contents
    BY <2>2, StorageShape
  <2>4. \/ \E v \in Contents : got' = Put(got, k, v)
        \/ k \notin Settings /\ got' = got
    <3>1. CASE got' = Stored(k)
      BY <2>3, <3>1 DEF Stored
    <3>2. CASE got' = Defaulted(k)
      BY <3>2 DEF Defaulted, Contents
    <3> QED BY <1>1, <3>1, <3>2
  <2>5. ASSUME NEW v \in Contents, got' = Put(got, k, v)
        PROVE  /\ got' \in [DOMAIN got' -> Contents] /\ DOMAIN got' \subseteq Entry
               /\ Settings \ unread' \subseteq DOMAIN got'
    <3>1. /\ DOMAIN got' = DOMAIN got \cup {k} /\ got'[k] = v
          /\ (\A x \in DOMAIN got : x # k => got'[x] = got[x])
          /\ got' = [x \in DOMAIN got' |-> got'[x]]
      BY <2>5 DEF Put
    <3> QED BY <1>1, <2>1, <3>1
  <2>6. CASE k \notin Settings /\ got' = got
    BY <1>1, <2>1, <2>6 DEF ReadingSound
  <2> QED BY <1>1, <2>1, <2>4, <2>5, <2>6 DEF ReadingSound
<1> QED BY <1>2, <1>3, <1>4, MigrationInvSplits, PTL

LEMMA FinishStep ==
  ASSUME MigrationInv, finish_reading
  PROVE  MigrationInv'
<1>0. MigrationTypes /\ ReadingSound /\ ImportSound
  BY MigrationInvSplits
<1>1. /\ step = "reading" /\ unread = {} /\ UNCHANGED <<jar, history, exportVars, importVars>>
      /\ reading \in {"source", "target"} /\ OutputOf(reading) \in {"export", "backup"}
  BY <1>0 DEF finish_reading, At, ReadingSound, OutputOf
<1>2. got \in Storage
  <2>1. /\ got \in [DOMAIN got -> Contents] /\ DOMAIN got \subseteq Entry
        /\ Settings \subseteq DOMAIN got
    BY <1>0, <1>1 DEF ReadingSound
  <2>2. got = [k \in DOMAIN got |-> got[k]] /\ \A k \in DOMAIN got : got[k] \in Contents
    BY <2>1
  <2> QED BY <2>1, <2>2, StorageShape
<1>3. jar[reading].paused \in BOOLEAN
  BY <1>0, <1>1 DEF MigrationTypes, JarOK, Snapshot
<1>4. PICK x \in Snapshot \cup {Missing} : snapshots' = [snapshots EXCEPT ![OutputOf(reading)] = x]
  <2>1. ASSUME NEW p \in {FALSE, jar[reading].paused} PROVE [paused |-> p, entries |-> got] \in Snapshot
    <3>1. p \in BOOLEAN
      BY <1>3, Zenon
    <3> QED BY <1>2, <3>1 DEF Snapshot
  <2> QED BY <2>1 DEF finish_reading
<1>5. FilesOK(snapshots') /\ snapshots'.transformed = snapshots.transformed
  <2>1. FilesOK(snapshots)
    BY <1>0 DEF MigrationTypes
  <2> QED BY <1>1, <1>4, <2>1 DEF FilesOK
<1>6. step' = "idle" \/ (step' = "pause" /\ reading = "target")
  BY <1>1 DEF finish_reading
<1>7. MigrationTypes'
  BY <1>0, <1>1, <1>5, <1>6 DEF MigrationTypes, exportVars, importVars
<1>8. ReadingSound' /\ ImportSound'
  BY <1>0, <1>1, <1>5, <1>6 DEF ReadingSound, ImportSound, exportVars
<1> QED BY <1>7, <1>8, MigrationInvSplits, PTL

\* A call to the target that begins to write a snapshot: nothing has to have arrived yet.
LEMMA BeginStep ==
  ASSUME MigrationInv, pause_target \/ rollback
  PROVE  MigrationInv' /\ (jar.target.paused => jar'.target.paused)
<1>0. MigrationTypes /\ ReadingSound /\ ImportSound
  BY MigrationInvSplits
<1> DEFINE paused == [jar.target EXCEPT !.paused = TRUE]
<1>1. paused \in Snapshot /\ paused.paused
  <2>1. jar.target \in Snapshot /\ TRUE \in BOOLEAN
    BY <1>0 DEF MigrationTypes, JarOK
  <2> QED BY <2>1 DEF Snapshot
<1>2. /\ jar' = [jar EXCEPT !.target = paused] \/ jar' = jar
      /\ UNCHANGED <<snapshots, exportVars>>
  BY DEF pause_target, rollback, WithOrWithout, fileVars
<1> HIDE DEF paused
<1>3. JarOK(jar') /\ (jar.target.paused => jar'.target.paused)
  <2>1. JarOK(jar)
    BY <1>0 DEF MigrationTypes
  <2> QED BY <1>1, <1>2, <2>1 DEF JarOK
<1>4. history' \in {Missing} \cup Seq({"DryRun", "RolledBack", "Success"})
  BY <1>0, HistoryStep DEF MigrationTypes, pause_target, rollback, EndRollback, fileVars
<1>5. \/ /\ step' = "writing" /\ from' \in {"transformed", "backup"}
         /\ snapshots[from'] # Missing /\ todo' = DOMAIN snapshots[from'].entries
      \/ step' = "idle" /\ from' = from /\ todo' = todo
  BY <1>0 DEF pause_target, rollback, At, BeginWriting, EndRollback, importVars, ImportSound
<1>6. CASE step' = "idle" /\ from' = from /\ todo' = todo
  <2>1. MigrationTypes'
    BY <1>0, <1>2, <1>3, <1>4, <1>6 DEF MigrationTypes, exportVars
  <2>2. AtRest'
    BY <1>0, <1>2, <1>6 DEF AtRest, ReadingSound, exportVars
  <2> QED BY <1>3, <2>1, <2>2, MigrationInvSplits, RestIsSound, PTL
<1>7. CASE /\ step' = "writing" /\ from' \in {"transformed", "backup"}
           /\ snapshots[from'] # Missing /\ todo' = DOMAIN snapshots[from'].entries
  <2>1. snapshots[from'] \in Snapshot
    BY <1>0, <1>7 DEF MigrationTypes, FilesOK
  <2>2. todo' \subseteq Entry
    <3>1. snapshots[from'].entries \in Storage
      BY <2>1 DEF Snapshot
    <3> QED BY <1>7, <3>1, StorageShape
  <2>3. MigrationTypes'
    BY <1>0, <1>2, <1>3, <1>4, <1>7, <2>2 DEF MigrationTypes, exportVars
  <2>4. ReadingSound'
    BY <1>0, <1>2, <1>7 DEF ReadingSound, exportVars
  <2>5. ImportSound'
    BY <1>2, <1>7 DEF ImportSound, Arrived
  <2> QED BY <1>3, <2>3, <2>4, <2>5, MigrationInvSplits, PTL
<1> QED BY <1>5, <1>6, <1>7

LEMMA WriteStep ==
  ASSUME MigrationInv, NEW k \in Entry, write_entry(k)
  PROVE  MigrationInv' /\ jar'.target.paused = jar.target.paused
<1>0. MigrationTypes /\ ReadingSound /\ ImportSound
  BY MigrationInvSplits
<1>1. /\ step = "writing" /\ k \in todo /\ UNCHANGED <<snapshots, exportVars, from>>
      /\ from \in {"transformed", "backup"} /\ snapshots[from] # Missing
  BY <1>0 DEF write_entry, At, ImportSound, MigrationTypes
<1>2. /\ JarOK(jar) /\ jar.target \in Snapshot /\ jar.target.entries \in Storage
      /\ snapshots[from] \in Snapshot /\ snapshots[from].entries \in Storage
  <2>1. JarOK(jar) /\ jar.target \in Snapshot /\ snapshots[from] \in Snapshot
    BY <1>0, <1>1 DEF MigrationTypes, JarOK, FilesOK
  <2> QED BY <2>1 DEF Snapshot
<1> DEFINE v == snapshots[from].entries[k]
           e == Put(jar.target.entries, k, v)
           written == [jar.target EXCEPT !.entries = e]
<1>3. /\ \/ jar' = [jar EXCEPT !.target = written] /\ todo' = todo \ {k}
            /\ UNCHANGED <<step, automatic, history>>
         \/ /\ jar' = [jar EXCEPT !.target = written] \/ jar' = jar
            /\ FailedWriting /\ todo' = {}
  BY DEF write_entry, WithOrWithout
<1>4. k \in DOMAIN snapshots[from].entries
  BY <1>0, <1>1 DEF ImportSound
<1>5. MigrationInv' /\ jar'.target.paused = jar.target.paused
  <2>1. v \in Contents
    BY <1>2, <1>4, StorageShape
  <2>2. e \in Storage
    <3> HIDE DEF v
    <3> QED BY <1>2, <2>1, PutStorage
  <2>3. written \in Snapshot /\ written.entries = e /\ written.paused = jar.target.paused
    <3> HIDE DEF e
    <3> QED BY <1>2, <2>2 DEF Snapshot
  <2> HIDE DEF written
  <2>4. JarOK(jar') /\ jar'.target.paused = jar.target.paused
    BY <1>2, <1>3, <2>3 DEF JarOK
  <2>5. CASE /\ jar' = [jar EXCEPT !.target = written] /\ todo' = todo \ {k}
             /\ UNCHANGED <<step, automatic, history>>
    <3>1. MigrationTypes'
      BY <1>0, <1>1, <2>4, <2>5 DEF MigrationTypes, exportVars
    <3>2. ReadingSound'
      BY <1>0, <1>1, <2>5 DEF ReadingSound, exportVars
    <3>3. jar'.target = written
      BY <1>2, <2>5 DEF JarOK
    <3>4. ASSUME jar'.target.paused, NEW x \in DOMAIN snapshots[from].entries \cap (Entry \ todo')
          PROVE  /\ x \in DOMAIN jar'.target.entries
                 /\ jar'.target.entries[x] = snapshots[from].entries[x]
      <4>1. jar'.target.entries = e
        BY <2>3, <3>3
      <4>2. CASE x = k
        BY <4>1, <4>2 DEF Put
      <4>3. CASE x # k
        <5>1. x \in DOMAIN snapshots[from].entries \cap (Entry \ todo) /\ jar.target.paused
          BY <2>4, <2>5, <3>4, <4>3
        <5>2. x \in DOMAIN jar.target.entries /\ jar.target.entries[x] = snapshots[from].entries[x]
          BY <1>0, <1>1, <5>1 DEF ImportSound, Arrived
        <5>3. x \in DOMAIN e /\ e[x] = jar.target.entries[x]
          BY <4>3, <5>2 DEF Put
        <5> QED BY <4>1, <5>2, <5>3
      <4> QED BY <4>2, <4>3
    <3>5. ImportSound'
      <4>1. todo' \subseteq DOMAIN snapshots[from].entries
        BY <1>0, <1>1, <2>5 DEF ImportSound
      <4> QED BY <1>1, <2>5, <3>4, <4>1 DEF ImportSound, Arrived
    <3> QED BY <2>4, <3>1, <3>2, <3>5, MigrationInvSplits, PTL
  <2>6. CASE FailedWriting /\ todo' = {}
    <3>1. /\ step' \in {"idle", "rollback"}
          /\ history' \in {Missing} \cup Seq({"DryRun", "RolledBack", "Success"})
      BY <1>0, <2>6, HistoryStep DEF FailedWriting, BeginRollback, EndRollback, MigrationTypes
    <3>2. MigrationTypes'
      BY <1>0, <1>1, <2>4, <2>6, <3>1 DEF MigrationTypes, exportVars
    <3>3. AtRest'
      BY <1>0, <1>1, <3>1 DEF AtRest, ReadingSound, exportVars
    <3> QED BY <2>4, <3>2, <3>3, MigrationInvSplits, RestIsSound, PTL
  <2> QED BY <1>3, <2>5, <2>6
<1> QED BY <1>5

\* The steps after the last write; only unpause_target changes a contract.
LEMMA FinalStep ==
  ASSUME MigrationInv, AllWritten \/ verify_migration \/ unpause_target
  PROVE  MigrationInv'
<1>0. MigrationTypes /\ ReadingSound /\ ImportSound
  BY MigrationInvSplits
<1>1. CASE AllWritten
  <2>1. /\ step = "writing" /\ todo = {}
        /\ step' = (IF from = "transformed" THEN "verify" ELSE "unpause")
        /\ UNCHANGED <<jar, fileVars, exportVars, importVars>>
    BY <1>1 DEF AllWritten, At
  <2>2. MigrationTypes' /\ ReadingSound'
    BY <1>0, <2>1 DEF MigrationTypes, ReadingSound, fileVars, exportVars, importVars
  <2>3. ImportSound'
    BY <1>0, <2>1 DEF ImportSound, Arrived, fileVars, importVars
  <2> QED BY <2>2, <2>3, MigrationInvSplits, PTL
<1>2. CASE verify_migration
  <2>1. /\ step = "verify" /\ step' \in {"unpause", "rollback"} /\ history' = history
        /\ UNCHANGED <<jar, snapshots, exportVars, from, todo>>
    BY <1>2 DEF verify_migration, At, BeginRollback
  <2>2. MigrationTypes' /\ ReadingSound'
    BY <1>0, <2>1 DEF MigrationTypes, ReadingSound, exportVars
  <2>3. ImportSound'
    BY <1>0, <2>1 DEF ImportSound, Arrived
  <2> QED BY <2>2, <2>3, MigrationInvSplits, PTL
<1>3. CASE unpause_target
  <2> DEFINE unpaused == [jar.target EXCEPT !.paused = FALSE]
  <2>1. /\ jar' = [jar EXCEPT !.target = unpaused] \/ jar' = jar
        /\ UNCHANGED <<snapshots, exportVars, from, todo>>
    BY <1>3 DEF unpause_target, WithOrWithout
  <2>2. JarOK(jar) /\ unpaused \in Snapshot
    <3>1. JarOK(jar) /\ jar.target \in Snapshot /\ FALSE \in BOOLEAN
      BY <1>0 DEF MigrationTypes, JarOK
    <3> QED BY <3>1 DEF Snapshot
  <2> HIDE DEF unpaused
  <2>3. JarOK(jar')
    BY <2>1, <2>2 DEF JarOK
  <2>4. /\ step' \in {"record", "idle"}
        /\ history' \in {Missing} \cup Seq({"DryRun", "RolledBack", "Success"})
    BY <1>0, <1>3, HistoryStep DEF unpause_target, EndRollback, MigrationTypes
  <2>5. MigrationTypes'
    BY <1>0, <2>1, <2>3, <2>4 DEF MigrationTypes, exportVars
  <2>6. AtRest'
    BY <1>0, <2>1, <2>4 DEF AtRest, ReadingSound, exportVars
  <2> QED BY <2>5, <2>6, MigrationInvSplits, RestIsSound, PTL
<1> QED BY <1>1, <1>2, <1>3

LEMMA MigrationInvStep ==
  MigrationInv /\ [MigrationNext]_migrationVars => MigrationInv'
<1> SUFFICES ASSUME MigrationInv, [MigrationNext]_migrationVars PROVE MigrationInv'
  OBVIOUS
<1>1. CASE UNCHANGED migrationVars
  BY <1>1 DEF migrationVars, MigrationInv, MigrationTypeOK, ReadingSound, ImportSound, Arrived
<1>2. CASE MigrationNext
  BY <1>2, CommandStep, UserStep, ReadStep, FinishStep, BeginStep, WriteStep, FinalStep, Zenon
     DEF MigrationNext
<1> QED BY <1>1, <1>2

\* Only unpause_target clears the target's pause flag, and by then all has arrived.
Complete ==
  jar.target.paused /\ ~jar'.target.paused =>
    \E f \in {"transformed", "backup"} :
      snapshots[f] # Missing /\ Landed(snapshots[f], jar'.target)

LEMMA UnpausedWhenComplete ==
  ASSUME MigrationInv, MigrationNext
  PROVE  Complete
<1> SUFFICES ASSUME jar.target.paused, ~jar'.target.paused
             PROVE  \E f \in {"transformed", "backup"} :
                      snapshots[f] # Missing /\ Landed(snapshots[f], jar'.target)
  BY DEF Complete
<1>0. MigrationTypes /\ ImportSound /\ JarOK(jar) /\ from \in {"transformed", "backup"}
  BY MigrationInvSplits DEF MigrationTypes
<1>1. CASE unpause_target
  <2> DEFINE unpaused == [jar.target EXCEPT !.paused = FALSE]
  <2>1. step = "unpause" /\ jar' = [jar EXCEPT !.target = unpaused]
    BY <1>1 DEF unpause_target, At, WithOrWithout
  <2>2. unpaused.entries = jar.target.entries
    BY <1>0 DEF JarOK, Snapshot
  <2> HIDE DEF unpaused
  <2>3. jar'.target = unpaused
    BY <1>0, <2>1 DEF JarOK
  <2>4. Arrived(from, Entry)
    BY <1>0, <2>1 DEF ImportSound
  <2>5. snapshots[from] # Missing /\ DOMAIN snapshots[from].entries \subseteq Entry
    <3>1. snapshots[from] # Missing /\ snapshots[from] \in Snapshot
      BY <1>0, <2>4 DEF Arrived, MigrationTypes, FilesOK
    <3>2. snapshots[from].entries \in Storage
      BY <3>1 DEF Snapshot
    <3> QED BY <3>1, <3>2, StorageShape
  <2>6. Landed(snapshots[from], jar'.target)
    BY <2>2, <2>3, <2>4, <2>5 DEF Arrived, Landed
  <2> QED BY <1>0, <2>5, <2>6
<1>2. ASSUME NEW c \in {"source", "target"}, NEW k \in Entry, NEW v \in {ZeroValue, Expired},
             user_call(c, k, v)
      PROVE  FALSE
  BY <1>2, UserStep
<1>3. ASSUME NEW k \in Entry, write_entry(k) PROVE FALSE
  BY <1>3, WriteStep
<1>4. CASE pause_target \/ rollback
  BY <1>4, BeginStep
<1>5. ASSUME UNCHANGED jar PROVE FALSE
  BY <1>5
<1>6. CASE run_export \/ finish_reading \/ give_up_reading \/ run_transform \/ run_import_dry
           \/ run_import \/ AllWritten \/ verify_migration \/ record_success \/ run_rollback
           \/ crash_migration \/ \E k \in Entry : read_entry(k)
  BY <1>5, <1>6 DEF run_export, finish_reading, give_up_reading, run_transform, run_import_dry,
     run_import, AllWritten, verify_migration, record_success, run_rollback, crash_migration,
     read_entry
<1> QED BY <1>1, <1>2, <1>3, <1>4, <1>6 DEF MigrationNext

-----------------------------------------------------------------------------
(* The programs beside one another *)

\* The invariant of all six programs.
CompanionsInv == ContractsInv /\ MonitorInv /\ BackupInv /\ MigrationInv

LEMMA CompanionSteps ==
  ASSUME [Next]_vars
  PROVE  [MonitorNext]_monitorVars /\ [BackupNext]_backupVars /\ [MigrationNext]_migrationVars
<1>1. CASE UNCHANGED vars
  BY <1>1, Zenon DEF vars
<1>2. CASE Next
  BY <1>2, Zenon DEF Next
<1> QED BY <1>1, <1>2

\* The inductive invariants of the six programs hold side by side in every behaviour
\* of the composed specification.
THEOREM CompanionsInvariant == Spec => []CompanionsInv
<1>1. Init => MonitorInv /\ BackupInv /\ MigrationInv
  <2>1. Init => MonitorInit /\ BackupInit /\ MigrationInit
    BY Zenon DEF Init
  <2> QED BY <2>1, MonitorInitially, BackupInitially, MigrationInitially
<1>2. MonitorInv /\ BackupInv /\ MigrationInv /\ [Next]_vars
        => (MonitorInv /\ BackupInv /\ MigrationInv)'
  BY CompanionSteps, MonitorInvStep, BackupInvStep, MigrationInvStep
<1>3. ContractsInv /\ MonitorInv /\ BackupInv /\ MigrationInv => CompanionsInv
  BY DEF CompanionsInv
<1> QED BY <1>1, <1>2, <1>3, ContractsInvariant, PTL DEF Spec

\* Every variable of the contracts and the tools keeps its type, the limiter's windows
\* and the backup directory their bounds among them.
THEOREM CompanionsTypeCorrect == Spec => []CompanionsTypeOK
<1>1. CompanionsInv => CompanionsTypeOK
  BY DEF CompanionsInv, ContractsInv, LimitInv, DerivInv, RiskInv, MonitorInv, BackupInv,
         MigrationInv, CompanionsTypeOK
<1> QED BY <1>1, CompanionsInvariant, PTL

\* However calls of check_transaction interleave at the monitor's locks, nobody
\* blacklisted all along is approved, the breaker is open at its threshold and announced
\* once, and no window admits more than max_tx and one for every other caller.
THEOREM MonitorIsSound == Spec => []MonitorHolds
<1>1. CompanionsInv => MonitorHolds
  BY MonitorInvHolds DEF CompanionsInv
<1> QED BY <1>1, CompanionsInvariant, PTL

\* Whatever changed, failed or crashed, a difference whose base is there gives back
\* exactly the entries that were fetched, and pruning keeps the newest backup.
THEOREM BackupsStayUsable == Spec => []BackupsUsable
<1>1. CompanionsInv => BackupsUsable
  BY BackupInvUsable DEF CompanionsInv
<1> QED BY <1>1, CompanionsInvariant, PTL

\* Users are let back into the target of a migration only with the whole snapshot, or
\* the whole backup, in it.
THEOREM NothingHalfImported == Spec => NeverHalfImported
<1>1. CompanionsInv /\ [Next]_vars => [Complete]_migrationVars
  BY CompanionSteps, UnpausedWhenComplete DEF CompanionsInv
<1> QED BY <1>1, CompanionsInvariant, PTL DEF Spec, NeverHalfImported, Complete
=============================================================================
