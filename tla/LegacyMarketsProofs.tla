------------------------- MODULE LegacyMarketsProofs ------------------------
(***************************************************************************)
(* Proofs about the markets, funds and rounds of the legacy tip jar: that  *)
(* the jar holds what its markets account for, and that what they hold     *)
(* covers every claim they honour, for every set of parties and tokens and *)
(* every value of the rates, units and bounds.                             *)
(***************************************************************************)
EXTENDS LegacyMarkets, SumTheorems

-----------------------------------------------------------------------------
\* What a step does to the account of the jar: v is w after x more of token t, or
\* after x more of t and y more of s.
Gets(w, v, t, x) ==
  /\ v \in Wallets
  /\ \A u \in Token : v[u][Jar] \in Int /\ v[u][Jar] = w[u][Jar] + (IF u = t THEN x ELSE 0)
GetsBoth(w, v, t, x, s, y) ==
  /\ v \in Wallets
  /\ \A u \in Token : /\ v[u][Jar] \in Int
                      /\ v[u][Jar] = w[u][Jar] + (IF u = t THEN x ELSE 0) + (IF u = s THEN y ELSE 0)

LEMMA JarsAccount ==
  ASSUME NEW w \in Wallets
  PROVE  \A u \in Token : w[u][Jar] \in Int
BY DEF Wallets, Account

LEMMA Transferred ==
  ASSUME NEW w \in Wallets, NEW t \in Token, NEW from \in Account, NEW to \in Account,
         NEW x \in Int
  PROVE  /\ Transfer(w, t, from, to, x) \in Wallets
         /\ \A u \in Token, a \in Account : Transfer(w, t, from, to, x)[u][a] =
              IF u # t THEN w[u][a]
              ELSE w[u][a] - (IF a = from THEN x ELSE 0) + (IF a = to THEN x ELSE 0)
<1> DEFINE row == w[t]
           new == [a \in Account |-> row[a] - (IF a = from THEN x ELSE 0)
                                            + (IF a = to THEN x ELSE 0)]
           v == [w EXCEPT ![t] = new]
<1>1. row \in [Account -> Int]
  BY DEF Wallets
<1>2. new \in [Account -> Int]
  BY <1>1
<1>3. Transfer(w, t, from, to, x) = v
  BY <1>1 DEF Transfer
<1>4. v \in Wallets /\ \A u \in Token : v[u] = IF u = t THEN new ELSE w[u]
  <2> HIDE DEF new
  <2> QED
    BY <1>2 DEF Wallets
<1> HIDE DEF v
<1>5. \A a \in Account : new[a] = w[t][a] - (IF a = from THEN x ELSE 0)
                                          + (IF a = to THEN x ELSE 0)
  OBVIOUS
<1> HIDE DEF new
<1> QED
  BY <1>3, <1>4, <1>5

LEMMA PaidIn ==
  ASSUME NEW w \in Wallets, NEW t \in Token, NEW p \in Party, NEW x \in Int
  PROVE  Gets(w, Transfer(w, t, p, Jar, x), t, x)
<1>1. p \in Account /\ Jar \in Account /\ p # Jar
  BY LedgerAssumption DEF Account
<1> DEFINE v == Transfer(w, t, p, Jar, x)
<1>2. /\ v \in Wallets
      /\ \A u \in Token, a \in Account : v[u][a] =
           IF u # t THEN w[u][a]
           ELSE w[u][a] - (IF a = p THEN x ELSE 0) + (IF a = Jar THEN x ELSE 0)
  BY <1>1, Transferred
<1> HIDE DEF v
<1>3. ASSUME NEW u \in Token PROVE v[u][Jar] = w[u][Jar] + (IF u = t THEN x ELSE 0)
  BY <1>1, <1>2, JarsAccount
<1> QED
  BY <1>2, <1>3, JarsAccount DEF v, Gets

LEMMA PaidOutOf ==
  ASSUME NEW w \in Wallets, NEW t \in Token, NEW p \in Party, NEW x \in Int
  PROVE  Gets(w, Transfer(w, t, Jar, p, x), t, -x)
<1>1. p \in Account /\ Jar \in Account /\ p # Jar
  BY LedgerAssumption DEF Account
<1> DEFINE v == Transfer(w, t, Jar, p, x)
<1>2. /\ v \in Wallets
      /\ \A u \in Token, a \in Account : v[u][a] =
           IF u # t THEN w[u][a]
           ELSE w[u][a] - (IF a = Jar THEN x ELSE 0) + (IF a = p THEN x ELSE 0)
  BY <1>1, Transferred
<1> HIDE DEF v
<1>3. ASSUME NEW u \in Token PROVE v[u][Jar] = w[u][Jar] + (IF u = t THEN -x ELSE 0)
  BY <1>1, <1>2, JarsAccount
<1> QED
  BY <1>2, <1>3, JarsAccount DEF v, Gets

LEMMA GetsTwice ==
  ASSUME NEW w \in Wallets, NEW v, NEW z, NEW t, NEW s, NEW x \in Int, NEW y \in Int,
         Gets(w, v, t, x), Gets(v, z, s, y)
  PROVE  GetsBoth(w, z, t, x, s, y)
<1> SUFFICES ASSUME NEW u \in Token
             PROVE  /\ z[u][Jar] \in Int
                    /\ z[u][Jar] = w[u][Jar] + (IF u = t THEN x ELSE 0) + (IF u = s THEN y ELSE 0)
  BY DEF Gets, GetsBoth
<1> QED
  BY JarsAccount DEF Gets

\* Two transfers to or from the jar, one after the other.
LEMMA PaidBothIn ==
  ASSUME NEW w \in Wallets, NEW t \in Token, NEW s \in Token, NEW p \in Party,
         NEW x \in Int, NEW y \in Int
  PROVE  GetsBoth(w, Transfer(Transfer(w, t, p, Jar, x), s, p, Jar, y), t, x, s, y)
<1> DEFINE v == Transfer(w, t, p, Jar, x)
<1>1. Gets(w, v, t, x) /\ v \in Wallets
  BY PaidIn DEF Gets
<1> HIDE DEF v
<1>2. Gets(v, Transfer(v, s, p, Jar, y), s, y)
  BY <1>1, PaidIn
<1> QED
  BY <1>1, <1>2, GetsTwice DEF v
LEMMA PaidBothOut ==
  ASSUME NEW w \in Wallets, NEW t \in Token, NEW s \in Token, NEW p \in Party, NEW q \in Party,
         NEW x \in Int, NEW y \in Int
  PROVE  GetsBoth(w, Transfer(Transfer(w, t, Jar, p, x), s, Jar, q, y), t, -x, s, -y)
<1> DEFINE v == Transfer(w, t, Jar, p, x)
<1>1. Gets(w, v, t, -x) /\ v \in Wallets
  BY PaidOutOf DEF Gets
<1> HIDE DEF v
<1>2. Gets(v, Transfer(v, s, Jar, q, y), s, -y)
  BY <1>1, PaidOutOf
<1>3. -x \in Int /\ -y \in Int
  OBVIOUS
<1> QED
  BY <1>1, <1>2, <1>3, GetsTwice DEF v
LEMMA PaidInAndOut ==
  ASSUME NEW w \in Wallets, NEW t \in Token, NEW s \in Token, NEW p \in Party,
         NEW x \in Int, NEW y \in Int
  PROVE  GetsBoth(w, Transfer(Transfer(w, t, p, Jar, x), s, Jar, p, y), t, x, s, -y)
<1> DEFINE v == Transfer(w, t, p, Jar, x)
<1>1. Gets(w, v, t, x) /\ v \in Wallets
  BY PaidIn DEF Gets
<1> HIDE DEF v
<1>2. Gets(v, Transfer(v, s, Jar, p, y), s, -y)
  BY <1>1, PaidOutOf
<1>3. -y \in Int
  OBVIOUS
<1> QED
  BY <1>1, <1>2, <1>3, GetsTwice DEF v

\* Nothing is paid.
LEMMA NothingPaid ==
  ASSUME wallet \in Wallets, wallet' = wallet, NEW t \in Token
  PROVE  Gets(wallet, wallet', t, 0)
BY JarsAccount DEF Gets

-----------------------------------------------------------------------------
\* One entry of a list changes, or one is added; the sum of what the entries are worth
\* follows.
LEMMA SeqUpdated ==
  ASSUME NEW S, NEW s \in Seq(S), NEW i \in DOMAIN s, NEW e \in S
  PROVE  /\ [s EXCEPT ![i] = e] \in Seq(S)
         /\ DOMAIN [s EXCEPT ![i] = e] = DOMAIN s /\ DOMAIN s = 1 .. Len(s)
         /\ Len([s EXCEPT ![i] = e]) = Len(s)
         /\ \A j \in DOMAIN s : [s EXCEPT ![i] = e][j] = IF j = i THEN e ELSE s[j]
OBVIOUS

LEMMA SeqAppended ==
  ASSUME NEW S, NEW s \in Seq(S), NEW e \in S
  PROVE  /\ Append(s, e) \in Seq(S)
         /\ DOMAIN s = 1 .. Len(s) /\ DOMAIN Append(s, e) = 1 .. Len(s) + 1
         /\ Len(Append(s, e)) = Len(s) + 1 /\ Len(s) \in Nat
         /\ \A j \in DOMAIN s : Append(s, e)[j] = s[j]
         /\ Append(s, e)[Len(s) + 1] = e
OBVIOUS

LEMMA FiniteList ==
  ASSUME NEW S, NEW s \in Seq(S)
  PROVE  IsFiniteSet(DOMAIN s)
<1>1. DOMAIN s = 1 .. Len(s) /\ Len(s) \in Nat
  OBVIOUS
<1> QED BY <1>1, FS_Interval

\* f is what the entries of s are worth.
Worth(s, H) == SumFunction([i \in DOMAIN s |-> H[s[i]]])

LEMMA WorthType ==
  ASSUME NEW S, NEW s \in Seq(S), NEW H \in [S -> Int]
  PROVE  Worth(s, H) \in Int
<1>1. [i \in DOMAIN s |-> H[s[i]]] \in [DOMAIN s -> Int]
  OBVIOUS
<1> QED BY <1>1, FiniteList, SumType DEF Worth

LEMMA WorthUpdated ==
  ASSUME NEW S, NEW s \in Seq(S), NEW H \in [S -> Int], NEW i \in DOMAIN s, NEW e \in S
  PROVE  Worth([s EXCEPT ![i] = e], H) = Worth(s, H) + H[e] - H[s[i]]
<1> DEFINE r == [s EXCEPT ![i] = e]
           f == [j \in DOMAIN s |-> H[s[j]]]
           g == [j \in DOMAIN r |-> H[r[j]]]
<1>1. /\ r \in Seq(S) /\ DOMAIN r = DOMAIN s
      /\ \A j \in DOMAIN s : r[j] = IF j = i THEN e ELSE s[j]
  BY SeqUpdated
<1> HIDE DEF r
<1>2. \A j \in DOMAIN s : s[j] \in S /\ r[j] \in S
  BY <1>1
<1>3. f \in [DOMAIN s -> Int] /\ g \in [DOMAIN s -> Int]
  BY <1>1, <1>2
<1>4. /\ \A j \in DOMAIN s \ {i} : g[j] = f[j]
      /\ g[i] = H[e] /\ f[i] = H[s[i]]
  BY <1>1
<1>f. IsFiniteSet(DOMAIN s)
  BY FiniteList
<1> DEFINE D == DOMAIN s
<1> HIDE DEF f, g, D
<1>5. SumFunction(g) = SumFunction(f) + g[i] - f[i]
  <2>1. IsFiniteSet(D) /\ Alters(D, f, g, i)
    BY <1>3, <1>4, <1>f DEF Alters, D
  <2> QED BY <2>1, SumAltered
<1> QED BY <1>4, <1>5 DEF Worth, f, g, r

LEMMA WorthAppended ==
  ASSUME NEW S, NEW s \in Seq(S), NEW H \in [S -> Int], NEW e \in S
  PROVE  Worth(Append(s, e), H) = Worth(s, H) + H[e]
<1> DEFINE r == Append(s, e)
           n == Len(s)
           f == [j \in DOMAIN s |-> H[s[j]]]
           g == [j \in DOMAIN r |-> H[r[j]]]
<1>1. /\ r \in Seq(S) /\ n \in Nat /\ DOMAIN s = 1 .. n /\ DOMAIN r = 1 .. n + 1
      /\ \A j \in DOMAIN s : r[j] = s[j]
      /\ r[n + 1] = e
  BY SeqAppended
<1> HIDE DEF r, n
<1>2. (\A j \in DOMAIN s : s[j] \in S) /\ (\A j \in DOMAIN r : r[j] \in S)
  BY <1>1
<1>3. f \in [1 .. n -> Int] /\ g \in [1 .. n + 1 -> Int]
  BY <1>1, <1>2
<1>4. (\A j \in 1 .. n : g[j] = f[j]) /\ g[n + 1] = H[e]
  <2>1. n + 1 \in DOMAIN r /\ \A j \in 1 .. n : j \in DOMAIN r /\ j \in DOMAIN s
    BY <1>1
  <2> QED BY <1>1, <2>1
<1> HIDE DEF f, g
<1>5. SumFunction(g) = SumFunction(f) + g[n + 1]
  BY <1>1, <1>3, <1>4, SumAppend
<1> QED BY <1>4, <1>5 DEF Worth, f, g, r

\* Products and quotients of naturals.
LEMMA Product ==
  ASSUME NEW a \in Nat, NEW b \in Nat
  PROVE  a * b \in Nat
OBVIOUS
LEMMA Portion ==
  ASSUME NEW a \in Nat, NEW u \in Nat \ {0}
  PROVE  a \div u \in Nat /\ u * (a \div u) <= a
OBVIOUS

-----------------------------------------------------------------------------
\* The integer root.  Newton's iteration from n down is defined by recursion; it has a
\* solution, and all its values are positive.
NewtonStep(g, n, x) == LET y == (x + n \div x) \div 2 IN IF y < x THEN g[y] ELSE x
Newton(n) == CHOOSE g : g = [x \in 1 .. n |-> NewtonStep(g, n, x)]
NewtonUpTo(n, m) ==
  \E g \in [1 .. m -> Nat \ {0}] : \A x \in 1 .. m : g[x] = NewtonStep(g, n, x)

LEMMA NewtonExists ==
  ASSUME NEW n \in Nat, n > 0
  PROVE  NewtonUpTo(n, n)
<1>1. ASSUME NEW x \in 1 .. n
      PROVE  (x + n \div x) \div 2 \in Nat \ {0}
  <2>1. x \in Nat \ {0} /\ 1 * x <= n
    OBVIOUS
  <2>2. n \div x >= 1 /\ n \div x \in Nat
    BY <2>1
  <2> DEFINE d == n \div x
  <2> HIDE DEF d
  <2>3. d >= 1 /\ d \in Nat
    BY <2>2 DEF d
  <2>4. (x + d) \div 2 \in Nat \ {0}
    BY <2>1, <2>3
  <2> QED BY <2>4 DEF d
<1> DEFINE T == {m \in 0 .. n : ~NewtonUpTo(n, m)}
<1>2. NewtonUpTo(n, 0)
  <2> DEFINE g == [x \in 1 .. 0 |-> 1]
  <2>1. g \in [1 .. 0 -> Nat \ {0}]
    OBVIOUS
  <2> HIDE DEF g
  <2>2. 1 .. 0 = {}
    OBVIOUS
  <2> QED BY <2>1, <2>2 DEF NewtonUpTo
<1>3. ASSUME NEW m \in 0 .. n, m + 1 \in 0 .. n, NewtonUpTo(n, m)
      PROVE  NewtonUpTo(n, m + 1)
  <2>1. PICK g \in [1 .. m -> Nat \ {0}] : \A x \in 1 .. m : g[x] = NewtonStep(g, n, x)
    BY <1>3 DEF NewtonUpTo
  <2> DEFINE k == m + 1
             h == [x \in 1 .. k |-> IF x = k THEN NewtonStep(g, n, k) ELSE g[x]]
             Y(x) == (x + n \div x) \div 2
  <2>2. k \in 1 .. n /\ k \in Nat \ {0} /\ \A x \in 1 .. k : x = k \/ x \in 1 .. m
    BY <1>3
  <2>3. \A x \in 1 .. k : Y(x) \in Nat \ {0} /\ (Y(x) < x => Y(x) \in 1 .. m)
    <3>1. ASSUME NEW x \in 1 .. k PROVE Y(x) \in Nat \ {0} /\ (Y(x) < x => Y(x) \in 1 .. m)
      <4>1. Y(x) \in Nat \ {0}
        BY <1>1, <2>2
      <4> HIDE DEF Y
      <4> QED BY <2>2, <4>1
    <3> QED BY <3>1
  <2>4. \A f, x : NewtonStep(f, n, x) = IF Y(x) < x THEN f[Y(x)] ELSE x
    BY DEF NewtonStep
  <2> HIDE DEF Y
  <2>5. NewtonStep(g, n, k) \in Nat \ {0}
    BY <2>1, <2>2, <2>3, <2>4
  <2>6. h \in [1 .. k -> Nat \ {0}]
    BY <2>1, <2>2, <2>5
  <2>7. ASSUME NEW x \in 1 .. k PROVE h[x] = NewtonStep(h, n, x)
    <3>1. h[x] = NewtonStep(g, n, x)
      BY <2>1, <2>2
    <3>2. Y(x) < x => h[Y(x)] = g[Y(x)]
      <4>1. \A y \in 1 .. m : y \in 1 .. k /\ y # k
        BY <2>2
      <4> QED BY <2>3, <4>1
    <3> HIDE DEF h
    <3> QED BY <2>4, <3>1, <3>2
  <2> HIDE DEF h, k
  <2>8. NewtonUpTo(n, k)
    BY <2>6, <2>7 DEF NewtonUpTo
  <2> QED BY <2>8 DEF k
<1>4. ASSUME T # {} PROVE FALSE
  <2>1. PICK m \in T : \A k \in T : m <= k
    <3>1. T \in SUBSET Nat
      OBVIOUS
    <3> HIDE DEF T
    <3> QED BY <1>4, <3>1, LeastNat
  <2>2. m # 0
    BY <1>2, <2>1
  <2> DEFINE j == m - 1
  <2>3. j \in 0 .. n /\ j + 1 = m /\ j + 1 \in 0 .. n /\ j \notin T
    BY <2>1, <2>2
  <2> HIDE DEF j
  <2> QED BY <1>3, <2>1, <2>3
<1> QED BY <1>4

LEMMA RootType ==
  ASSUME NEW n \in Int
  PROVE  isqrt(n) \in Nat /\ (isqrt(n) > 0 <=> n > 0)
<1>1. n <= 0 => isqrt(n) = 0
  BY DEF isqrt
<1>2. CASE n > 0
  <2>1. isqrt(n) = Newton(n)[n]
    BY <1>2 DEF isqrt, Newton, NewtonStep
  <2>2. n \in Nat
    BY <1>2
  <2>3. PICK g \in [1 .. n -> Nat \ {0}] : \A x \in 1 .. n : g[x] = NewtonStep(g, n, x)
    BY <1>2, <2>2, NewtonExists DEF NewtonUpTo
  <2>4. g = [x \in 1 .. n |-> NewtonStep(g, n, x)]
    BY <2>3
  <2> DEFINE f == Newton(n)
  <2>5. f = [x \in 1 .. n |-> NewtonStep(f, n, x)]
    BY <2>4 DEF Newton
  <2>6. ASSUME NEW m \in 1 .. n, \A k \in 1 .. n : k < m => f[k] = g[k]
        PROVE  f[m] = g[m]
    <3> DEFINE y == (m + n \div m) \div 2
    <3>1. f[m] = NewtonStep(f, n, m) /\ g[m] = NewtonStep(g, n, m)
      BY <2>3, <2>5
    <3>2. \A h : NewtonStep(h, n, m) = IF y < m THEN h[y] ELSE m
      BY DEF NewtonStep
    <3>3. y \in Nat \ {0}
      <4>1. m \in Nat \ {0} /\ 1 * m <= n
        OBVIOUS
      <4>2. n \div m >= 1 /\ n \div m \in Nat
        BY <2>2, <4>1
      <4> DEFINE d == n \div m
      <4> HIDE DEF d
      <4>3. d >= 1 /\ d \in Nat
        BY <4>2 DEF d
      <4>4. (m + d) \div 2 \in Nat \ {0}
        BY <4>1, <4>3
      <4> QED BY <4>4 DEF d
    <3> HIDE DEF y, f
    <3>4. y < m => y \in 1 .. n
      BY <3>3
    <3> QED BY <2>6, <3>1, <3>2, <3>4
  <2> HIDE DEF f
  <2> DEFINE T == {m \in 1 .. n : f[m] # g[m]}
  <2>7. ASSUME T # {} PROVE FALSE
    <3>1. T \in SUBSET Nat
      OBVIOUS
    <3>2. PICK m \in T : \A k \in T : m <= k
      <4> HIDE DEF T
      <4> QED BY <2>7, <3>1, LeastNat
    <3>3. m \in 1 .. n /\ \A k \in 1 .. n : k < m => f[k] = g[k]
      BY <3>2
    <3> QED BY <2>6, <3>2, <3>3
  <2>8. f[n] = g[n] /\ g[n] \in Nat \ {0}
    BY <1>2, <2>3, <2>7
  <2> QED BY <1>2, <2>1, <2>8 DEF f
<1> QED BY <1>1, <1>2

-----------------------------------------------------------------------------
(* Pools of two tokens *)

LEMMA ProductOrder ==
  ASSUME NEW a \in Nat, NEW b \in Nat, NEW c \in Nat, NEW d \in Nat, a <= b, c <= d
  PROVE  a * c <= b * d
<1>1. (b - a) * c >= 0 /\ b * (d - c) >= 0
  <2>1. b - a \in Nat /\ d - c \in Nat
    OBVIOUS
  <2> QED BY <2>1, Product
<1>2. (b - a) * c = b * c - a * c /\ b * (d - c) = b * d - b * c
  OBVIOUS
<1>3. a * c \in Int /\ b * c \in Int /\ b * d \in Int
  OBVIOUS
<1> QED BY <1>1, <1>2, <1>3

\* An output below the reserve, at which the product of the reserves does not fall.
LEMMA SwapKeeps ==
  ASSUME NEW in \in Nat, NEW out \in Nat, in > 0, out > 0, NEW a \in Nat, NEW x \in Nat, a > 0, a <= x,
         NEW y, y = (a * out) \div (in + a)
  PROVE  y \in Nat /\ y < out /\ (in + x) * (out - y) >= in * out
<1> DEFINE s == in + a
           e == a * out
<1>1. s \in Nat \ {0} /\ e \in Nat
  BY Product
<1>2. y \in Nat /\ s * y <= e
  <2> HIDE DEF s, e
  <2>1. e \div s \in Nat /\ s * (e \div s) <= e
    BY <1>1, Portion
  <2>2. y = e \div s
    BY DEF s, e
  <2> QED BY <2>1, <2>2
<1>3. e + in * out = s * out /\ in * out \in Nat
  BY Product
<1>4. in * out > 0
  BY <1>3
<1>5. y < out
  <2> SUFFICES ASSUME out <= y PROVE FALSE
    BY <1>2
  <2>1. s * out <= s * y
    BY <1>1, <1>2, ProductOrder
  <2>2. s * out \in Int /\ s * y \in Int
    BY <1>1, <1>2
  <2> HIDE DEF s, e
  <2> QED BY <1>1, <1>2, <1>3, <1>4, <2>1, <2>2
<1>6. s * (out - y) >= in * out
  <2>1. s * (out - y) = s * out - s * y
    <3> HIDE DEF s
    <3> QED BY <1>1, <1>2
  <2>2. s * out \in Int /\ s * y \in Int
    BY <1>1, <1>2
  <2> HIDE DEF s, e
  <2> QED BY <1>1, <1>2, <1>3, <2>1, <2>2
<1>7. (in + x) * (out - y) >= s * (out - y)
  <2>1. in + x \in Nat /\ s <= in + x /\ out - y \in Nat
    BY <1>1, <1>2, <1>5
  <2>2. s * (out - y) <= (in + x) * (out - y)
    BY <1>1, <2>1, ProductOrder
  <2> QED BY <1>1, <2>1, <2>2
<1>8. (in + x) * (out - y) \in Int /\ s * (out - y) \in Int
  BY <1>1, <1>2
<1> HIDE DEF s
<1> QED BY <1>2, <1>3, <1>5, <1>6, <1>7, <1>8

\* Two reserves a and b that become c and d while total t becomes s, each by at least
\* the share.
LEMMA BothKept ==
  ASSUME NEW a \in Nat, NEW b \in Nat, NEW c \in Nat, NEW d \in Nat, NEW t \in Nat, NEW s \in Nat,
         c * t >= a * s, d * t >= b * s
  PROVE  c * d * t * t >= a * b * s * s
<1>1. a * s \in Nat /\ b * s \in Nat /\ c * t \in Nat /\ d * t \in Nat
  BY Product
<1>2. (a * s) * (b * s) <= (c * t) * (d * t)
  BY <1>1, ProductOrder
<1>3. (a * s) * (b * s) = a * b * s * s /\ (c * t) * (d * t) = c * d * t * t
  OBVIOUS
<1> QED BY <1>2, <1>3

LEMMA MintKeeps ==
  ASSUME NEW r \in Nat, NEW x \in Nat, NEW t \in Nat, NEW k \in Nat, r * k <= x * t
  PROVE  (r + x) * t >= r * (t + k)
<1>1. (r + x) * t = r * t + x * t /\ r * (t + k) = r * t + r * k
  OBVIOUS
<1>2. r * t \in Int /\ x * t \in Int /\ r * k \in Int
  OBVIOUS
<1> QED BY <1>1, <1>2

LEMMA BurnKeeps ==
  ASSUME NEW r \in Nat, NEW t \in Nat \ {0}, NEW n \in Nat, n <= t, NEW x, x = (n * r) \div t
  PROVE  /\ x \in 0 .. r /\ (r - x) * t >= r * (t - n)
         /\ r > 0 /\ n < t => x < r
         /\ n = t => x = r
<1>1. n * r \in Nat
  BY Product
<1>2. x \in Nat /\ t * x <= n * r
  <2> DEFINE e == n * r
  <2> HIDE DEF e
  <2>1. e \in Nat /\ x = e \div t
    BY <1>1 DEF e
  <2>2. x \in Nat /\ t * x <= e
    BY <2>1, Portion
  <2> QED BY <2>2 DEF e
<1>3. (r - x) * t = r * t - t * x /\ r * (t - n) = r * t - n * r
  BY <1>2
<1>4. r * t \in Int /\ t * x \in Int /\ t * r = r * t
  BY <1>2
<1>5. x > r => FALSE
  <2> SUFFICES ASSUME x > r PROVE FALSE
    OBVIOUS
  <2>1. t * (r + 1) <= t * x
    BY <1>2, ProductOrder
  <2>2. n * r <= t * r
    BY ProductOrder
  <2>3. t * (r + 1) = t * r + t
    OBVIOUS
  <2> QED BY <1>1, <1>2, <1>4, <2>1, <2>2, <2>3
<1>6. r > 0 /\ n < t => x < r
  <2> SUFFICES ASSUME r > 0, n < t, x >= r PROVE FALSE
    BY <1>2
  <2>1. t * r <= t * x
    BY <1>2, ProductOrder
  <2>2. (n + 1) * r <= t * r
    BY ProductOrder
  <2>3. (n + 1) * r = n * r + r
    OBVIOUS
  <2> QED BY <1>1, <1>2, <1>4, <2>1, <2>2, <2>3
<1>7. n = t => x = r
  <2> SUFFICES ASSUME n = t PROVE x = r
    OBVIOUS
  <2>1. (t * r) \div t = r
    OBVIOUS
  <2> QED BY <2>1
<1>8. (r - x) * t >= r * (t - n)
  BY <1>1, <1>2, <1>3, <1>4
<1> QED BY <1>2, <1>5, <1>6, <1>7, <1>8

\* What the calls do: a pool is written or added, with the tokens for it.
PoolKept(m, n) ==
  n.total > 0 => n.ra * n.rb * m.total * m.total >= m.ra * m.rb * n.total * n.total
PoolPaid(m, n) ==
  \A t \in Token : wallet'[t][Jar] = wallet[t][Jar] + PoolHolds(n, t) - PoolHolds(m, t)
PoolWritten(i, n) ==
  /\ pools' = [pools EXCEPT ![i] = n]
  /\ wallet' \in Wallets
  /\ n \in Pool /\ PoolSound(n) /\ PoolKept(pools[i], n) /\ PoolPaid(pools[i], n)
PoolOpened(n) ==
  /\ pools' = Append(pools, n)
  /\ wallet' \in Wallets
  /\ n \in Pool /\ PoolSound(n)
  /\ \A t \in Token : wallet'[t][Jar] = wallet[t][Jar] + PoolHolds(n, t)

LEMMA SharesMoved ==
  ASSUME NEW s \in [Party -> Nat], NEW p \in Party, NEW k \in Int, s[p] + k \in Nat
  PROVE  /\ [s EXCEPT ![p] = s[p] + k] \in [Party -> Nat]
         /\ SumFunction(s) \in Nat /\ s[p] <= SumFunction(s)
         /\ SumFunction([s EXCEPT ![p] = s[p] + k]) = SumFunction(s) + k
<1> DEFINE r == [s EXCEPT ![p] = s[p] + k]
<1>1. r \in [Party -> Nat] /\ r[p] = s[p] + k /\ \A q \in Party \ {p} : r[q] = s[q]
  OBVIOUS
<1> HIDE DEF r
<1>2. Alters(Party, s, r, p)
  BY <1>1 DEF Alters
<1>3. SumFunction(r) = SumFunction(s) + r[p] - s[p]
  BY <1>2, LedgerAssumption, SumAltered
<1>4. SumFunction(s) \in Nat /\ s[p] <= SumFunction(s)
  BY LedgerAssumption, SumNat, SumBoundsSummand
<1> QED BY <1>1, <1>3, <1>4 DEF r

\* A pool with other reserves, and with other shares.
Reserved(m, ra, rb, total) == [m EXCEPT !.ra = ra, !.rb = rb, !.total = total]
Provided(m, sh, db) == [m EXCEPT !.shares = sh, !.debt = db]
HasReserves(h, m, ra, rb, total) ==
  /\ h \in Pool /\ h.a = m.a /\ h.b = m.b /\ h.ra = ra /\ h.rb = rb /\ h.total = total
  /\ h.shares = m.shares /\ h.rewarded = m.rewarded /\ h.accum = m.accum
HasProviders(h, m, sh) ==
  /\ h \in Pool /\ h.a = m.a /\ h.b = m.b /\ h.ra = m.ra /\ h.rb = m.rb /\ h.total = m.total
  /\ h.shares = sh /\ h.rewarded = m.rewarded
LEMMA PoolReserved ==
  ASSUME NEW m \in Pool, NEW ra \in Nat, NEW rb \in Nat, NEW total \in Nat
  PROVE  HasReserves(Reserved(m, ra, rb, total), m, ra, rb, total)
BY DEF Pool, Reserved, HasReserves
LEMMA PoolProvided ==
  ASSUME NEW m \in Pool, NEW sh \in [Party -> Nat], NEW db \in [Party -> Nat]
  PROVE  HasProviders(Provided(m, sh, db), m, sh)
BY DEF Pool, Provided, HasProviders

LEMMA PoolCreated ==
  ASSUME AmmInv, wallet \in Wallets, NEW p \in Party, NEW a \in Token, NEW b \in Token,
         NEW x \in Nat, NEW y \in Nat, NEW fee \in Nat, create_pool(p, a, b, x, y, fee)
  PROVE  \E n \in Pool : PoolOpened(n)
<1> DEFINE k == isqrt(x * y)
           sh == [PerParty(0) EXCEPT ![p] = k]
           db == PerParty(0)
           n == [a |-> a, b |-> b, ra |-> x, rb |-> y, total |-> k, fee |-> fee, accum |-> 0,
                 shares |-> sh, debt |-> db, rewarded |-> 0]
<1>1. /\ pools' = Append(pools, n)
      /\ wallet' = Transfer(Transfer(wallet, a, p, Jar, x), b, p, Jar, y)
      /\ x > 0 /\ y > 0 /\ a # b
  BY AmmAssumption DEF create_pool, PayBoth
<1>2. k \in Nat /\ k > 0
  <2>1. x * y \in Nat /\ x * y > 0
    <3>1. 1 * 1 <= x * y
      BY <1>1, ProductOrder
    <3> QED BY <3>1, Product
  <2> QED BY <2>1, RootType
<1> HIDE DEF k
<1>3. sh \in [Party -> Nat] /\ SumFunction(sh) = k /\ db \in [Party -> Nat]
  <2> DEFINE z == PerParty(0)
  <2>1. z \in [Party -> Nat] /\ z[p] = 0 /\ \A q \in Party : z[q] = 0
    BY DEF PerParty
  <2>2. SumFunction(z) = 0
    <3> HIDE DEF z
    <3>1. z \in [Party -> Int]
      BY <2>1
    <3> QED BY <2>1, <3>1, LedgerAssumption, SumZero
  <2> HIDE DEF z
  <2>3. [z EXCEPT ![p] = z[p] + k] \in [Party -> Nat] /\ SumFunction([z EXCEPT ![p] = z[p] + k]) = 0 + k
    <3>1. z[p] + k \in Nat /\ k \in Int
      BY <1>2, <2>1
    <3> QED BY <2>1, <2>2, <3>1, SharesMoved
  <2>4. [z EXCEPT ![p] = z[p] + k] = [z EXCEPT ![p] = k]
    BY <1>2, <2>1
  <2> QED BY <1>2, <2>1, <2>3, <2>4 DEF z
<1> HIDE DEF sh, db
<1>4. n \in Pool /\ PoolSound(n)
  BY <1>1, <1>2, <1>3 DEF Pool, PoolSound
<1>5. GetsBoth(wallet, wallet', a, x, b, y)
  BY <1>1, PaidBothIn
<1>6. /\ n.a = a /\ n.b = b /\ n.ra = x /\ n.rb = y /\ n.rewarded = 0
  OBVIOUS
<1> HIDE DEF n
<1>7. ASSUME NEW t \in Token PROVE wallet'[t][Jar] = wallet[t][Jar] + PoolHolds(n, t)
  BY <1>1, <1>5, <1>6, JarsAccount DEF GetsBoth, PoolHolds
<1>8. wallet' \in Wallets
  BY <1>5 DEF GetsBoth
<1> QED BY <1>1, <1>4, <1>7, <1>8 DEF PoolOpened

LEMMA LiquidityAdded ==
  ASSUME AmmInv, wallet \in Wallets, NEW p \in Party, NEW i \in DOMAIN pools,
         NEW x \in Nat, NEW y \in Nat, add_liquidity(i, p, x, y)
  PROVE  \E n \in Pool : PoolWritten(i, n)
<1> DEFINE m == pools[i]
           in == Matched(m, x, y)
           u == in[1]
           v == in[2]
           k == Minted(m, u, v)
           sh == [m.shares EXCEPT ![p] = m.shares[p] + k]
           db == [m.debt EXCEPT ![p] = m.accum]
           ra == m.ra + u
           rb == m.rb + v
           total == m.total + k
           h == Reserved(m, ra, rb, total)
           n == Provided(h, sh, db)
<1>1. /\ k > 0
      /\ pools' = [pools EXCEPT ![i] = n]
      /\ wallet' = Transfer(Transfer(wallet, m.a, p, Jar, u), m.b, p, Jar, v)
  BY DEF add_liquidity, PayBoth, Reserved, Provided
<1>2. m \in Pool /\ PoolSound(m)
  BY DEF AmmInv
<1> HIDE DEF m
<1>3. /\ m.a \in Token /\ m.b \in Token /\ m.ra \in Nat /\ m.rb \in Nat /\ m.total \in Nat
      /\ m.accum \in Nat /\ m.shares \in [Party -> Nat] /\ m.debt \in [Party -> Nat]
      /\ m.rewarded \in Int
  BY <1>2 DEF Pool
<1>4. /\ u \in Nat /\ v \in Nat /\ k \in Nat
      /\ (m.total = 0 => u > 0 /\ v > 0)
      /\ (m.total > 0 => m.ra * k <= u * m.total /\ m.rb * k <= v * m.total)
  <2>1. CASE m.total = 0
    <3>1. u = x /\ v = y /\ k = isqrt(x * y)
      BY <2>1 DEF Matched, Minted
    <3>2. x * y \in Nat
      BY Product
    <3>3. k \in Nat /\ x * y > 0
      BY <1>1, <3>1, <3>2, RootType
    <3>4. x # 0 /\ y # 0
      BY <3>3
    <3> QED BY <2>1, <3>1, <3>3, <3>4
  <2>2. CASE m.total > 0
    <3>1. m.ra > 0 /\ m.rb > 0
      BY <1>2, <1>3, <2>2 DEF PoolSound
    <3>2. u \in Nat /\ v \in Nat
      <4> DEFINE c == (x * m.rb) \div m.ra
                 d == (y * m.ra) \div m.rb
      <4>1. c \in Nat /\ d \in Nat
        <5>1. x * m.rb \in Nat /\ y * m.ra \in Nat
          BY <1>3, Product
        <5> QED BY <1>3, <3>1, <5>1, Portion
      <4>2. in = IF c <= y THEN <<x, c>> ELSE <<d, y>>
        BY <2>2 DEF Matched
      <4> HIDE DEF c, d, in
      <4> QED BY <4>1, <4>2
    <3> DEFINE e == (u * m.total) \div m.ra
               f == (v * m.total) \div m.rb
    <3>3. /\ e \in Nat /\ m.ra * e <= u * m.total
          /\ f \in Nat /\ m.rb * f <= v * m.total
      <4> DEFINE g == u * m.total
                 j == v * m.total
                 a == m.ra
                 b == m.rb
      <4>1. g \in Nat /\ j \in Nat /\ a \in Nat \ {0} /\ b \in Nat \ {0}
        BY <1>3, <3>1, <3>2, Product
      <4> HIDE DEF g, j, a, b
      <4>2. g \div a \in Nat /\ a * (g \div a) <= g
        BY ONLY <4>1, Portion
      <4>3. j \div b \in Nat /\ b * (j \div b) <= j
        BY ONLY <4>1, Portion
      <4> QED BY <4>2, <4>3 DEF g, j, a, b
    <3>4. k = Smaller(e, f)
      BY <2>2 DEF Minted
    <3> HIDE DEF u, v, k, e, f
    <3>5. k \in Nat /\ k <= e /\ k <= f
      BY <3>3, <3>4 DEF Smaller
    <3>6. m.ra * k <= m.ra * e /\ m.rb * k <= m.rb * f
      BY <1>3, <3>3, <3>5, ProductOrder
    <3>7. /\ m.ra * k \in Int /\ m.ra * e \in Int /\ m.rb * k \in Int /\ m.rb * f \in Int
          /\ u * m.total \in Int /\ v * m.total \in Int
      BY <1>3, <3>2, <3>3, <3>5
    <3> QED BY <2>2, <3>2, <3>3, <3>5, <3>6, <3>7
  <2> QED BY <1>3, <2>1, <2>2
<1> HIDE DEF in, u, v, k
<1>5. /\ sh \in [Party -> Nat] /\ SumFunction(sh) = m.total + k /\ db \in [Party -> Nat]
  <2>1. m.shares[p] + k \in Nat /\ k \in Int
    BY <1>3, <1>4
  <2>2. sh \in [Party -> Nat] /\ SumFunction(sh) = SumFunction(m.shares) + k
    BY <1>3, <2>1, SharesMoved
  <2> QED BY <1>2, <1>3, <2>2 DEF PoolSound
<1> HIDE DEF sh, db
<1>6. /\ n \in Pool /\ n.a = m.a /\ n.b = m.b /\ n.ra = m.ra + u /\ n.rb = m.rb + v
      /\ n.total = m.total + k /\ n.shares = sh /\ n.rewarded = m.rewarded
  <2>1. ra \in Nat /\ rb \in Nat /\ total \in Nat
    BY <1>3, <1>4
  <2> HIDE DEF ra, rb, total
  <2>2. HasReserves(h, m, ra, rb, total)
    BY <1>2, <2>1, PoolReserved
  <2> HIDE DEF h
  <2>3. HasProviders(n, h, sh)
    BY <1>5, <2>2, PoolProvided DEF HasReserves
  <2> HIDE DEF n
  <2> QED BY <2>2, <2>3 DEF ra, rb, total, HasReserves, HasProviders
<1> HIDE DEF n
<1>7. PoolSound(n)
  BY <1>1, <1>2, <1>3, <1>4, <1>5, <1>6 DEF PoolSound
<1>8. PoolKept(m, n)
  <2>1. CASE m.total = 0
    <3>1. m.ra = 0
      BY <1>2, <2>1 DEF PoolSound
    <3>2. \A z \in Int : 0 * z = 0 /\ z * 0 = 0
      OBVIOUS
    <3> QED BY <1>3, <1>4, <1>6, <2>1, <3>1, <3>2 DEF PoolKept
  <2>2. CASE m.total > 0
    <3>1. (m.ra + u) * m.total >= m.ra * (m.total + k)
      BY <1>3, <1>4, <2>2, MintKeeps
    <3>2. (m.rb + v) * m.total >= m.rb * (m.total + k)
      BY <1>3, <1>4, <2>2, MintKeeps
    <3>3. m.ra + u \in Nat /\ m.rb + v \in Nat /\ m.total + k \in Nat
      BY <1>3, <1>4
    <3>4. (m.ra + u) * (m.rb + v) * m.total * m.total >= m.ra * m.rb * (m.total + k) * (m.total + k)
      BY <1>3, <3>1, <3>2, <3>3, BothKept
    <3> QED BY <1>6, <3>4 DEF PoolKept
  <2> QED BY <1>3, <2>1, <2>2
<1>9. GetsBoth(wallet, wallet', m.a, u, m.b, v)
  BY <1>1, <1>3, <1>4, PaidBothIn
<1>10. ASSUME NEW t \in Token PROVE wallet'[t][Jar] = wallet[t][Jar] + PoolHolds(n, t) - PoolHolds(m, t)
  BY <1>3, <1>4, <1>6, <1>9, JarsAccount DEF GetsBoth, PoolHolds
<1>11. wallet' \in Wallets
  BY <1>9 DEF GetsBoth
<1> QED BY <1>1, <1>6, <1>7, <1>8, <1>10, <1>11 DEF PoolWritten, PoolPaid, m


Rewarded(m, r) == [m EXCEPT !.rewarded = r]
Indebted(m, db) == [m EXCEPT !.debt = db]
Swapped(m, ra, rb, accum) == [m EXCEPT !.ra = ra, !.rb = rb, !.accum = accum]
\* The pool as it was, but for what was paid of its rewards, its debts and its fee.
OnlyRewards(h, m, r) ==
  /\ h \in Pool /\ h.a = m.a /\ h.b = m.b /\ h.ra = m.ra /\ h.rb = m.rb /\ h.total = m.total
  /\ h.shares = m.shares /\ h.rewarded = r
IsSwapped(h, m, ra, rb) ==
  /\ h \in Pool /\ h.a = m.a /\ h.b = m.b /\ h.ra = ra /\ h.rb = rb
  /\ h.total = m.total /\ h.shares = m.shares /\ h.rewarded = m.rewarded
LEMMA PoolRewarded ==
  ASSUME NEW m \in Pool, NEW r \in Int
  PROVE  OnlyRewards(Rewarded(m, r), m, r)
BY DEF Pool, Rewarded, OnlyRewards
LEMMA PoolIndebted ==
  ASSUME NEW m \in Pool, NEW db \in [Party -> Nat]
  PROVE  OnlyRewards(Indebted(m, db), m, m.rewarded)
BY DEF Pool, Indebted, OnlyRewards
LEMMA PoolCharged ==
  ASSUME NEW m \in Pool, NEW fee \in Nat
  PROVE  OnlyRewards([m EXCEPT !.fee = fee], m, m.rewarded)
BY DEF Pool, OnlyRewards
LEMMA PoolSwapped ==
  ASSUME NEW m \in Pool, NEW ra \in Nat, NEW rb \in Nat, NEW acc \in Nat
  PROVE  IsSwapped(Swapped(m, ra, rb, acc), m, ra, rb)
BY DEF Pool, Swapped, IsSwapped
LEMMA PoolFields ==
  ASSUME NEW m \in Pool
  PROVE  /\ m.a \in Token /\ m.b \in Token /\ m.ra \in Nat /\ m.rb \in Nat /\ m.total \in Nat
         /\ m.fee \in Nat /\ m.accum \in Nat /\ m.shares \in [Party -> Nat]
         /\ m.debt \in [Party -> Nat] /\ m.rewarded \in Int
BY DEF Pool

\* The reserves and the shares stay, so the pool is as sound as it was.
LEMMA SameReserves ==
  ASSUME NEW m \in Pool, NEW h \in Pool, PoolSound(m), h.ra = m.ra, h.rb = m.rb,
         h.total = m.total, h.shares = m.shares
  PROVE  PoolSound(h) /\ PoolKept(m, h)
<1>1. PoolSound(h)
  BY DEF PoolSound
<1>2. h.ra * h.rb * m.total * m.total \in Int
  BY PoolFields
<1> QED BY <1>1, <1>2 DEF PoolKept

\* The jar gets what the reserves do, less the reward.
LEMMA PoolMoved ==
  ASSUME NEW m \in Pool, NEW n \in Pool, wallet \in Wallets, n.a = m.a, n.b = m.b,
         NEW u \in Int, NEW v \in Int, NEW r \in Int,
         n.ra = m.ra + u, n.rb = m.rb + v, n.rewarded = m.rewarded + r,
         \/ GetsBoth(wallet, wallet', m.a, u - r, m.b, v)
         \/ GetsBoth(wallet, wallet', m.b, v, m.a, u - r)
  PROVE  PoolPaid(m, n) /\ wallet' \in Wallets
<1>1. /\ m.ra \in Int /\ m.rb \in Int /\ m.rewarded \in Int
      /\ \A t \in Token : wallet[t][Jar] \in Int
  BY PoolFields, JarsAccount
<1>2. ASSUME NEW t \in Token
      PROVE  wallet'[t][Jar] = wallet[t][Jar] + PoolHolds(n, t) - PoolHolds(m, t)
  <2> DEFINE da == IF m.a = t THEN u - r ELSE 0
             db == IF m.b = t THEN v ELSE 0
  <2>1. wallet'[t][Jar] = wallet[t][Jar] + da + db
    BY <1>1 DEF GetsBoth
  <2> DEFINE ma == IF m.a = t THEN m.ra - m.rewarded ELSE 0
             mb == IF m.b = t THEN m.rb ELSE 0
  <2>2. PoolHolds(n, t) = (ma + da) + (mb + db)
    BY <1>1 DEF PoolHolds
  <2>3. PoolHolds(m, t) = ma + mb
    BY DEF PoolHolds
  <2>4. wallet[t][Jar] \in Int /\ ma \in Int /\ mb \in Int /\ da \in Int /\ db \in Int
    BY <1>1
  <2> HIDE DEF da, db, ma, mb
  <2> QED BY <2>1, <2>2, <2>3, <2>4
<1> QED BY <1>2 DEF GetsBoth, PoolPaid

LEMMA RewardType ==
  ASSUME NEW m \in Pool, NEW p \in Party
  PROVE  settle_rewards(m, p) \in Nat
<1>1. m.accum \in Nat /\ m.debt[p] \in Nat /\ m.shares[p] \in Nat
  BY PoolFields
<1> DEFINE z == m.shares[p] * (m.accum - m.debt[p])
<1>2. m.accum > m.debt[p] => z \in Nat
  <2>1. m.accum > m.debt[p] => m.accum - m.debt[p] \in Nat
    BY <1>1
  <2> QED BY <1>1, <2>1, Product
<1>3. m.accum > m.debt[p] => z \div Precision \in Nat
  <2> HIDE DEF z
  <2> QED BY <1>2, AmmAssumption, Portion
<1> QED BY <1>1, <1>3 DEF settle_rewards

LEMMA LiquidityRemoved ==
  ASSUME AmmInv, wallet \in Wallets, NEW p \in Party, NEW i \in DOMAIN pools,
         NEW k \in Nat \ {0}, remove_liquidity(i, p, k)
  PROVE  \E n \in Pool : PoolWritten(i, n)
<1> DEFINE m == pools[i]
           u == (k * m.ra) \div m.total
           v == (k * m.rb) \div m.total
           reward == settle_rewards(m, p)
           sh == [m.shares EXCEPT ![p] = m.shares[p] - k]
           db == [m.debt EXCEPT ![p] = m.accum]
           ra == m.ra - u
           rb == m.rb - v
           total == m.total - k
           rw == m.rewarded + reward
           h == Reserved(m, ra, rb, total)
           g == Provided(h, sh, db)
           n == Rewarded(g, rw)
<1>1. /\ m.shares[p] >= k /\ u > 0 /\ v > 0
      /\ pools' = [pools EXCEPT ![i] = n]
      /\ wallet' = Transfer(Transfer(wallet, m.a, Jar, p, u + reward), m.b, Jar, p, v)
  BY DEF remove_liquidity, PayBoth, Reserved, Provided, Rewarded
<1>2. m \in Pool /\ PoolSound(m)
  BY DEF AmmInv
<1> HIDE DEF m
<1>3. /\ m.a \in Token /\ m.b \in Token /\ m.ra \in Nat /\ m.rb \in Nat /\ m.total \in Nat
      /\ m.accum \in Nat /\ m.shares \in [Party -> Nat] /\ m.debt \in [Party -> Nat]
      /\ m.rewarded \in Int /\ reward \in Nat
  BY <1>2, PoolFields, RewardType
<1> HIDE DEF reward
<1>4. /\ sh \in [Party -> Nat] /\ SumFunction(sh) = m.total - k /\ db \in [Party -> Nat]
      /\ k <= m.total
  <2>1. m.shares[p] + (-k) \in Nat /\ -k \in Int
    BY <1>1, <1>3
  <2>2. /\ [m.shares EXCEPT ![p] = m.shares[p] + (-k)] \in [Party -> Nat]
        /\ SumFunction([m.shares EXCEPT ![p] = m.shares[p] + (-k)]) = SumFunction(m.shares) + (-k)
        /\ m.shares[p] <= SumFunction(m.shares)
    BY <1>3, <2>1, SharesMoved
  <2>3. sh = [m.shares EXCEPT ![p] = m.shares[p] + (-k)]
    BY <1>3
  <2>4. m.total = SumFunction(m.shares) /\ m.shares[p] \in Nat
    BY <1>2, <1>3 DEF PoolSound
  <2> HIDE DEF sh
  <2> QED BY <1>1, <1>3, <2>2, <2>3, <2>4
<1> HIDE DEF sh, db
<1>5. m.total > 0 /\ m.ra > 0 /\ m.rb > 0
  BY <1>2, <1>3, <1>4 DEF PoolSound
<1>6. /\ u \in 0 .. m.ra /\ (m.ra - u) * m.total >= m.ra * (m.total - k)
      /\ (k < m.total => u < m.ra) /\ (k = m.total => u = m.ra)
  <2> DEFINE r == m.ra
             t == m.total
  <2>1. r \in Nat /\ t \in Nat \ {0} /\ k <= t /\ r > 0 /\ u = (k * r) \div t
    BY <1>3, <1>4, <1>5
  <2> HIDE DEF r, t, u
  <2>2. /\ u \in 0 .. r /\ (r - u) * t >= r * (t - k)
        /\ r > 0 /\ k < t => u < r
        /\ k = t => u = r
    BY ONLY <2>1, k \in Nat \ {0}, BurnKeeps
  <2> QED BY <2>1, <2>2 DEF r, t
<1>7. /\ v \in 0 .. m.rb /\ (m.rb - v) * m.total >= m.rb * (m.total - k)
      /\ (k < m.total => v < m.rb) /\ (k = m.total => v = m.rb)
  <2> DEFINE r == m.rb
             t == m.total
  <2>1. r \in Nat /\ t \in Nat \ {0} /\ k <= t /\ r > 0 /\ v = (k * r) \div t
    BY <1>3, <1>4, <1>5
  <2> HIDE DEF r, t, v
  <2>2. /\ v \in 0 .. r /\ (r - v) * t >= r * (t - k)
        /\ r > 0 /\ k < t => v < r
        /\ k = t => v = r
    BY ONLY <2>1, k \in Nat \ {0}, BurnKeeps
  <2> QED BY <2>1, <2>2 DEF r, t
<1> HIDE DEF u, v
<1>8. /\ n \in Pool /\ n.a = m.a /\ n.b = m.b /\ n.ra = m.ra - u /\ n.rb = m.rb - v
      /\ n.total = m.total - k /\ n.shares = sh /\ n.rewarded = m.rewarded + reward
  <2>1. ra \in Nat /\ rb \in Nat /\ total \in Nat /\ rw \in Int
    BY <1>3, <1>4, <1>6, <1>7
  <2> HIDE DEF ra, rb, total, rw
  <2>2. HasReserves(h, m, ra, rb, total)
    BY <1>2, <2>1, PoolReserved
  <2> HIDE DEF h
  <2>3. HasProviders(g, h, sh)
    BY <1>4, <2>2, PoolProvided DEF HasReserves
  <2> HIDE DEF g
  <2>4. OnlyRewards(n, g, rw)
    BY <2>1, <2>3, PoolRewarded DEF HasProviders
  <2> HIDE DEF n
  <2> QED BY <2>2, <2>3, <2>4 DEF ra, rb, total, rw, HasReserves, HasProviders, OnlyRewards
<1> HIDE DEF n
<1>9. PoolSound(n)
  BY <1>2, <1>3, <1>4, <1>5, <1>6, <1>7, <1>8 DEF PoolSound
<1>10. PoolKept(m, n)
  <2>1. m.ra - u \in Nat /\ m.rb - v \in Nat /\ m.total - k \in Nat
    BY <1>3, <1>4, <1>6, <1>7
  <2>2. (m.ra - u) * (m.rb - v) * m.total * m.total >= m.ra * m.rb * (m.total - k) * (m.total - k)
    BY <1>3, <1>6, <1>7, <2>1, BothKept
  <2> QED BY <1>8, <2>2 DEF PoolKept
<1>11. GetsBoth(wallet, wallet', m.a, -(u + reward), m.b, -v)
  <2>1. u + reward \in Int /\ v \in Int
    BY <1>3, <1>6, <1>7
  <2> QED BY <1>1, <1>3, <2>1, PaidBothOut
<1>12. PoolPaid(m, n) /\ wallet' \in Wallets
  <2> DEFINE du == -u
             dv == -v
  <2>1. /\ du \in Int /\ dv \in Int /\ reward \in Int
        /\ n.ra = m.ra + du /\ n.rb = m.rb + dv
        /\ -(u + reward) = du - reward
    BY <1>3, <1>6, <1>7, <1>8
  <2>2. GetsBoth(wallet, wallet', m.a, du - reward, m.b, dv)
    BY <1>11, <2>1
  <2> HIDE DEF du, dv
  <2> QED BY <1>2, <1>8, <2>1, <2>2, PoolMoved
<1> QED BY <1>1, <1>8, <1>9, <1>10, <1>12 DEF PoolWritten, m

LEMMA LiquiditySwapped ==
  ASSUME AmmInv, wallet \in Wallets, NEW p \in Party, NEW i \in DOMAIN pools,
         NEW forth \in BOOLEAN, NEW x \in Nat, swap(i, p, forth, x)
  PROVE  \E n \in Pool : PoolWritten(i, n)
<1> DEFINE m == pools[i]
           fee == (x * m.fee) \div Bps
           in == IF forth THEN m.ra ELSE m.rb
           out == IF forth THEN m.rb ELSE m.ra
           y == calculate_output(x - fee, in, out)
           ra == IF forth THEN m.ra + x ELSE m.ra - y
           rb == IF forth THEN m.rb - y ELSE m.rb + x
           earned == IF forth THEN fee ELSE (fee * ra) \div rb
           acc == m.accum + IF m.total > 0 THEN (earned * Precision) \div m.total ELSE 0
           n == Swapped(m, ra, rb, acc)
           ta == IF forth THEN m.a ELSE m.b
           tb == IF forth THEN m.b ELSE m.a
<1>2. m \in Pool /\ PoolSound(m)
  BY DEF AmmInv
<1>1. /\ m.ra > 0 /\ m.rb > 0 /\ y > 0
      /\ pools' = [pools EXCEPT ![i] = n]
      /\ wallet' = Transfer(Transfer(wallet, ta, p, Jar, x), tb, Jar, p, y)
  <2>1. CASE forth
    BY <2>1, <1>2 DEF swap, Swapped, Pool
  <2>2. CASE ~forth
    BY <2>2, <1>2 DEF swap, Swapped, Pool
  <2> QED BY <2>1, <2>2
<1> HIDE DEF m
<1>3. /\ m.a \in Token /\ m.b \in Token /\ m.ra \in Nat /\ m.rb \in Nat /\ m.total \in Nat
      /\ m.fee \in Nat /\ m.accum \in Nat /\ m.rewarded \in Int
  BY <1>2, PoolFields
<1>4. fee \in Nat
  <2>1. x * m.fee \in Nat
    BY <1>3, Product
  <2> QED BY <2>1, LedgerAssumption, Portion
<1> HIDE DEF fee
<1>5. in \in Nat /\ out \in Nat /\ in > 0 /\ out > 0
  BY <1>1, <1>3
<1>6. y \in Nat /\ y < out /\ (in + x) * (out - y) >= in * out
  <2> DEFINE a == x - fee
  <2>1. y = IF a <= 0 THEN 0 ELSE (a * out) \div (in + a)
    BY DEF calculate_output
  <2>2. a \in Nat /\ a > 0 /\ a <= x /\ y = (a * out) \div (in + a)
    BY <1>1, <1>4, <2>1
  <2> HIDE DEF a, y, in, out
  <2> QED BY <1>5, <2>2, SwapKeeps
<1> HIDE DEF y
<1>7. /\ ra \in Nat /\ rb \in Nat /\ ra > 0 /\ rb > 0
      /\ ra * rb >= m.ra * m.rb
  <2>1. CASE forth
    <3>1. ra = in + x /\ rb = out - y /\ m.ra = in /\ m.rb = out
      BY <2>1
    <3> HIDE DEF ra, rb, in, out
    <3> QED BY <1>5, <1>6, <3>1
  <2>2. CASE ~forth
    <3>1. rb = in + x /\ ra = out - y /\ m.rb = in /\ m.ra = out
      BY <2>2
    <3> HIDE DEF ra, rb, in, out
    <3>2. (in + x) * (out - y) = (out - y) * (in + x) /\ in * out = out * in
      BY <1>5, <1>6
    <3> QED BY <1>5, <1>6, <3>1, <3>2
  <2> QED BY <2>1, <2>2
<1> HIDE DEF ra, rb
<1>8. acc \in Nat
  <2>1. earned \in Nat
    <3> DEFINE z == fee * ra
    <3>1. z \in Nat
      BY <1>4, <1>7, Product
    <3> HIDE DEF z
    <3>2. z \div rb \in Nat
      BY <1>7, <3>1, Portion
    <3> QED BY <1>4, <3>2 DEF z
  <2> DEFINE z == earned * Precision
             t == m.total
  <2>2. z \in Nat
    BY <2>1, AmmAssumption, Product
  <2> HIDE DEF z, t
  <2>3. t \in Nat /\ (t > 0 => z \div t \in Nat)
    <3>1. t \in Nat
      BY <1>3 DEF t
    <3> QED BY ONLY <2>2, <3>1, Portion
  <2> QED BY <1>3, <2>3 DEF z, t
<1> HIDE DEF acc
<1>9. /\ n \in Pool /\ n.a = m.a /\ n.b = m.b /\ n.ra = ra /\ n.rb = rb
      /\ n.total = m.total /\ n.shares = m.shares /\ n.rewarded = m.rewarded
  <2>1. IsSwapped(n, m, ra, rb)
    BY <1>2, <1>7, <1>8, PoolSwapped
  <2> QED BY <2>1 DEF IsSwapped
<1> HIDE DEF n
<1>10. PoolSound(n)
  BY <1>1, <1>2, <1>3, <1>7, <1>9 DEF PoolSound
<1>11. PoolKept(m, n)
  <2> DEFINE c == ra * rb
             d == m.ra * m.rb
             t == m.total
             q == t * t
  <2>1. c \in Nat /\ d \in Nat /\ t \in Nat /\ q \in Nat
    BY <1>3, <1>7, Product
  <2>2. c * q >= d * q
    <3> HIDE DEF c, d, q
    <3> QED BY <1>7, <2>1, ProductOrder DEF c, d
  <2>3. c * q = ra * rb * m.total * m.total /\ d * q = m.ra * m.rb * m.total * m.total
    BY <1>3, <1>7
  <2> QED BY <1>9, <2>2, <2>3 DEF PoolKept
<1>12. GetsBoth(wallet, wallet', ta, x, tb, -y)
  <2>1. ta \in Token /\ tb \in Token /\ x \in Int /\ y \in Int
    BY <1>3, <1>6
  <2> QED BY <1>1, <2>1, PaidInAndOut
<1>13. PoolPaid(m, n) /\ wallet' \in Wallets
  <2> DEFINE u == IF forth THEN x ELSE -y
             v == IF forth THEN -y ELSE x
  <2>1. u \in Int /\ v \in Int /\ u = u - 0
    BY <1>6
  <2>2. n.ra = m.ra + u /\ n.rb = m.rb + v /\ n.rewarded = m.rewarded + 0
    BY <1>3, <1>6, <1>9 DEF ra, rb
  <2>3. \/ GetsBoth(wallet, wallet', m.a, u - 0, m.b, v)
        \/ GetsBoth(wallet, wallet', m.b, v, m.a, u - 0)
    BY <1>12, <2>1
  <2> HIDE DEF u, v
  <2> QED BY <1>2, <1>9, <2>1, <2>2, <2>3, PoolMoved
<1> QED BY <1>1, <1>9, <1>10, <1>11, <1>13 DEF PoolWritten, m

LEMMA RewardsClaimed ==
  ASSUME AmmInv, wallet \in Wallets, NEW p \in Party, NEW i \in DOMAIN pools, claim_rewards(i, p)
  PROVE  \E n \in Pool : PoolWritten(i, n)
<1> DEFINE m == pools[i]
           reward == settle_rewards(m, p)
           db == [m.debt EXCEPT ![p] = m.accum]
           rw == m.rewarded + reward
           h == Indebted(m, db)
           n == Rewarded(h, rw)
<1>1. /\ pools' = [pools EXCEPT ![i] = n]
      /\ wallet' = Transfer(wallet, m.a, Jar, p, reward)
  BY DEF claim_rewards, Pay, Indebted, Rewarded
<1>2. m \in Pool /\ PoolSound(m)
  BY DEF AmmInv
<1> HIDE DEF m
<1>3. /\ m.a \in Token /\ m.b \in Token /\ m.ra \in Nat /\ m.rb \in Nat /\ db \in [Party -> Nat]
      /\ m.rewarded \in Int /\ reward \in Nat /\ rw \in Int
  BY <1>2, PoolFields, RewardType
<1> HIDE DEF reward, db
<1>4. OnlyRewards(h, m, m.rewarded)
  BY <1>2, <1>3, PoolIndebted
<1>5. OnlyRewards(n, h, rw)
  <2> HIDE DEF h, rw
  <2> QED BY <1>3, <1>4, PoolRewarded DEF OnlyRewards
<1> HIDE DEF n, h
<1>6. PoolSound(n) /\ PoolKept(m, n) /\ n \in Pool
  <2>1. n \in Pool /\ n.ra = m.ra /\ n.rb = m.rb /\ n.total = m.total /\ n.shares = m.shares
    BY <1>4, <1>5 DEF OnlyRewards
  <2> QED BY <1>2, <2>1, SameReserves
<1>7. Gets(wallet, wallet', m.a, -reward)
  BY <1>1, <1>3, PaidOutOf
<1>8. ASSUME NEW t \in Token PROVE wallet'[t][Jar] = wallet[t][Jar] + PoolHolds(n, t) - PoolHolds(m, t)
  BY <1>3, <1>4, <1>5, <1>7, JarsAccount DEF Gets, PoolHolds, OnlyRewards
<1>9. wallet' \in Wallets
  BY <1>7 DEF Gets
<1> QED BY <1>1, <1>6, <1>8, <1>9 DEF PoolWritten, PoolPaid, m

LEMMA FeeSet ==
  ASSUME AmmInv, wallet \in Wallets, NEW i \in DOMAIN pools, NEW fee \in Nat, set_pool_fee(i, fee)
  PROVE  \E n \in Pool : PoolWritten(i, n)
<1> DEFINE m == pools[i]
           n == [m EXCEPT !.fee = fee]
<1>1. pools' = [pools EXCEPT ![i] = n] /\ wallet' = wallet
  BY DEF set_pool_fee
<1>2. m \in Pool /\ PoolSound(m)
  BY DEF AmmInv
<1> HIDE DEF m
<1>3. OnlyRewards(n, m, m.rewarded)
  BY <1>2, PoolCharged
<1> HIDE DEF n
<1>4. PoolSound(n) /\ PoolKept(m, n) /\ n \in Pool
  <2>1. n \in Pool /\ n.ra = m.ra /\ n.rb = m.rb /\ n.total = m.total /\ n.shares = m.shares
    BY <1>3 DEF OnlyRewards
  <2> QED BY <1>2, <2>1, SameReserves
<1>5. ASSUME NEW t \in Token PROVE wallet'[t][Jar] = wallet[t][Jar] + PoolHolds(n, t) - PoolHolds(m, t)
  BY <1>1, <1>2, <1>3, PoolFields, JarsAccount DEF PoolHolds, OnlyRewards
<1> QED BY <1>1, <1>4, <1>5 DEF PoolWritten, PoolPaid, m

\* A list with one entry written or added, and an account that gets what the entry does.
Earns(w, v, s, r, H) ==
  Worth(s, H) \in Int /\ Worth(r, H) \in Int /\ v = w + Worth(r, H) - Worth(s, H)
LEMMA ListWritten ==
  ASSUME NEW S, NEW s \in Seq(S), NEW H \in [S -> Int], NEW i \in DOMAIN s, NEW e \in S,
         NEW r, r = [s EXCEPT ![i] = e], NEW w \in Int, NEW v, v = w + H[e] - H[s[i]]
  PROVE  Earns(w, v, s, r, H)
<1> DEFINE a == Worth(s, H)
           b == Worth(r, H)
           c == H[e]
           d == H[s[i]]
<1>1. b = a + c - d
  BY WorthUpdated
<1>2. a \in Int /\ c \in Int /\ d \in Int /\ v = w + c - d
  BY WorthType
<1> HIDE DEF a, b, c, d
<1>3. b \in Int /\ v = w + b - a
  BY ONLY <1>1, <1>2, w \in Int
<1> QED BY <1>2, <1>3 DEF Earns, a, b
LEMMA ListExtended ==
  ASSUME NEW S, NEW s \in Seq(S), NEW H \in [S -> Int], NEW e \in S,
         NEW r, r = Append(s, e), NEW w \in Int, NEW v, v = w + H[e]
  PROVE  Earns(w, v, s, r, H)
<1> DEFINE a == Worth(s, H)
           b == Worth(r, H)
           c == H[e]
<1>1. b = a + c
  BY WorthAppended
<1>2. a \in Int /\ c \in Int /\ v = w + c
  BY WorthType
<1> HIDE DEF a, b, c
<1>3. b \in Int /\ v = w + b - a
  BY ONLY <1>1, <1>2, w \in Int
<1> QED BY <1>2, <1>3 DEF Earns, a, b

\* What is said of all entries, and is true of the one written or added.
LEMMA EachWritten ==
  ASSUME NEW S, NEW s \in Seq(S), NEW G \in SUBSET S, \A j \in DOMAIN s : s[j] \in G,
         NEW i \in DOMAIN s, NEW e \in G
  PROVE  /\ [s EXCEPT ![i] = e] \in Seq(S)
         /\ \A j \in DOMAIN [s EXCEPT ![i] = e] : [s EXCEPT ![i] = e][j] \in G
BY SeqUpdated
LEMMA EachExtended ==
  ASSUME NEW S, NEW s \in Seq(S), NEW G \in SUBSET S, \A j \in DOMAIN s : s[j] \in G, NEW e \in G
  PROVE  /\ Append(s, e) \in Seq(S)
         /\ \A j \in DOMAIN Append(s, e) : Append(s, e)[j] \in G
<1>1. /\ Append(s, e) \in Seq(S)
      /\ DOMAIN s = 1 .. Len(s) /\ DOMAIN Append(s, e) = 1 .. Len(s) + 1
      /\ \A j \in DOMAIN s : Append(s, e)[j] = s[j]
      /\ Append(s, e)[Len(s) + 1] = e /\ Len(s) \in Nat
  BY SeqAppended
<1>2. ASSUME NEW j \in DOMAIN Append(s, e) PROVE Append(s, e)[j] \in G
  <2>1. j \in DOMAIN s \/ j = Len(s) + 1
    BY <1>1
  <2> QED BY <1>1, <2>1
<1> QED BY <1>1, <1>2

-----------------------------------------------------------------------------
PoolsInv == pools \in Seq(Pool) /\ \A i \in DOMAIN pools : PoolSound(pools[i])
PoolBook(t) == [m \in Pool |-> PoolHolds(m, t)]
PoolsFollow ==
  /\ wallet' \in Wallets
  /\ \A t \in Token : /\ PoolHoldings(t) \in Int /\ PoolHoldings(t)' \in Int
                      /\ wallet'[t][Jar] = wallet[t][Jar] + PoolHoldings(t)' - PoolHoldings(t)
SoundPool == {m \in Pool : PoolSound(m)}

LEMMA PoolBookType ==
  ASSUME NEW t \in Token
  PROVE  PoolBook(t) \in [Pool -> Int]
<1>1. ASSUME NEW m \in Pool PROVE PoolHolds(m, t) \in Int
  BY PoolFields DEF PoolHolds
<1> QED BY <1>1 DEF PoolBook
LEMMA PoolsWorth ==
  ASSUME pools \in Seq(Pool), NEW t \in Token
  PROVE  PoolHoldings(t) = Worth(pools, PoolBook(t))
<1>1. \A i \in DOMAIN pools : PoolBook(t)[pools[i]] = PoolHolds(pools[i], t)
  BY DEF PoolBook
<1>2. [i \in DOMAIN pools |-> PoolHolds(pools[i], t)] = [i \in DOMAIN pools |-> PoolBook(t)[pools[i]]]
  BY <1>1
<1> QED BY <1>2 DEF PoolHoldings, Worth
LEMMA PoolsWorthNext ==
  ASSUME pools' \in Seq(Pool), NEW t \in Token
  PROVE  PoolHoldings(t)' = Worth(pools', PoolBook(t))
<1>1. \A i \in DOMAIN pools' : PoolBook(t)[pools'[i]] = PoolHolds(pools'[i], t)
  BY DEF PoolBook
<1>2. [i \in DOMAIN pools' |-> PoolHolds(pools'[i], t)] = [i \in DOMAIN pools' |-> PoolBook(t)[pools'[i]]]
  BY <1>1
<1> QED BY <1>2 DEF PoolHoldings, PoolHolds, Worth

LEMMA PoolsChanged ==
  ASSUME PoolsInv, wallet \in Wallets, NEW n \in Pool, NEW i,
         (i \in DOMAIN pools /\ PoolWritten(i, n)) \/ PoolOpened(n)
  PROVE  PoolsInv' /\ PoolsFollow
<1>1. n \in SoundPool /\ SoundPool \in SUBSET Pool /\ \A j \in DOMAIN pools : pools[j] \in SoundPool
  BY DEF PoolsInv, SoundPool, PoolWritten, PoolOpened
<1>2. pools' \in Seq(Pool) /\ \A j \in DOMAIN pools' : pools'[j] \in SoundPool
  <2>1. CASE i \in DOMAIN pools /\ PoolWritten(i, n)
    <3>1. pools' = [pools EXCEPT ![i] = n] /\ i \in DOMAIN pools
      BY <2>1 DEF PoolWritten
    <3> QED BY <1>1, <3>1, EachWritten DEF PoolsInv
  <2>2. CASE PoolOpened(n)
    <3>1. pools' = Append(pools, n)
      BY <2>2 DEF PoolOpened
    <3> QED BY <1>1, <3>1, EachExtended DEF PoolsInv
  <2> QED BY <2>1, <2>2
<1>3. PoolsInv'
  BY <1>2 DEF PoolsInv, SoundPool, PoolSound
<1>4. ASSUME NEW t \in Token
      PROVE  /\ PoolHoldings(t) \in Int /\ PoolHoldings(t)' \in Int
             /\ wallet'[t][Jar] = wallet[t][Jar] + PoolHoldings(t)' - PoolHoldings(t)
  <2> DEFINE H == PoolBook(t)
  <2>1. PoolHoldings(t) = Worth(pools, H) /\ PoolHoldings(t)' = Worth(pools', H)
    BY <1>2, PoolsWorth, PoolsWorthNext DEF PoolsInv
  <2>2. /\ H \in [Pool -> Int] /\ H[n] = PoolHolds(n, t)
        /\ \A j \in DOMAIN pools : H[pools[j]] = PoolHolds(pools[j], t)
    BY PoolBookType DEF PoolBook, PoolsInv
  <2>3. wallet[t][Jar] \in Int /\ pools \in Seq(Pool)
    BY JarsAccount DEF PoolsInv
  <2> HIDE DEF H
  <2>4. CASE i \in DOMAIN pools /\ PoolWritten(i, n)
    <3>1. /\ i \in DOMAIN pools /\ pools' = [pools EXCEPT ![i] = n]
          /\ wallet'[t][Jar] = wallet[t][Jar] + H[n] - H[pools[i]]
      BY <2>2, <2>4 DEF PoolWritten, PoolPaid
    <3>2. Earns(wallet[t][Jar], wallet'[t][Jar], pools, pools', H)
      BY <2>2, <2>3, <3>1, ListWritten
    <3> QED BY <2>1, <3>2 DEF Earns
  <2>5. CASE PoolOpened(n)
    <3>1. pools' = Append(pools, n) /\ wallet'[t][Jar] = wallet[t][Jar] + H[n]
      BY <2>2, <2>5 DEF PoolOpened
    <3>2. Earns(wallet[t][Jar], wallet'[t][Jar], pools, pools', H)
      BY <2>2, <2>3, <3>1, ListExtended
    <3> QED BY <2>1, <3>2 DEF Earns
  <2> QED BY <2>4, <2>5
<1>5. wallet' \in Wallets
  BY DEF PoolWritten, PoolOpened
<1> QED BY <1>3, <1>4, <1>5 DEF PoolsFollow

\* Every call of the market maker writes a pool or opens one.
LEMMA AmmCalls ==
  ASSUME AmmInv, wallet \in Wallets, AmmNext
  PROVE  \/ \E i \in DOMAIN pools : \E n \in Pool : PoolWritten(i, n)
         \/ \E n \in Pool : PoolOpened(n)
<1>1. PICK p \in Party, x \in Amounts :
        \/ \E a, b \in Token, y \in Amounts, fee \in PoolFees : amm_create_pool(p, a, b, x, y, fee)
        \/ \E i \in DOMAIN pools :
             \/ \E y \in Amounts : amm_add_liquidity(p, i, x, y)
             \/ \E n \in {x, pools[i].shares[p]} \ {0} : amm_remove_liquidity(p, i, n)
             \/ \E forth \in BOOLEAN : amm_swap(p, i, forth, x)
             \/ claim_rewards(i, p)
             \/ \E fee \in PoolFees : set_pool_fee(i, fee)
  BY DEF AmmNext
<1>a. Amounts \subseteq Nat /\ PoolFees \subseteq Nat /\ DefaultFee \in Nat /\ x \in Nat
  BY LedgerAssumption, AmmAssumption
<1>2. CASE \E a, b \in Token, y \in Amounts, fee \in PoolFees : amm_create_pool(p, a, b, x, y, fee)
  <2>1. PICK a \in Token, b \in Token, y \in Amounts, fee \in PoolFees :
          amm_create_pool(p, a, b, x, y, fee)
    BY <1>2
  <2> DEFINE f == IF fee = 0 THEN DefaultFee ELSE fee
  <2>2. f \in Nat /\ create_pool(p, a, b, x, y, f)
    BY <1>a, <2>1 DEF amm_create_pool
  <2> HIDE DEF f
  <2> QED BY <1>a, <2>2, PoolCreated
<1>3. ASSUME NEW i \in DOMAIN pools,
             \/ \E y \in Amounts : amm_add_liquidity(p, i, x, y)
             \/ \E n \in {x, pools[i].shares[p]} \ {0} : amm_remove_liquidity(p, i, n)
             \/ \E forth \in BOOLEAN : amm_swap(p, i, forth, x)
             \/ claim_rewards(i, p)
             \/ \E fee \in PoolFees : set_pool_fee(i, fee)
      PROVE  \E n \in Pool : PoolWritten(i, n)
  <2>1. CASE \E y \in Amounts : amm_add_liquidity(p, i, x, y)
    BY <1>a, <2>1, LiquidityAdded DEF amm_add_liquidity
  <2>2. CASE \E n \in {x, pools[i].shares[p]} \ {0} : amm_remove_liquidity(p, i, n)
    <3>1. PICK n \in {x, pools[i].shares[p]} \ {0} : remove_liquidity(i, p, n)
      BY <2>2 DEF amm_remove_liquidity
    <3>2. pools[i].shares[p] \in Nat
      BY PoolFields DEF AmmInv
    <3>3. n \in Nat \ {0}
      BY <1>a, <3>2
    <3> QED BY <3>1, <3>3, LiquidityRemoved
  <2>3. CASE \E forth \in BOOLEAN : amm_swap(p, i, forth, x)
    BY <1>a, <2>3, LiquiditySwapped DEF amm_swap
  <2>4. CASE claim_rewards(i, p)
    BY <2>4, RewardsClaimed
  <2>5. CASE \E fee \in PoolFees : set_pool_fee(i, fee)
    BY <1>a, <2>5, FeeSet
  <2> QED BY <1>3, <2>1, <2>2, <2>3, <2>4, <2>5
<1> QED BY <1>1, <1>2, <1>3

ValueKept == \A i \in DOMAIN pools : PoolKept(pools[i], pools'[i])

LEMMA AmmStep ==
  ASSUME AmmInv, wallet \in Wallets, AmmNext
  PROVE  PoolsInv' /\ PoolsFollow /\ ValueKept
<1>1. PoolsInv
  BY DEF AmmInv, PoolsInv
<1>2. CASE \E i \in DOMAIN pools : \E n \in Pool : PoolWritten(i, n)
  <2>1. PICK i \in DOMAIN pools, n \in Pool : PoolWritten(i, n)
    BY <1>2
  <2>2. PoolsInv' /\ PoolsFollow
    BY <1>1, <2>1, PoolsChanged
  <2>3. ASSUME NEW j \in DOMAIN pools PROVE PoolKept(pools[j], pools'[j])
    <3>1. pools'[j] = IF j = i THEN n ELSE pools[j]
      BY <1>1, <2>1, SeqUpdated DEF PoolsInv, PoolWritten
    <3>2. CASE j = i
      BY <2>1, <3>1, <3>2 DEF PoolWritten
    <3>3. CASE j # i
      <4>1. pools'[j] = pools[j] /\ pools[j] \in Pool /\ PoolSound(pools[j])
        BY <1>1, <3>1, <3>3 DEF PoolsInv
      <4> QED BY <4>1, SameReserves
    <3> QED BY <3>2, <3>3
  <2> QED BY <2>2, <2>3 DEF ValueKept
<1>3. CASE \E n \in Pool : PoolOpened(n)
  <2>1. PICK n \in Pool : PoolOpened(n)
    BY <1>3
  <2>2. PoolsInv' /\ PoolsFollow
    BY <1>1, <2>1, PoolsChanged
  <2>3. ASSUME NEW j \in DOMAIN pools PROVE PoolKept(pools[j], pools'[j])
    <3>1. pools'[j] = pools[j]
      BY <1>1, <2>1, SeqAppended DEF PoolsInv, PoolOpened
    <3>2. pools[j] \in Pool /\ PoolSound(pools[j])
      BY <1>1 DEF PoolsInv
    <3> QED BY <3>1, <3>2, SameReserves
  <2> QED BY <2>2, <2>3 DEF ValueKept
<1> QED BY <1>2, <1>3, AmmCalls

-----------------------------------------------------------------------------
(* Stop orders *)

\* What the jar holds for the orders follows what is paid.
OrderBook(t) == [m \in StopOrder |-> OrderHolds(m, t)]
OrdersFollow ==
  /\ wallet' \in Wallets
  /\ \A t \in Token : /\ StopEscrow(t) \in Int /\ StopEscrow(t)' \in Int
                      /\ wallet'[t][Jar] = wallet[t][Jar] + StopEscrow(t)' - StopEscrow(t)
OrderPaid(m, n) ==
  \A t \in Token : wallet'[t][Jar] = wallet[t][Jar] + OrderHolds(n, t) - OrderHolds(m, t)
OrderWritten(i, n) ==
  /\ orders' = [orders EXCEPT ![i] = n]
  /\ wallet' \in Wallets /\ n \in StopOrder /\ OrderPaid(orders[i], n)
OrderOpened(n) ==
  /\ orders' = Append(orders, n)
  /\ wallet' \in Wallets /\ n \in StopOrder
  /\ \A t \in Token : wallet'[t][Jar] = wallet[t][Jar] + OrderHolds(n, t)

LEMMA OrderFields ==
  ASSUME NEW m \in StopOrder
  PROVE  /\ m.owner \in Party /\ m.token \in Token /\ m.amount \in Nat /\ m.stop \in Int
BY DEF StopOrder
LEMMA OrderBookType ==
  ASSUME NEW t \in Token
  PROVE  OrderBook(t) \in [StopOrder -> Int]
<1>1. ASSUME NEW m \in StopOrder PROVE OrderHolds(m, t) \in Int
  BY OrderFields DEF OrderHolds, Open
<1> QED BY <1>1 DEF OrderBook
LEMMA OrdersWorth ==
  ASSUME orders \in Seq(StopOrder), NEW t \in Token
  PROVE  StopEscrow(t) = Worth(orders, OrderBook(t))
<1>1. \A i \in DOMAIN orders : OrderBook(t)[orders[i]] = OrderHolds(orders[i], t)
  BY DEF OrderBook
<1>2. [i \in DOMAIN orders |-> OrderHolds(orders[i], t)] = [i \in DOMAIN orders |-> OrderBook(t)[orders[i]]]
  BY <1>1
<1> QED BY <1>2 DEF StopEscrow, Worth
LEMMA OrdersWorthNext ==
  ASSUME orders' \in Seq(StopOrder), NEW t \in Token
  PROVE  StopEscrow(t)' = Worth(orders', OrderBook(t))
<1>1. \A i \in DOMAIN orders' : OrderBook(t)[orders'[i]] = OrderHolds(orders'[i], t)
  BY DEF OrderBook
<1>2. [i \in DOMAIN orders' |-> OrderHolds(orders'[i], t)]
        = [i \in DOMAIN orders' |-> OrderBook(t)[orders'[i]]]
  BY <1>1
<1> QED BY <1>2 DEF StopEscrow, OrderHolds, Open, Worth

LEMMA OrdersChanged ==
  ASSUME orders \in Seq(StopOrder), wallet \in Wallets, NEW n \in StopOrder, NEW i,
         (i \in DOMAIN orders /\ OrderWritten(i, n)) \/ OrderOpened(n)
  PROVE  orders' \in Seq(StopOrder) /\ OrdersFollow
<1>1. orders' \in Seq(StopOrder)
  BY SeqUpdated, SeqAppended DEF OrderWritten, OrderOpened
<1>2. ASSUME NEW t \in Token
      PROVE  /\ StopEscrow(t) \in Int /\ StopEscrow(t)' \in Int
             /\ wallet'[t][Jar] = wallet[t][Jar] + StopEscrow(t)' - StopEscrow(t)
  <2> DEFINE H == OrderBook(t)
  <2>1. StopEscrow(t) = Worth(orders, H) /\ StopEscrow(t)' = Worth(orders', H)
    BY <1>1, OrdersWorth, OrdersWorthNext
  <2>2. /\ H \in [StopOrder -> Int] /\ H[n] = OrderHolds(n, t)
        /\ \A j \in DOMAIN orders : H[orders[j]] = OrderHolds(orders[j], t)
    BY OrderBookType DEF OrderBook
  <2>3. wallet[t][Jar] \in Int
    BY JarsAccount
  <2> HIDE DEF H
  <2>4. Earns(wallet[t][Jar], wallet'[t][Jar], orders, orders', H)
    <3>1. CASE i \in DOMAIN orders /\ OrderWritten(i, n)
      <4>1. /\ i \in DOMAIN orders /\ orders' = [orders EXCEPT ![i] = n]
            /\ wallet'[t][Jar] = wallet[t][Jar] + H[n] - H[orders[i]]
        BY <2>2, <3>1 DEF OrderWritten, OrderPaid
      <4> QED BY <2>2, <2>3, <4>1, ListWritten
    <3>2. CASE OrderOpened(n)
      <4>1. orders' = Append(orders, n) /\ wallet'[t][Jar] = wallet[t][Jar] + H[n]
        BY <2>2, <3>2 DEF OrderOpened
      <4> QED BY <2>2, <2>3, <4>1, ListExtended
    <3> QED BY <3>1, <3>2
  <2> QED BY <2>1, <2>4 DEF Earns
<1>3. wallet' \in Wallets
  BY DEF OrderWritten, OrderOpened
<1> QED BY <1>1, <1>2, <1>3 DEF OrdersFollow

OrderKept(o, n) == n.stop >= o.stop /\ (~Open(o) => n = o)

\* A stop that follows the price only rises.
IsMoved(n, o, status) ==
  /\ n \in StopOrder /\ n.token = o.token /\ n.amount = o.amount
  /\ n.status = status /\ n.stop >= o.stop
LEMMA TrailedOrder ==
  ASSUME NEW o \in StopOrder, NEW price \in Int
  PROVE  IsMoved(Trailed(o, price), o, o.status)
<1>1. o.stop \in Int /\ o.trail \in Int
  BY DEF StopOrder
<1> DEFINE s == Larger(o.stop, price - o.trail)
           n == [o EXCEPT !.peak = price, !.stop = s]
<1>2. s \in Int /\ s >= o.stop
  BY <1>1 DEF Larger
<1>3. Trailed(o, price) = IF o.kind = "TrailingStop" /\ price > o.peak THEN n ELSE o
  BY DEF Trailed
<1> HIDE DEF s
<1>4. IsMoved(n, o, o.status)
  BY <1>2 DEF StopOrder, IsMoved
<1>5. IsMoved(o, o, o.status)
  BY <1>1 DEF IsMoved
<1> QED BY <1>3, <1>4, <1>5
LEMMA StatusSet ==
  ASSUME NEW o \in StopOrder, NEW status \in {"Active", "Triggered", "Executed", "Cancelled"}
  PROVE  IsMoved([o EXCEPT !.status = status], o, status)
BY DEF StopOrder, IsMoved

LEMMA OrderPlaced ==
  ASSUME StopsInv, wallet \in Wallets, NEW p \in Party, NEW t \in Token, NEW x \in Nat, NEW stop \in Int,
         NEW limit \in Int, NEW trail \in Int, NEW kind \in OrderKind, NEW price \in Int,
         place_order(p, t, x, stop, limit, trail, kind, price)
  PROVE  \E n \in StopOrder : OrderOpened(n)
<1> DEFINE top == IF price > 0 THEN price ELSE stop
           n == [owner |-> p, token |-> t, amount |-> x, stop |-> stop, limit |-> limit,
                 trail |-> trail, kind |-> kind, peak |-> top, status |-> "Active"]
<1>1. orders' = Append(orders, n) /\ wallet' = Transfer(wallet, t, p, Jar, x)
  BY DEF place_order, Pay
<1>2. n \in StopOrder /\ n.token = t /\ n.amount = x /\ Open(n)
  BY DEF StopOrder, Open
<1> HIDE DEF n
<1>3. Gets(wallet, wallet', t, x)
  BY <1>1, PaidIn
<1>4. ASSUME NEW u \in Token PROVE wallet'[u][Jar] = wallet[u][Jar] + OrderHolds(n, u)
  BY <1>2, <1>3, JarsAccount DEF Gets, OrderHolds
<1> QED BY <1>1, <1>2, <1>3, <1>4 DEF OrderOpened, Gets

\* Neither the token nor the amount nor whether it is open: nothing is paid.
LEMMA OrderMoved ==
  ASSUME wallet \in Wallets, wallet' = wallet, NEW o \in StopOrder, NEW n \in StopOrder,
         n.token = o.token, n.amount = o.amount, Open(n), Open(o)
  PROVE  OrderPaid(o, n) /\ wallet' \in Wallets
BY OrderFields, JarsAccount DEF OrderPaid, OrderHolds

LEMMA PriceUpdated ==
  ASSUME StopsInv, wallet \in Wallets, NEW i \in DOMAIN orders, NEW price \in Int,
         update_price(i, price) \/ check_trigger(i, price)
  PROVE  \E n \in StopOrder : OrderWritten(i, n) /\ OrderKept(orders[i], n)
<1> DEFINE o == orders[i]
           h == Trailed(o, price)
<1>1. o \in StopOrder
  BY DEF StopsInv
<1>2. /\ h \in StopOrder /\ h.token = o.token /\ h.amount = o.amount
      /\ h.status = o.status /\ h.stop >= o.stop
  BY <1>1, TrailedOrder DEF IsMoved
<1>3. wallet' = wallet /\ o.status = "Active"
  BY DEF update_price, check_trigger
<1>4. CASE update_price(i, price)
  <2>1. orders' = [orders EXCEPT ![i] = h]
    BY <1>4 DEF update_price
  <2> HIDE DEF h
  <2>2. OrderPaid(o, h) /\ wallet' \in Wallets
    BY <1>1, <1>2, <1>3, OrderMoved DEF Open
  <2> QED BY <1>1, <1>2, <1>3, <2>1, <2>2 DEF OrderWritten, OrderKept, Open
<1>5. CASE check_trigger(i, price)
  <2> DEFINE n == [h EXCEPT !.status = "Triggered"]
  <2>1. orders' = [orders EXCEPT ![i] = n]
    BY <1>5 DEF check_trigger
  <2> HIDE DEF h
  <2>2. n \in StopOrder /\ n.token = h.token /\ n.amount = h.amount /\ n.status = "Triggered" /\ n.stop >= h.stop
    BY <1>2, StatusSet DEF IsMoved
  <2> HIDE DEF n, o
  <2>3. OrderPaid(o, n) /\ wallet' \in Wallets
    BY <1>1, <1>2, <1>3, <2>2, OrderMoved DEF Open
  <2>4. n.stop >= o.stop
    BY <1>1, <1>2, <2>2, OrderFields
  <2> QED BY <1>3, <2>1, <2>2, <2>3, <2>4 DEF OrderWritten, OrderKept, Open, o
<1> QED BY <1>4, <1>5

LEMMA OrderFinished ==
  ASSUME StopsInv, wallet \in Wallets, NEW i \in DOMAIN orders, Open(orders[i]),
         NEW status \in {"Executed", "Cancelled"}, Finish(i, status)
  PROVE  \E n \in StopOrder : OrderWritten(i, n) /\ OrderKept(orders[i], n)
<1> DEFINE o == orders[i]
           n == [o EXCEPT !.status = status]
<1>1. /\ orders' = [orders EXCEPT ![i] = n]
      /\ wallet' = Transfer(wallet, o.token, Jar, o.owner, o.amount)
  BY DEF Finish, Pay
<1>2. o \in StopOrder /\ o.token \in Token /\ o.owner \in Party /\ o.amount \in Nat /\ o.stop \in Int
  BY OrderFields DEF StopsInv
<1> HIDE DEF o
<1>3. IsMoved(n, o, status)
  BY <1>2, StatusSet
<1>4. Open(o)
  BY DEF o
<1> HIDE DEF n
<1>5. Gets(wallet, wallet', o.token, -o.amount)
  BY <1>1, <1>2, PaidOutOf
<1>6. ASSUME NEW u \in Token PROVE wallet'[u][Jar] = wallet[u][Jar] + OrderHolds(n, u) - OrderHolds(o, u)
  BY <1>2, <1>3, <1>4, <1>5, JarsAccount DEF Gets, OrderHolds, Open, IsMoved
<1>7. OrderPaid(o, n)
  BY <1>6 DEF OrderPaid
<1>8. OrderWritten(i, n) /\ OrderKept(o, n)
  BY <1>1, <1>3, <1>4, <1>5, <1>7 DEF OrderWritten, OrderKept, Gets, IsMoved, o
<1> QED BY <1>3, <1>8 DEF IsMoved, o

LEMMA StopsCalls ==
  ASSUME StopsInv, wallet \in Wallets, StopLossNext
  PROVE  \/ \E i \in DOMAIN orders : \E n \in StopOrder : OrderWritten(i, n) /\ OrderKept(orders[i], n)
         \/ \E n \in StopOrder : OrderOpened(n)
<1>a. Amounts \subseteq Nat /\ StopPrices \subseteq Int /\ Trails \subseteq Int
  BY LedgerAssumption, StopsAssumption
<1>1. CASE \E p \in Party, t \in Token, x \in Amounts, stop, limit, price \in StopPrices,
              trail \in Trails, kind \in OrderKind :
             place_order(p, t, x, stop, limit, trail, kind, price)
  BY <1>a, <1>1, OrderPlaced
<1>2. ASSUME NEW i \in DOMAIN orders,
             \/ \E price \in StopPrices :
                  update_price(i, price) \/ check_trigger(i, price) \/ execute_order(i, price)
             \/ \E p \in Party : cancel_order(p, i)
      PROVE  \E n \in StopOrder : OrderWritten(i, n) /\ OrderKept(orders[i], n)
  <2>1. CASE \E price \in StopPrices : update_price(i, price) \/ check_trigger(i, price)
    BY <1>a, <2>1, PriceUpdated
  <2>2. CASE \E price \in StopPrices : execute_order(i, price)
    <3>1. Open(orders[i]) /\ Finish(i, "Executed")
      BY <2>2 DEF execute_order, Open
    <3> QED BY <3>1, OrderFinished
  <2>3. CASE \E p \in Party : cancel_order(p, i)
    <3>1. Open(orders[i]) /\ Finish(i, "Cancelled")
      BY <2>3 DEF cancel_order, Open
    <3> QED BY <3>1, OrderFinished
  <2> QED BY <1>2, <2>1, <2>2, <2>3
<1> QED BY <1>1, <1>2 DEF StopLossNext

OrdersKept == \A i \in DOMAIN orders : OrderKept(orders[i], orders'[i])

LEMMA StopsStep ==
  ASSUME StopsInv, wallet \in Wallets, StopLossNext
  PROVE  StopsInv' /\ OrdersFollow /\ OrdersKept
<1>1. orders \in Seq(StopOrder)
  BY DEF StopsInv
<1>2. CASE \E i \in DOMAIN orders : \E n \in StopOrder : OrderWritten(i, n) /\ OrderKept(orders[i], n)
  <2>1. PICK i \in DOMAIN orders, n \in StopOrder : OrderWritten(i, n) /\ OrderKept(orders[i], n)
    BY <1>2
  <2>2. orders' \in Seq(StopOrder) /\ OrdersFollow
    BY <1>1, <2>1, OrdersChanged
  <2>3. ASSUME NEW j \in DOMAIN orders PROVE OrderKept(orders[j], orders'[j])
    <3>1. orders'[j] = (IF j = i THEN n ELSE orders[j]) /\ orders[j].stop \in Int
      BY <1>1, <2>1, SeqUpdated, OrderFields DEF OrderWritten
    <3> QED BY <2>1, <3>1 DEF OrderKept
  <2> QED BY <2>2, <2>3 DEF OrdersKept, StopsInv
<1>3. CASE \E n \in StopOrder : OrderOpened(n)
  <2>1. PICK n \in StopOrder : OrderOpened(n)
    BY <1>3
  <2>2. orders' \in Seq(StopOrder) /\ OrdersFollow
    BY <1>1, <2>1, OrdersChanged
  <2>3. ASSUME NEW j \in DOMAIN orders PROVE OrderKept(orders[j], orders'[j])
    <3>1. orders'[j] = orders[j] /\ orders[j].stop \in Int
      BY <1>1, <2>1, SeqAppended, OrderFields DEF OrderOpened
    <3> QED BY <3>1 DEF OrderKept
  <2> QED BY <2>2, <2>3 DEF OrdersKept, StopsInv
<1> QED BY <1>2, <1>3, StopsCalls

-----------------------------------------------------------------------------
(* Market makers *)

\* What the jar holds for the makers follows what is paid.
MakerBook(t) == [m \in MarketMaker |-> MakerHolds(m, t)]
MakersFollow ==
  /\ wallet' \in Wallets
  /\ \A t \in Token : /\ MakerInventory(t) \in Int /\ MakerInventory(t)' \in Int
                      /\ wallet'[t][Jar] = wallet[t][Jar] + MakerInventory(t)' - MakerInventory(t)
MakerPaid(m, n) ==
  \A t \in Token : wallet'[t][Jar] = wallet[t][Jar] + MakerHolds(n, t) - MakerHolds(m, t)
MakerWritten(i, n) ==
  /\ makers' = [makers EXCEPT ![i] = n]
  /\ wallet' \in Wallets /\ n \in MarketMaker /\ MakerPaid(makers[i], n)
MakerOpened(n) ==
  /\ makers' = Append(makers, n)
  /\ wallet' \in Wallets /\ n \in MarketMaker
  /\ \A t \in Token : wallet'[t][Jar] = wallet[t][Jar] + MakerHolds(n, t)

LEMMA MakerFields ==
  ASSUME NEW m \in MarketMaker
  PROVE  /\ m.maker \in Party /\ m.base \in Token /\ m.quote \in Token /\ m.x \in Nat /\ m.y \in Nat
         /\ m.fees \in Nat /\ m.status \in {"Active", "Paused", "Closed"}
         /\ m.free_x \in Nat /\ m.free_y \in Nat
BY DEF MarketMaker
LEMMA MakerBookType ==
  ASSUME NEW t \in Token
  PROVE  MakerBook(t) \in [MarketMaker -> Int]
<1>1. ASSUME NEW m \in MarketMaker PROVE MakerHolds(m, t) \in Int
  BY MakerFields DEF MakerHolds
<1> QED BY <1>1 DEF MakerBook
LEMMA MakersWorth ==
  ASSUME makers \in Seq(MarketMaker), NEW t \in Token
  PROVE  MakerInventory(t) = Worth(makers, MakerBook(t))
<1>1. \A i \in DOMAIN makers : MakerBook(t)[makers[i]] = MakerHolds(makers[i], t)
  BY DEF MakerBook
<1>2. [i \in DOMAIN makers |-> MakerHolds(makers[i], t)] = [i \in DOMAIN makers |-> MakerBook(t)[makers[i]]]
  BY <1>1
<1> QED BY <1>2 DEF MakerInventory, Worth
LEMMA MakersWorthNext ==
  ASSUME makers' \in Seq(MarketMaker), NEW t \in Token
  PROVE  MakerInventory(t)' = Worth(makers', MakerBook(t))
<1>1. \A i \in DOMAIN makers' : MakerBook(t)[makers'[i]] = MakerHolds(makers'[i], t)
  BY DEF MakerBook
<1>2. [i \in DOMAIN makers' |-> MakerHolds(makers'[i], t)]
        = [i \in DOMAIN makers' |-> MakerBook(t)[makers'[i]]]
  BY <1>1
<1> QED BY <1>2 DEF MakerInventory, MakerHolds, Worth

LEMMA MakersChanged ==
  ASSUME makers \in Seq(MarketMaker), wallet \in Wallets, NEW n \in MarketMaker, NEW i,
         (i \in DOMAIN makers /\ MakerWritten(i, n)) \/ MakerOpened(n)
  PROVE  makers' \in Seq(MarketMaker) /\ MakersFollow
<1>1. makers' \in Seq(MarketMaker)
  BY SeqUpdated, SeqAppended DEF MakerWritten, MakerOpened
<1>2. ASSUME NEW t \in Token
      PROVE  /\ MakerInventory(t) \in Int /\ MakerInventory(t)' \in Int
             /\ wallet'[t][Jar] = wallet[t][Jar] + MakerInventory(t)' - MakerInventory(t)
  <2> DEFINE H == MakerBook(t)
  <2>1. MakerInventory(t) = Worth(makers, H) /\ MakerInventory(t)' = Worth(makers', H)
    BY <1>1, MakersWorth, MakersWorthNext
  <2>2. /\ H \in [MarketMaker -> Int] /\ H[n] = MakerHolds(n, t)
        /\ \A j \in DOMAIN makers : H[makers[j]] = MakerHolds(makers[j], t)
    BY MakerBookType DEF MakerBook
  <2>3. wallet[t][Jar] \in Int
    BY JarsAccount
  <2> HIDE DEF H
  <2>4. Earns(wallet[t][Jar], wallet'[t][Jar], makers, makers', H)
    <3>1. CASE i \in DOMAIN makers /\ MakerWritten(i, n)
      <4>1. /\ i \in DOMAIN makers /\ makers' = [makers EXCEPT ![i] = n]
            /\ wallet'[t][Jar] = wallet[t][Jar] + H[n] - H[makers[i]]
        BY <2>2, <3>1 DEF MakerWritten, MakerPaid
      <4> QED BY <2>2, <2>3, <4>1, ListWritten
    <3>2. CASE MakerOpened(n)
      <4>1. makers' = Append(makers, n) /\ wallet'[t][Jar] = wallet[t][Jar] + H[n]
        BY <2>2, <3>2 DEF MakerOpened
      <4> QED BY <2>2, <2>3, <4>1, ListExtended
    <3> QED BY <3>1, <3>2
  <2> QED BY <2>1, <2>4 DEF Earns
<1>3. wallet' \in Wallets
  BY DEF MakerWritten, MakerOpened
<1> QED BY <1>1, <1>2, <1>3 DEF MakersFollow

\* A closed maker has only what was credited for nothing, and is off the list.
MakerSound(m) == m.status = "Closed" => m.x <= m.free_x /\ m.y + m.fees <= m.free_y
MakerStays(i, n) ==
  /\ MakerSound(n)
  /\ \/ activeMakers' = activeMakers /\ (n.status = "Closed" <=> makers[i].status = "Closed")
     \/ activeMakers' = activeMakers \ {i} /\ n.status = "Closed"

\* A maker with another inventory, and with another status or spread.
Stocked(m, x, y, f) == [m EXCEPT !.x = x, !.y = y, !.fees = f]
IsStocked(n, m, x, y, f) ==
  /\ n \in MarketMaker /\ n.base = m.base /\ n.quote = m.quote /\ n.status = m.status
  /\ n.x = x /\ n.y = y /\ n.fees = f /\ n.free_x = m.free_x /\ n.free_y = m.free_y
SameStock(n, m, status) ==
  /\ n \in MarketMaker /\ n.base = m.base /\ n.quote = m.quote /\ n.status = status
  /\ n.x = m.x /\ n.y = m.y /\ n.fees = m.fees /\ n.free_x = m.free_x /\ n.free_y = m.free_y
\* One that also was credited with something for nothing.
Drawn(m, x, y, f, a, b) == [m EXCEPT !.x = x, !.y = y, !.fees = f, !.free_x = a, !.free_y = b]
IsDrawn(n, m, x, y, f, a, b) ==
  /\ n \in MarketMaker /\ n.base = m.base /\ n.quote = m.quote /\ n.status = m.status
  /\ n.x = x /\ n.y = y /\ n.fees = f /\ n.free_x = a /\ n.free_y = b
LEMMA MakerDrawn ==
  ASSUME NEW m \in MarketMaker, NEW x \in Nat, NEW y \in Nat, NEW f \in Nat, NEW a \in Nat, NEW b \in Nat
  PROVE  IsDrawn(Drawn(m, x, y, f, a, b), m, x, y, f, a, b)
BY DEF MarketMaker, Drawn, IsDrawn
LEMMA MakerStocked ==
  ASSUME NEW m \in MarketMaker, NEW x \in Nat, NEW y \in Nat, NEW f \in Nat
  PROVE  IsStocked(Stocked(m, x, y, f), m, x, y, f)
BY DEF MarketMaker, Stocked, IsStocked
LEMMA MakerMarked ==
  ASSUME NEW m \in MarketMaker, NEW status \in {"Active", "Paused", "Closed"}
  PROVE  SameStock([m EXCEPT !.status = status], m, status)
BY DEF MarketMaker, SameStock
LEMMA MakerSpread ==
  ASSUME NEW m \in MarketMaker, NEW r \in 0 .. MaxSpread
  PROVE  SameStock([m EXCEPT !.spread = r], m, m.status)
BY DEF MarketMaker, SameStock

\* The jar gets what the inventory does, what was credited for nothing aside.
LEMMA MakerNetMoved ==
  ASSUME wallet \in Wallets, NEW m \in MarketMaker, NEW n \in MarketMaker, n.base = m.base, n.quote = m.quote,
         NEW u \in Int, NEW v \in Int, n.x - n.free_x = m.x - m.free_x + u,
         n.y + n.fees - n.free_y = m.y + m.fees - m.free_y + v,
         \/ GetsBoth(wallet, wallet', m.base, u, m.quote, v)
         \/ GetsBoth(wallet, wallet', m.quote, v, m.base, u)
  PROVE  MakerPaid(m, n) /\ wallet' \in Wallets
<1>1. /\ m.x - m.free_x \in Int /\ m.y + m.fees - m.free_y \in Int
      /\ \A t \in Token : wallet[t][Jar] \in Int
  BY MakerFields, JarsAccount
<1>2. ASSUME NEW t \in Token
      PROVE  wallet'[t][Jar] = wallet[t][Jar] + MakerHolds(n, t) - MakerHolds(m, t)
  <2> DEFINE du == IF m.base = t THEN u ELSE 0
             dv == IF m.quote = t THEN v ELSE 0
             mx == IF m.base = t THEN m.x - m.free_x ELSE 0
             my == IF m.quote = t THEN m.y + m.fees - m.free_y ELSE 0
  <2>1. wallet'[t][Jar] = wallet[t][Jar] + du + dv
    BY <1>1 DEF GetsBoth
  <2>2. MakerHolds(n, t) = (mx + du) + (my + dv)
    BY <1>1 DEF MakerHolds
  <2>3. MakerHolds(m, t) = mx + my
    BY DEF MakerHolds
  <2>4. wallet[t][Jar] \in Int /\ mx \in Int /\ my \in Int /\ du \in Int /\ dv \in Int
    BY <1>1
  <2> HIDE DEF du, dv, mx, my
  <2> QED BY <2>1, <2>2, <2>3, <2>4
<1> QED BY <1>2 DEF GetsBoth, MakerPaid
LEMMA MakerMoved ==
  ASSUME wallet \in Wallets, NEW m \in MarketMaker, NEW n \in MarketMaker, n.base = m.base, n.quote = m.quote,
         n.free_x = m.free_x, n.free_y = m.free_y,
         NEW u \in Int, NEW v \in Int, n.x = m.x + u, n.y + n.fees = m.y + m.fees + v,
         \/ GetsBoth(wallet, wallet', m.base, u, m.quote, v)
         \/ GetsBoth(wallet, wallet', m.quote, v, m.base, u)
  PROVE  MakerPaid(m, n) /\ wallet' \in Wallets
<1>1. n.x - n.free_x = m.x - m.free_x + u /\ n.y + n.fees - n.free_y = m.y + m.fees - m.free_y + v
  BY MakerFields
<1> QED BY <1>1, MakerNetMoved

LEMMA MakerRegistered ==
  ASSUME MakersInv, wallet \in Wallets, NEW p \in Party, NEW base \in Token, NEW quote \in Token,
         NEW r \in Nat, NEW x \in Nat, NEW y \in Nat, NEW max \in Nat,
         register_maker(p, base, quote, r, x, y, max)
  PROVE  \E n \in MarketMaker : /\ MakerOpened(n) /\ n.status = "Active"
                                /\ activeMakers' = activeMakers \cup {Len(makers) + 1}
<1> DEFINE n == [maker |-> p, base |-> base, quote |-> quote, spread |-> r, x |-> x, y |-> y,
                 max |-> max, fees |-> 0, status |-> "Active", free_x |-> 0, free_y |-> 0]
<1>1. /\ makers' = Append(makers, n) /\ activeMakers' = activeMakers \cup {Len(makers) + 1}
      /\ wallet' = Transfer(Transfer(wallet, base, p, Jar, x), quote, p, Jar, y)
      /\ r \in 0 .. MaxSpread /\ base # quote
  BY MakersAssumption DEF register_maker, PayPair, SpreadOk
<1>2. /\ n \in MarketMaker /\ n.base = base /\ n.quote = quote /\ n.x = x /\ n.y = y
      /\ n.fees = 0 /\ n.status = "Active" /\ n.free_x = 0 /\ n.free_y = 0
  BY <1>1 DEF MarketMaker
<1> HIDE DEF n
<1>3. GetsBoth(wallet, wallet', base, x, quote, y)
  BY <1>1, PaidBothIn
<1>4. ASSUME NEW u \in Token PROVE wallet'[u][Jar] = wallet[u][Jar] + MakerHolds(n, u)
  <2>1. /\ wallet'[u][Jar] = wallet[u][Jar] + (IF u = base THEN x ELSE 0) + (IF u = quote THEN y ELSE 0)
        /\ wallet[u][Jar] \in Int
    BY <1>3, JarsAccount DEF GetsBoth
  <2>2. MakerHolds(n, u) = (IF u = base THEN x ELSE 0) + (IF u = quote THEN y ELSE 0)
    BY <1>2 DEF MakerHolds
  <2> QED BY <2>1, <2>2
<1> QED BY <1>1, <1>2, <1>3, <1>4 DEF MakerOpened, GetsBoth

LEMMA FeeType ==
  ASSUME NEW y \in Nat
  PROVE  Fee(y) \in Nat
<1> DEFINE z == y * TradeFee
<1>1. z \in Nat
  BY MakersAssumption, Product
<1> HIDE DEF z
<1>2. z \div Bps \in Nat
  BY <1>1, LedgerAssumption, Portion
<1> QED BY <1>2 DEF Fee, z

\* Half the spread is at most the price.
LEMMA HalfSpreadType ==
  ASSUME NEW m \in MarketMaker, NEW price \in Nat
  PROVE  HalfSpread(m, price) \in 0 .. price
<1> DEFINE s == m.spread
           d == 2 * Bps
           z == price * s
<1>1. s \in Nat /\ s <= d /\ d \in Nat \ {0}
  BY MakersAssumption, LedgerAssumption DEF MarketMaker
<1> HIDE DEF s, d
<1>2. z \in Nat /\ z <= price * d
  BY <1>1, Product, ProductOrder
<1>3. z \div d \in Nat /\ d * (z \div d) <= z
  <2> HIDE DEF z
  <2> QED BY <1>1, <1>2, Portion
<1> DEFINE h == z \div d
<1>4. h \in Nat /\ d * h <= price * d
  BY <1>1, <1>2, <1>3
<1> HIDE DEF h
<1>5. h > price => FALSE
  <2> SUFFICES ASSUME h > price PROVE FALSE
    OBVIOUS
  <2>1. d * (price + 1) <= d * h
    BY <1>1, <1>4, ProductOrder
  <2>2. d * (price + 1) = price * d + d /\ d * h \in Int /\ price * d \in Int
    BY <1>1, <1>4
  <2> QED BY <1>1, <1>4, <2>1, <2>2
<1> QED BY <1>4, <1>5 DEF HalfSpread, h, z, s, d

\* What a trade of x units at a price comes to.
LEMMA TradeValue ==
  ASSUME NEW x \in Nat, NEW price \in Nat
  PROVE  (x * price) \div MakerUnit \in Nat
<1> DEFINE z == x * price
<1>1. z \in Nat
  BY Product
<1> HIDE DEF z
<1>2. z \div MakerUnit \in Nat
  BY <1>1, MakersAssumption, Portion
<1> QED BY <1>2 DEF z

LEMMA MakerBought ==
  ASSUME MakersInv, wallet \in Wallets, NEW p \in Party, NEW i \in DOMAIN makers, NEW x \in Nat,
         NEW price \in Nat, NEW max \in Nat, execute_buy(p, i, x, price, max)
  PROVE  \E n \in MarketMaker : MakerWritten(i, n) /\ MakerStays(i, n)
<1> DEFINE m == makers[i]
           y == (x * (price + HalfSpread(m, price))) \div MakerUnit
           n == Stocked(m, m.x - x, m.y + y, m.fees + Fee(y))
<1>1. /\ m.status = "Active" /\ x <= m.x
      /\ makers' = [makers EXCEPT ![i] = n] /\ activeMakers' = activeMakers
      /\ wallet' = Transfer(Transfer(wallet, m.quote, p, Jar, y + Fee(y)), m.base, Jar, p, x)
  BY DEF execute_buy, Trade, Stocked
<1>2. m \in MarketMaker
  BY DEF MakersInv
<1>3. y \in Nat
  <2>1. price + HalfSpread(m, price) \in Nat
    BY <1>2, HalfSpreadType
  <2> QED BY <2>1, TradeValue
<1> HIDE DEF m, y
<1>4. Fee(y) \in Nat /\ m.x \in Nat /\ m.y \in Nat /\ m.fees \in Nat /\ m.base \in Token /\ m.quote \in Token
  BY <1>2, <1>3, FeeType, MakerFields
<1>5. IsStocked(n, m, m.x - x, m.y + y, m.fees + Fee(y))
  <2>1. m.x - x \in Nat /\ m.y + y \in Nat /\ m.fees + Fee(y) \in Nat
    BY <1>1, <1>3, <1>4
  <2> QED BY <1>2, <2>1, MakerStocked
<1> HIDE DEF n
<1>6. GetsBoth(wallet, wallet', m.quote, y + Fee(y), m.base, -x)
  BY <1>1, <1>3, <1>4, PaidInAndOut
<1>7. MakerPaid(m, n) /\ wallet' \in Wallets
  <2> DEFINE u == -x
             v == y + Fee(y)
  <2>1. u \in Int /\ v \in Int /\ n.x = m.x + u /\ n.y + n.fees = m.y + m.fees + v
    <3> DEFINE f == Fee(y)
               my == m.y
               mf == m.fees
    <3>1. n.x = m.x - x /\ n.y = my + y /\ n.fees = mf + f /\ f \in Nat /\ my \in Nat /\ mf \in Nat
      BY <1>4, <1>5 DEF IsStocked
    <3> HIDE DEF f, my, mf
    <3>2. n.y + n.fees = my + mf + (y + f) /\ y + f \in Int
      BY <1>3, <3>1
    <3> QED BY <1>4, <3>1, <3>2 DEF f, my, mf
  <2>2. GetsBoth(wallet, wallet', m.quote, v, m.base, u)
    BY <1>6
  <2> HIDE DEF u, v
  <2> QED BY <1>2, <1>5, <2>1, <2>2, MakerMoved DEF IsStocked
<1>8. MakerWritten(i, n)
  BY <1>1, <1>5, <1>7 DEF MakerWritten, IsStocked, m
<1>9. MakerStays(i, n)
  BY <1>1, <1>5 DEF MakerStays, MakerSound, IsStocked, m
<1> QED BY <1>5, <1>8, <1>9 DEF IsStocked

LEMMA MakerSold ==
  ASSUME MakersInv, wallet \in Wallets, NEW p \in Party, NEW i \in DOMAIN makers, NEW x \in Nat,
         NEW price \in Nat, NEW min \in Nat, execute_sell(p, i, x, price, min)
  PROVE  \E n \in MarketMaker : MakerWritten(i, n) /\ MakerStays(i, n)
<1> DEFINE m == makers[i]
           y == (x * (price - HalfSpread(m, price))) \div MakerUnit
           n == Stocked(m, m.x + x, m.y - y, m.fees + Fee(y))
<1>1. /\ m.status = "Active" /\ y <= m.y
      /\ makers' = [makers EXCEPT ![i] = n] /\ activeMakers' = activeMakers
      /\ wallet' = Transfer(Transfer(wallet, m.quote, p, Jar, Fee(y) - y), m.base, Jar, p, -x)
  <2>1. m.y >= y /\ m \in MarketMaker
    BY DEF execute_sell, MakersInv
  <2>2. y <= m.y
    <3> HIDE DEF y, m
    <3> QED BY <2>1
  <2> QED BY <2>2 DEF execute_sell, Trade, Stocked
<1>2. m \in MarketMaker
  BY DEF MakersInv
<1>3. y \in Nat
  <2>1. price - HalfSpread(m, price) \in Nat
    BY <1>2, HalfSpreadType
  <2> QED BY <2>1, TradeValue
<1> HIDE DEF m, y
<1>4. Fee(y) \in Nat /\ m.x \in Nat /\ m.y \in Nat /\ m.fees \in Nat /\ m.base \in Token /\ m.quote \in Token
  BY <1>2, <1>3, FeeType, MakerFields
<1>5. IsStocked(n, m, m.x + x, m.y - y, m.fees + Fee(y))
  <2>1. m.x + x \in Nat /\ m.y - y \in Nat /\ m.fees + Fee(y) \in Nat
    BY <1>1, <1>3, <1>4
  <2> QED BY <1>2, <2>1, MakerStocked
<1> HIDE DEF n
<1>6. GetsBoth(wallet, wallet', m.quote, Fee(y) - y, m.base, -(-x))
  <2>1. Fee(y) - y \in Int /\ -x \in Int
    BY <1>3, <1>4
  <2> QED BY <1>1, <1>4, <2>1, PaidInAndOut
<1>7. MakerPaid(m, n) /\ wallet' \in Wallets
  <2> DEFINE u == -(-x)
             v == Fee(y) - y
  <2>1. u \in Int /\ v \in Int /\ n.x = m.x + u /\ n.y + n.fees = m.y + m.fees + v
    BY <1>3, <1>4, <1>5 DEF IsStocked
  <2>2. GetsBoth(wallet, wallet', m.quote, v, m.base, u)
    BY <1>6
  <2> HIDE DEF u, v
  <2> QED BY <1>2, <1>5, <2>1, <2>2, MakerMoved DEF IsStocked
<1>8. MakerWritten(i, n)
  BY <1>1, <1>5, <1>7 DEF MakerWritten, IsStocked, m
<1>9. MakerStays(i, n)
  BY <1>1, <1>5 DEF MakerStays, MakerSound, IsStocked, m
<1> QED BY <1>5, <1>8, <1>9 DEF IsStocked

LEMMA InventoryDeposited ==
  ASSUME MakersInv, wallet \in Wallets, NEW p \in Party, NEW i \in DOMAIN makers, NEW x \in Nat,
         NEW y \in Nat, deposit_inventory(p, i, x, y)
  PROVE  \E n \in MarketMaker : MakerWritten(i, n) /\ MakerStays(i, n)
<1> DEFINE m == makers[i]
           n == Stocked(m, m.x + x, m.y + y, m.fees)
<1>2. m \in MarketMaker
  BY DEF MakersInv
<1>1. /\ m.status # "Closed"
      /\ makers' = [makers EXCEPT ![i] = n] /\ activeMakers' = activeMakers
      /\ wallet' = Transfer(Transfer(wallet, m.base, p, Jar, x), m.quote, p, Jar, y)
  <2> DEFINE k == [[m EXCEPT !.x = @ + x] EXCEPT !.y = @ + y]
  <2>1. k = n
    BY <1>2 DEF Stocked, MarketMaker
  <2>2. makers' = [makers EXCEPT ![i] = k]
    BY DEF deposit_inventory, MakersInv
  <2> QED BY <2>1, <2>2 DEF deposit_inventory, PayPair
<1> HIDE DEF m
<1>4. m.x \in Nat /\ m.y \in Nat /\ m.fees \in Nat /\ m.base \in Token /\ m.quote \in Token
  BY <1>2, MakerFields
<1>5. IsStocked(n, m, m.x + x, m.y + y, m.fees)
  <2>1. m.x + x \in Nat /\ m.y + y \in Nat
    BY <1>4
  <2> QED BY <1>2, <1>4, <2>1, MakerStocked
<1> HIDE DEF n
<1>6. GetsBoth(wallet, wallet', m.base, x, m.quote, y)
  BY <1>1, <1>4, PaidBothIn
<1>7. MakerPaid(m, n) /\ wallet' \in Wallets
  <2>1. n.x = m.x + x /\ n.y + n.fees = m.y + m.fees + y
    BY <1>4, <1>5 DEF IsStocked
  <2> QED BY <1>2, <1>5, <1>6, <2>1, MakerMoved DEF IsStocked
<1>8. MakerWritten(i, n)
  BY <1>1, <1>5, <1>7 DEF MakerWritten, IsStocked, m
<1>9. MakerStays(i, n)
  BY <1>1, <1>5 DEF MakerStays, MakerSound, IsStocked, m
<1> QED BY <1>5, <1>8, <1>9 DEF IsStocked

LEMMA InventoryWithdrawn ==
  ASSUME MakersInv, wallet \in Wallets, NEW p \in Party, NEW i \in DOMAIN makers, NEW x \in Int,
         NEW y \in Int, withdraw_inventory(p, i, x, y)
  PROVE  \E n \in MarketMaker : MakerWritten(i, n) /\ MakerStays(i, n)
<1> DEFINE m == makers[i]
           dx == PaidOut(x)
           dy == PaidOut(y)
           a == CreditedFree(x)
           b == CreditedFree(y)
           f == Smaller(m.fees, dy)
           n == Drawn(m, m.x - x, m.y - (y - f), m.fees - f, m.free_x + a, m.free_y + b)
<1>2. m \in MarketMaker /\ MakerSound(m)
  BY DEF MakersInv, MakersSound, MakerSound
<1>1. /\ x <= m.x /\ y <= m.y + m.fees
      /\ makers' = [makers EXCEPT ![i] = n] /\ activeMakers' = activeMakers
      /\ wallet' = Transfer(Transfer(wallet, m.base, Jar, p, dx), m.quote, Jar, p, dy)
  BY DEF withdraw_inventory, PayPair, Drawn
<1>3. /\ dx \in Nat /\ a \in Nat /\ x = dx - a /\ (a > 0 => dx = 0)
      /\ dy \in Nat /\ b \in Nat /\ y = dy - b /\ (b > 0 => dy = 0)
  BY DEF PaidOut, CreditedFree, Larger
<1> HIDE DEF m, dx, dy, a, b
<1>4. /\ m.x \in Nat /\ m.y \in Nat /\ m.fees \in Nat /\ m.base \in Token /\ m.quote \in Token
      /\ m.free_x \in Nat /\ m.free_y \in Nat
  BY <1>2, MakerFields
<1>a. f \in Nat /\ f <= m.fees /\ y - f <= m.y
  BY <1>1, <1>3, <1>4 DEF Smaller
<1> HIDE DEF f
<1>5. IsDrawn(n, m, m.x - x, m.y - (y - f), m.fees - f, m.free_x + a, m.free_y + b)
  <2>1. /\ m.x - x \in Nat /\ m.y - (y - f) \in Nat /\ m.fees - f \in Nat
        /\ m.free_x + a \in Nat /\ m.free_y + b \in Nat
    BY <1>1, <1>3, <1>4, <1>a
  <2> QED BY <1>2, <2>1, MakerDrawn
<1> HIDE DEF n
<1>6. GetsBoth(wallet, wallet', m.base, -dx, m.quote, -dy)
  BY <1>1, <1>3, <1>4, PaidBothOut
<1>7. MakerPaid(m, n) /\ wallet' \in Wallets
  <2> DEFINE u == -dx
             v == -dy
  <2>1. /\ u \in Int /\ v \in Int /\ n.x - n.free_x = m.x - m.free_x + u
        /\ n.y + n.fees - n.free_y = m.y + m.fees - m.free_y + v
    BY <1>3, <1>4, <1>5, <1>a DEF IsDrawn
  <2>2. GetsBoth(wallet, wallet', m.base, u, m.quote, v)
    BY <1>6
  <2> HIDE DEF u, v
  <2> QED BY <1>2, <1>5, <2>1, <2>2, MakerNetMoved DEF IsDrawn
<1>8. MakerWritten(i, n)
  BY <1>1, <1>5, <1>7 DEF MakerWritten, IsDrawn, m
<1>9. MakerStays(i, n)
  <2>1. MakerSound(n)
    BY <1>1, <1>2, <1>3, <1>4, <1>5, <1>a DEF MakerSound, IsDrawn
  <2> QED BY <1>1, <1>5, <2>1 DEF MakerStays, IsDrawn, m
<1> QED BY <1>5, <1>8, <1>9 DEF IsDrawn

LEMMA MakerClosed ==
  ASSUME MakersInv, wallet \in Wallets, NEW p \in Party, NEW i \in DOMAIN makers, close_maker(p, i)
  PROVE  \E n \in MarketMaker : MakerWritten(i, n) /\ MakerStays(i, n)
<1> DEFINE m == makers[i]
           h == Stocked(m, 0, 0, 0)
           n == [h EXCEPT !.status = "Closed"]
<1>2. m \in MarketMaker
  BY DEF MakersInv
<1>1. /\ makers' = [makers EXCEPT ![i] = n] /\ activeMakers' = activeMakers \ {i}
      /\ wallet' = Transfer(Transfer(wallet, m.base, Jar, p, m.x), m.quote, Jar, p, m.y + m.fees)
  BY DEF close_maker, PayPair, Stocked
<1> HIDE DEF m
<1>4. m.x \in Nat /\ m.y \in Nat /\ m.fees \in Nat /\ m.base \in Token /\ m.quote \in Token
  BY <1>2, MakerFields
<1>5. IsStocked(h, m, 0, 0, 0)
  BY <1>2, MakerStocked
<1> HIDE DEF h
<1>6. SameStock(n, h, "Closed")
  BY <1>5, MakerMarked DEF IsStocked
<1> HIDE DEF n
<1>7. MakerPaid(m, n) /\ wallet' \in Wallets
  <2> DEFINE u == -m.x
             v == -(m.y + m.fees)
  <2>1. u \in Int /\ v \in Int /\ n.x = m.x + u /\ n.y + n.fees = m.y + m.fees + v
    BY <1>4, <1>5, <1>6 DEF IsStocked, SameStock
  <2>2. GetsBoth(wallet, wallet', m.base, u, m.quote, v)
    <3>1. m.x \in Int /\ m.y + m.fees \in Int
      BY <1>4
    <3> QED BY <1>1, <1>4, <3>1, PaidBothOut
  <2> HIDE DEF u, v
  <2> QED BY <1>2, <1>5, <1>6, <2>1, <2>2, MakerMoved DEF IsStocked, SameStock
<1>8. MakerWritten(i, n)
  BY <1>1, <1>6, <1>7 DEF MakerWritten, SameStock, m
<1>9. MakerStays(i, n)
  <2>1. n.free_x \in Nat /\ n.free_y \in Nat /\ n.x = 0 /\ n.y + n.fees = 0
    BY <1>5, <1>6, MakerFields DEF IsStocked, SameStock
  <2> QED BY <1>1, <1>6, <2>1 DEF MakerStays, MakerSound, SameStock, m
<1> QED BY <1>6, <1>8, <1>9 DEF SameStock

LEMMA MakerSet ==
  ASSUME MakersInv, wallet \in Wallets, NEW p \in Party, NEW i \in DOMAIN makers,
         \/ \E r \in Spreads : update_spread(p, i, r)
         \/ \E active \in BOOLEAN : set_maker_status(p, i, active)
  PROVE  \E n \in MarketMaker : MakerWritten(i, n) /\ MakerStays(i, n)
<1> DEFINE m == makers[i]
<1>1. m \in MarketMaker /\ MakerSound(m)
  BY DEF MakersInv, MakersSound, MakerSound
<1>2. wallet' = wallet /\ activeMakers' = activeMakers
  BY DEF update_spread, set_maker_status
<1>3. ASSUME NEW n, NEW status, SameStock(n, m, status), makers' = [makers EXCEPT ![i] = n],
             status = m.status \/ (status # "Closed" /\ m.status # "Closed")
      PROVE  \E k \in MarketMaker : MakerWritten(i, k) /\ MakerStays(i, k)
  <2>1. \A t \in Token : MakerHolds(n, t) = MakerHolds(m, t) /\ MakerHolds(m, t) \in Int
    BY <1>1, <1>3, MakerFields DEF MakerHolds, SameStock
  <2>2. MakerPaid(m, n)
    BY <1>2, <2>1, JarsAccount DEF MakerPaid
  <2>3. MakerWritten(i, n)
    BY <1>2, <1>3, <2>2 DEF MakerWritten, SameStock
  <2>4. MakerStays(i, n)
    BY <1>1, <1>2, <1>3 DEF MakerStays, MakerSound, SameStock
  <2> QED BY <1>3, <2>3, <2>4 DEF SameStock
<1>4. CASE \E r \in Spreads : update_spread(p, i, r)
  <2>1. PICK r \in Spreads : update_spread(p, i, r)
    BY <1>4
  <2>2. r \in 0 .. MaxSpread
    BY <2>1, MakersAssumption DEF update_spread, SpreadOk
  <2>3. SameStock([m EXCEPT !.spread = r], m, m.status)
    BY <1>1, <2>2, MakerSpread
  <2>4. makers' = [makers EXCEPT ![i] = [m EXCEPT !.spread = r]]
    BY <2>1 DEF update_spread
  <2> HIDE DEF m
  <2> QED BY <1>3, <2>3, <2>4
<1>5. CASE \E active \in BOOLEAN : set_maker_status(p, i, active)
  <2>1. PICK active \in BOOLEAN : set_maker_status(p, i, active)
    BY <1>5
  <2> DEFINE s == IF active THEN "Active" ELSE "Paused"
  <2>2. s \in {"Active", "Paused", "Closed"} /\ s # "Closed" /\ m.status # "Closed"
    BY <2>1 DEF set_maker_status
  <2>4. makers' = [makers EXCEPT ![i] = [m EXCEPT !.status = s]]
    BY <2>1 DEF set_maker_status
  <2> HIDE DEF m, s
  <2>3. SameStock([m EXCEPT !.status = s], m, s)
    BY <1>1, <2>2, MakerMarked
  <2> QED BY <1>3, <2>2, <2>3, <2>4
<1> QED BY <1>4, <1>5

LEMMA MakersCalls ==
  ASSUME MakersInv, wallet \in Wallets, MarketMakingNext
  PROVE  \/ \E i \in DOMAIN makers : \E n \in MarketMaker : MakerWritten(i, n) /\ MakerStays(i, n)
         \/ \E n \in MarketMaker : /\ MakerOpened(n) /\ n.status = "Active"
                                   /\ activeMakers' = activeMakers \cup {Len(makers) + 1}
<1> DEFINE Sums == Amounts \cup {0}
<1>a. /\ Amounts \subseteq Nat /\ Sums \subseteq Nat /\ Spreads \subseteq Nat
      /\ MidPrices \subseteq Nat /\ MaxTrades \subseteq Nat /\ Withdrawals \subseteq Int
  BY LedgerAssumption, MakersAssumption
<1>1. CASE \E p \in Party, a, b \in Token, r \in Spreads, x, y \in Sums, max \in MaxTrades :
             register_maker(p, a, b, r, x, y, max)
  <2> HIDE DEF Sums
  <2> QED BY <1>a, <1>1, MakerRegistered
<1>2. ASSUME NEW p \in Party, NEW i \in DOMAIN makers,
             \/ \E x \in Amounts, price \in MidPrices, bound \in Amounts :
                  execute_buy(p, i, x, price, bound) \/ execute_sell(p, i, x, price, bound)
             \/ \E x, y \in Sums : deposit_inventory(p, i, x, y)
             \/ \E x, y \in Withdrawals : withdraw_inventory(p, i, x, y)
             \/ \E r \in Spreads : update_spread(p, i, r)
             \/ \E active \in BOOLEAN : set_maker_status(p, i, active)
             \/ close_maker(p, i)
      PROVE  \E n \in MarketMaker : MakerWritten(i, n) /\ MakerStays(i, n)
  <2> HIDE DEF Sums
  <2>1. CASE \E x \in Amounts, price \in MidPrices, bound \in Amounts : execute_buy(p, i, x, price, bound)
    BY <1>a, <2>1, MakerBought
  <2>2. CASE \E x \in Amounts, price \in MidPrices, bound \in Amounts : execute_sell(p, i, x, price, bound)
    BY <1>a, <2>2, MakerSold
  <2>3. CASE \E x, y \in Sums : deposit_inventory(p, i, x, y)
    BY <1>a, <2>3, InventoryDeposited
  <2>4. CASE \E x, y \in Withdrawals : withdraw_inventory(p, i, x, y)
    BY <1>a, <2>4, InventoryWithdrawn
  <2>5. CASE (\E r \in Spreads : update_spread(p, i, r))
             \/ \E active \in BOOLEAN : set_maker_status(p, i, active)
    BY <2>5, MakerSet
  <2>6. CASE close_maker(p, i)
    BY <2>6, MakerClosed
  <2> QED BY <1>2, <2>1, <2>2, <2>3, <2>4, <2>5, <2>6
<1> QED BY <1>1, <1>2 DEF MarketMakingNext

LEMMA MakersStep ==
  ASSUME MakersInv, wallet \in Wallets, MarketMakingNext
  PROVE  MakersInv' /\ MakersFollow
<1>1. makers \in Seq(MarketMaker) /\ MakersSound
  BY DEF MakersInv
<1> DEFINE Stands(m, on) == /\ m.x >= 0 /\ m.y >= 0 /\ m.fees >= 0
                            /\ on <=> m.status # "Closed"
                            /\ m.status = "Closed" => m.x <= m.free_x /\ m.y + m.fees <= m.free_y
<1>2. \A j \in DOMAIN makers : Stands(makers[j], j \in activeMakers)
  BY <1>1 DEF MakersSound
<1>3. CASE \E i \in DOMAIN makers : \E n \in MarketMaker : MakerWritten(i, n) /\ MakerStays(i, n)
  <2>1. PICK i \in DOMAIN makers, n \in MarketMaker : MakerWritten(i, n) /\ MakerStays(i, n)
    BY <1>3
  <2>2. makers' \in Seq(MarketMaker) /\ MakersFollow
    BY <1>1, <2>1, MakersChanged
  <2>3. /\ DOMAIN makers' = DOMAIN makers
        /\ \A j \in DOMAIN makers : makers'[j] = IF j = i THEN n ELSE makers[j]
    BY <1>1, <2>1, SeqUpdated DEF MakerWritten
  <2>4. n.x \in Nat /\ n.y \in Nat /\ n.fees \in Nat
    BY MakerFields
  <2>5. ASSUME NEW j \in DOMAIN makers PROVE Stands(makers'[j], j \in activeMakers')
    <3>1. CASE j = i
      BY <1>2, <2>1, <2>3, <2>4, <3>1 DEF MakerStays, MakerSound
    <3>2. CASE j # i
      BY <1>2, <2>1, <2>3, <3>2 DEF MakerStays
    <3> QED BY <3>1, <3>2
  <2> QED BY <2>2, <2>3, <2>5 DEF MakersInv, MakersSound
<1>4. CASE \E n \in MarketMaker : /\ MakerOpened(n) /\ n.status = "Active"
                                  /\ activeMakers' = activeMakers \cup {Len(makers) + 1}
  <2>1. PICK n \in MarketMaker : /\ MakerOpened(n) /\ n.status = "Active"
                                 /\ activeMakers' = activeMakers \cup {Len(makers) + 1}
    BY <1>4
  <2>2. makers' \in Seq(MarketMaker) /\ MakersFollow
    BY <1>1, <2>1, MakersChanged
  <2>3. /\ DOMAIN makers' = 1 .. Len(makers) + 1 /\ DOMAIN makers = 1 .. Len(makers)
        /\ \A j \in DOMAIN makers : makers'[j] = makers[j]
        /\ makers'[Len(makers) + 1] = n /\ Len(makers) \in Nat
    BY <1>1, <2>1, SeqAppended DEF MakerOpened
  <2>4. n.x \in Nat /\ n.y \in Nat /\ n.fees \in Nat
    BY MakerFields
  <2>5. ASSUME NEW j \in DOMAIN makers' PROVE Stands(makers'[j], j \in activeMakers')
    <3>1. CASE j = Len(makers) + 1
      BY <2>1, <2>3, <2>4, <3>1
    <3>2. CASE j # Len(makers) + 1
      <4>1. j \in DOMAIN makers /\ (j \in activeMakers' <=> j \in activeMakers) /\ makers'[j] = makers[j]
        BY <2>1, <2>3, <3>2
      <4> QED BY <1>2, <4>1
    <3> QED BY <3>1, <3>2
  <2> QED BY <2>2, <2>5 DEF MakersInv, MakersSound
<1> QED BY <1>3, <1>4, MakersCalls

-----------------------------------------------------------------------------
(* Bonding curves *)

\* What the jar holds for the curves follows what is paid.
CurveBook(t) == [m \in Curve |-> CurveHolds(m, t)]
CurvesFollow ==
  /\ wallet' \in Wallets
  /\ \A t \in Token : /\ CurveHoldings(t) \in Int /\ CurveHoldings(t)' \in Int
                      /\ wallet'[t][Jar] = wallet[t][Jar] + CurveHoldings(t)' - CurveHoldings(t)
CurvePaid(m, n) ==
  \A t \in Token : wallet'[t][Jar] = wallet[t][Jar] + CurveHolds(n, t) - CurveHolds(m, t)
CurveWritten(i, n) ==
  /\ curves' = [curves EXCEPT ![i] = n]
  /\ wallet' \in Wallets /\ n \in Curve /\ CurvePaid(curves[i], n)
CurveOpened(n) ==
  /\ curves' = Append(curves, n)
  /\ wallet' \in Wallets /\ n \in Curve
  /\ \A t \in Token : wallet'[t][Jar] = wallet[t][Jar] + CurveHolds(n, t)

LEMMA CurveFields ==
  ASSUME NEW m \in Curve
  PROVE  /\ m.terms \in CurveTerms /\ m.tip \in Token /\ m.token \in Token /\ m.supply \in Int
         /\ m.reserve \in Int /\ m.fees \in Int /\ m.sent \in Int
BY DEF Curve
LEMMA CurveBookType ==
  ASSUME NEW t \in Token
  PROVE  CurveBook(t) \in [Curve -> Int]
<1>1. ASSUME NEW m \in Curve PROVE CurveHolds(m, t) \in Int
  BY CurveFields DEF CurveHolds
<1> QED BY <1>1 DEF CurveBook
LEMMA CurvesWorth ==
  ASSUME curves \in Seq(Curve), NEW t \in Token
  PROVE  CurveHoldings(t) = Worth(curves, CurveBook(t))
<1>1. \A i \in DOMAIN curves : CurveBook(t)[curves[i]] = CurveHolds(curves[i], t)
  BY DEF CurveBook
<1>2. [i \in DOMAIN curves |-> CurveHolds(curves[i], t)] = [i \in DOMAIN curves |-> CurveBook(t)[curves[i]]]
  BY <1>1
<1> QED BY <1>2 DEF CurveHoldings, Worth
LEMMA CurvesWorthNext ==
  ASSUME curves' \in Seq(Curve), NEW t \in Token
  PROVE  CurveHoldings(t)' = Worth(curves', CurveBook(t))
<1>1. \A i \in DOMAIN curves' : CurveBook(t)[curves'[i]] = CurveHolds(curves'[i], t)
  BY DEF CurveBook
<1>2. [i \in DOMAIN curves' |-> CurveHolds(curves'[i], t)]
        = [i \in DOMAIN curves' |-> CurveBook(t)[curves'[i]]]
  BY <1>1
<1> QED BY <1>2 DEF CurveHoldings, CurveHolds, Worth

LEMMA CurvesChanged ==
  ASSUME curves \in Seq(Curve), wallet \in Wallets, NEW n \in Curve, NEW i,
         (i \in DOMAIN curves /\ CurveWritten(i, n)) \/ CurveOpened(n)
  PROVE  curves' \in Seq(Curve) /\ CurvesFollow
<1>1. curves' \in Seq(Curve)
  BY SeqUpdated, SeqAppended DEF CurveWritten, CurveOpened
<1>2. ASSUME NEW t \in Token
      PROVE  /\ CurveHoldings(t) \in Int /\ CurveHoldings(t)' \in Int
             /\ wallet'[t][Jar] = wallet[t][Jar] + CurveHoldings(t)' - CurveHoldings(t)
  <2> DEFINE H == CurveBook(t)
  <2>1. CurveHoldings(t) = Worth(curves, H) /\ CurveHoldings(t)' = Worth(curves', H)
    BY <1>1, CurvesWorth, CurvesWorthNext
  <2>2. /\ H \in [Curve -> Int] /\ H[n] = CurveHolds(n, t)
        /\ \A j \in DOMAIN curves : H[curves[j]] = CurveHolds(curves[j], t)
    BY CurveBookType DEF CurveBook
  <2>3. wallet[t][Jar] \in Int
    BY JarsAccount
  <2> HIDE DEF H
  <2>4. Earns(wallet[t][Jar], wallet'[t][Jar], curves, curves', H)
    <3>1. CASE i \in DOMAIN curves /\ CurveWritten(i, n)
      <4>1. /\ i \in DOMAIN curves /\ curves' = [curves EXCEPT ![i] = n]
            /\ wallet'[t][Jar] = wallet[t][Jar] + H[n] - H[curves[i]]
        BY <2>2, <3>1 DEF CurveWritten, CurvePaid
      <4> QED BY <2>2, <2>3, <4>1, ListWritten
    <3>2. CASE CurveOpened(n)
      <4>1. curves' = Append(curves, n) /\ wallet'[t][Jar] = wallet[t][Jar] + H[n]
        BY <2>2, <3>2 DEF CurveOpened
      <4> QED BY <2>2, <2>3, <4>1, ListExtended
    <3> QED BY <3>1, <3>2
  <2> QED BY <2>1, <2>4 DEF Earns
<1>3. wallet' \in Wallets
  BY DEF CurveWritten, CurveOpened
<1> QED BY <1>1, <1>2, <1>3 DEF CurvesFollow

LEMMA Divided ==
  ASSUME NEW a \in Int, NEW u \in Nat \ {0}
  PROVE  a \div u \in Int
OBVIOUS
LEMMA QuotientType ==
  ASSUME NEW a \in Int, NEW u \in Nat \ {0}
  PROVE  Quotient(a, u) \in Int
<1>1. -a \in Int /\ a \div u \in Int /\ (-a) \div u \in Int
  BY Divided
<1> QED BY <1>1 DEF Quotient
LEMMA IntProduct ==
  ASSUME NEW a \in Int, NEW b \in Int
  PROVE  a * b \in Int
OBVIOUS

\* The approximations are integers, whatever they approximate.
LEMMA ExpType ==
  ASSUME NEW z \in Int
  PROVE  exp_approx(z) \in Nat \ {0}
<1> DEFINE x == Larger(-20 * CurveUnit, Smaller(z, 20 * CurveUnit))
           xx == x * x
           x2 == Quotient(xx, CurveUnit) * x
           x3 == Quotient(x2, CurveUnit) * x
           x4 == Quotient(x3, CurveUnit) * x
           s == CurveUnit + x + Quotient(xx, 2 * CurveUnit) + Quotient(x2, 6 * CurveUnit)
                  + Quotient(x3, 24 * CurveUnit) + Quotient(x4, 120 * CurveUnit)
<1>0. exp_approx(z) = Larger(1, s)
  BY DEF exp_approx
<1>1. /\ CurveUnit \in Nat \ {0} /\ 2 * CurveUnit \in Nat \ {0} /\ 6 * CurveUnit \in Nat \ {0}
      /\ 24 * CurveUnit \in Nat \ {0} /\ 120 * CurveUnit \in Nat \ {0}
      /\ -20 * CurveUnit \in Int /\ 20 * CurveUnit \in Int
  BY CurveAssumption
<1>2. x \in Int
  BY <1>1 DEF Larger, Smaller
<1> HIDE DEF x
<1>3. xx \in Int
  BY <1>2, IntProduct
<1> HIDE DEF xx
<1>4. x2 \in Int
  BY <1>1, <1>2, <1>3, QuotientType, IntProduct
<1> HIDE DEF x2
<1>5. x3 \in Int
  BY <1>1, <1>2, <1>4, QuotientType, IntProduct
<1> HIDE DEF x3
<1>6. x4 \in Int
  BY <1>1, <1>2, <1>5, QuotientType, IntProduct
<1> HIDE DEF x4
<1>7. /\ Quotient(xx, 2 * CurveUnit) \in Int /\ Quotient(x2, 6 * CurveUnit) \in Int
      /\ Quotient(x3, 24 * CurveUnit) \in Int /\ Quotient(x4, 120 * CurveUnit) \in Int
  BY <1>1, <1>3, <1>4, <1>5, <1>6, QuotientType
<1>8. s \in Int
  BY <1>1, <1>2, <1>7
<1> HIDE DEF s
<1>9. Larger(1, s) \in Nat \ {0}
  BY <1>8 DEF Larger
<1> QED BY <1>0, <1>9

LEMMA SigmoidType ==
  ASSUME NEW z \in Int
  PROVE  sigmoid_approx(z) \in Int
<1> DEFINE e == exp_approx(z)
<1>1. e \in Nat \ {0} /\ CurveUnit \in Nat \ {0}
  BY ExpType, CurveAssumption
<1> HIDE DEF e
<1>2. e * CurveUnit \in Int /\ CurveUnit + e \in Nat \ {0}
  BY <1>1
<1>3. (e * CurveUnit) \div (CurveUnit + e) \in Int
  BY <1>2, Divided
<1> QED BY <1>3 DEF sigmoid_approx, e

LEMMA PriceType ==
  ASSUME NEW k \in CurveTerms, NEW supply \in Int
  PROVE  spot_price(k, supply) \in Int
<1> DEFINE base == k.base
           slope == k.slope
           kk == k.k
           mid == k.midpoint
           max == k.max
<1>1. /\ base \in Int /\ slope \in Int /\ kk \in Int /\ mid \in Int /\ max \in Int
      /\ k.kind \in {"Linear", "Exponential", "Sigmoid"} /\ CurveUnit \in Nat \ {0}
  BY CurveAssumption DEF CurveTerms
<1>2. spot_price(k, supply) =
        CASE k.kind = "Linear" -> base + (slope * supply) \div CurveUnit
          [] k.kind = "Exponential" ->
               (base * exp_approx((slope * supply) \div CurveUnit)) \div CurveUnit
          [] k.kind = "Sigmoid" ->
               (max * sigmoid_approx(Quotient(kk * (supply - mid), CurveUnit))) \div CurveUnit
  BY DEF spot_price
<1> HIDE DEF base, slope, kk, mid, max
<1> DEFINE a == (slope * supply) \div CurveUnit
           b == Quotient(kk * (supply - mid), CurveUnit)
<1>3. a \in Int
  BY <1>1, IntProduct, Divided
<1>4. b \in Int
  <2>1. supply - mid \in Int
    BY <1>1
  <2>2. kk * (supply - mid) \in Int
    BY <1>1, <2>1, IntProduct
  <2> QED BY <1>1, <2>2, QuotientType
<1> HIDE DEF a, b
<1> DEFINE e == base * exp_approx(a)
           f == max * sigmoid_approx(b)
<1>5. e \in Int
  <2>1. exp_approx(a) \in Int
    BY <1>3, ExpType
  <2> QED BY <1>1, <2>1, IntProduct
<1>6. f \in Int
  <2>1. sigmoid_approx(b) \in Int
    BY <1>4, SigmoidType
  <2> QED BY <1>1, <2>1, IntProduct
<1> HIDE DEF e, f
<1>7. e \div CurveUnit \in Int /\ f \div CurveUnit \in Int /\ base + a \in Int
  BY <1>1, <1>3, <1>5, <1>6, Divided
<1>8. CASE k.kind = "Linear"
  <2>1. spot_price(k, supply) = base + a
    BY <1>2, <1>8 DEF a
  <2> QED BY <1>7, <2>1
<1>9. CASE k.kind = "Exponential"
  <2>1. spot_price(k, supply) = e \div CurveUnit
    BY <1>2, <1>9 DEF a, e
  <2> QED BY <1>7, <2>1
<1>10. CASE k.kind = "Sigmoid"
  <2>1. spot_price(k, supply) = f \div CurveUnit
    BY <1>2, <1>10 DEF b, f
  <2> QED BY <1>7, <2>1
<1> QED BY <1>1, <1>8, <1>9, <1>10

LEMMA IntegralType ==
  ASSUME NEW k \in CurveTerms, NEW from \in Int, NEW to \in Int
  PROVE  integrate_price(k, from, to) \in Int
<1> DEFINE d == to - from
           width == d \div Steps
           f == [i \in 1 .. Steps - 1 |-> spot_price(k, from + i * width)]
           inner == SumFunction(f)
           a == spot_price(k, from)
           b == spot_price(k, to)
<1>0. integrate_price(k, from, to) =
        IF width = 0 THEN ((a + b) * d) \div 2
        ELSE (a * width) \div 2 + inner * width + (b * width) \div 2
  BY DEF integrate_price
<1>1. d \in Int /\ Steps \in Nat \ {0}
  BY CurveAssumption
<1> HIDE DEF d
<1>2. width \in Int
  BY <1>1, Divided
<1> HIDE DEF width
<1>3. inner \in Int
  <2>1. f \in [1 .. Steps - 1 -> Int]
    <3>1. ASSUME NEW i \in 1 .. Steps - 1 PROVE spot_price(k, from + i * width) \in Int
      <4>1. from + i * width \in Int
        BY <1>2
      <4> QED BY <4>1, PriceType
    <3> QED BY <3>1
  <2> HIDE DEF f
  <2>2. IsFiniteSet(1 .. Steps - 1)
    BY <1>1, FS_Interval
  <2> QED BY <2>1, <2>2, SumType
<1>4. a \in Int /\ b \in Int
  BY PriceType
<1> HIDE DEF inner, a, b
<1>5. (a + b) * d \in Int /\ a * width \in Int /\ b * width \in Int /\ inner * width \in Int
  BY <1>1, <1>2, <1>3, <1>4
<1>6. ((a + b) * d) \div 2 \in Int /\ (a * width) \div 2 \in Int /\ (b * width) \div 2 \in Int
  BY <1>5, Divided
<1> QED BY <1>0, <1>5, <1>6

\* A curve with other amounts.
Amounted(c, supply, reserve, fees, sent) ==
  [c EXCEPT !.supply = supply, !.reserve = reserve, !.fees = fees, !.sent = sent]
IsAmounted(n, c, reserve, fees, sent) ==
  n \in Curve /\ n.token = c.token /\ n.tip = c.tip /\ n.reserve = reserve /\ n.fees = fees /\ n.sent = sent
LEMMA CurveAmounted ==
  ASSUME NEW c \in Curve, NEW supply \in Int, NEW reserve \in Int, NEW fees \in Int, NEW sent \in Int
  PROVE  IsAmounted(Amounted(c, supply, reserve, fees, sent), c, reserve, fees, sent)
BY DEF Curve, Amounted, IsAmounted

WithFees(c, fees) == [c EXCEPT !.fees = fees]
WithTerms(c, k) == [c EXCEPT !.terms = k]
Charging(k, x, y) == [k EXCEPT !.buy_fee = x, !.sell_fee = y]
LEMMA CurveFeesSet ==
  ASSUME NEW c \in Curve, NEW fees \in Int
  PROVE  IsAmounted(WithFees(c, fees), c, c.reserve, fees, c.sent)
BY DEF Curve, IsAmounted, WithFees
LEMMA CurveActiveSet ==
  ASSUME NEW c \in Curve
  PROVE  IsAmounted([c EXCEPT !.active = FALSE], c, c.reserve, c.fees, c.sent)
BY DEF Curve, IsAmounted
LEMMA CurveTermsSet ==
  ASSUME NEW c \in Curve, NEW k \in CurveTerms
  PROVE  IsAmounted(WithTerms(c, k), c, c.reserve, c.fees, c.sent)
BY DEF Curve, IsAmounted, WithTerms
LEMMA TermsFees ==
  ASSUME NEW k \in CurveTerms, NEW x \in Nat, NEW y \in Nat
  PROVE  Charging(k, x, y) \in CurveTerms
BY DEF CurveTerms, Charging

LEMMA CurveMoved ==
  ASSUME wallet \in Wallets, NEW m \in Curve, NEW n \in Curve, n.token = m.token, n.tip = m.tip,
         NEW u \in Int, NEW v \in Int, n.reserve + n.fees = m.reserve + m.fees + u, n.sent = m.sent - v,
         \/ GetsBoth(wallet, wallet', m.token, u, m.tip, v)
         \/ GetsBoth(wallet, wallet', m.tip, v, m.token, u)
  PROVE  CurvePaid(m, n) /\ wallet' \in Wallets
<1>1. /\ m.reserve + m.fees \in Int /\ m.sent \in Int
      /\ \A t \in Token : wallet[t][Jar] \in Int
  BY CurveFields, JarsAccount
<1>2. ASSUME NEW t \in Token
      PROVE  wallet'[t][Jar] = wallet[t][Jar] + CurveHolds(n, t) - CurveHolds(m, t)
  <2> DEFINE du == IF m.token = t THEN u ELSE 0
             dv == IF m.tip = t THEN v ELSE 0
             mx == IF m.token = t THEN m.reserve + m.fees ELSE 0
             my == IF m.tip = t THEN m.sent ELSE 0
  <2>1. wallet'[t][Jar] = wallet[t][Jar] + du + dv
    BY <1>1 DEF GetsBoth
  <2>2. CurveHolds(n, t) = (mx + du) - (my - dv)
    BY <1>1 DEF CurveHolds
  <2>3. CurveHolds(m, t) = mx - my
    BY DEF CurveHolds
  <2>4. wallet[t][Jar] \in Int /\ mx \in Int /\ my \in Int /\ du \in Int /\ dv \in Int
    BY <1>1
  <2> HIDE DEF du, dv, mx, my
  <2> QED BY <2>1, <2>2, <2>3, <2>4
<1> QED BY <1>2 DEF GetsBoth, CurvePaid

LEMMA CurveCreated ==
  ASSUME curves \in Seq(Curve), wallet \in Wallets, NEW p \in Party, NEW tip \in Token,
         NEW reserve \in Token, NEW k \in CurveTerms, NEW x \in Nat, create_curve(p, tip, reserve, k, x)
  PROVE  \E n \in Curve : CurveOpened(n)
<1> DEFINE n == [terms |-> k, creator |-> p, tip |-> tip, token |-> reserve, supply |-> 0,
                 reserve |-> x, fees |-> 0, active |-> TRUE, sent |-> 0]
<1>1. curves' = Append(curves, n) /\ wallet' = Transfer(wallet, reserve, p, Jar, x)
  BY DEF create_curve, Pay
<1>2. n \in Curve /\ n.token = reserve /\ n.tip = tip /\ n.reserve = x /\ n.fees = 0 /\ n.sent = 0
  BY DEF Curve
<1> HIDE DEF n
<1>3. Gets(wallet, wallet', reserve, x)
  BY <1>1, PaidIn
<1>4. ASSUME NEW u \in Token PROVE wallet'[u][Jar] = wallet[u][Jar] + CurveHolds(n, u)
  <2>1. /\ wallet'[u][Jar] = wallet[u][Jar] + (IF u = reserve THEN x ELSE 0)
        /\ wallet[u][Jar] \in Int
    BY <1>3, JarsAccount DEF Gets
  <2>2. CurveHolds(n, u) = IF u = reserve THEN x ELSE 0
    BY <1>2 DEF CurveHolds
  <2> QED BY <2>1, <2>2
<1> QED BY <1>1, <1>2, <1>3, <1>4 DEF CurveOpened, Gets

\* A fee on a price, in basis points.
LEMMA RateType ==
  ASSUME NEW y \in Int, NEW r \in Nat
  PROVE  (y * r) \div Bps \in Int
<1>1. y * r \in Int
  BY IntProduct
<1> QED BY <1>1, LedgerAssumption, Divided

LEMMA CurveTraded ==
  ASSUME curves \in Seq(Curve), wallet \in Wallets, NEW p \in Party, NEW i \in DOMAIN curves,
         NEW x \in Nat, NEW y \in Nat, buy(p, i, x, y) \/ sell(p, i, x, y)
  PROVE  \E n \in Curve : CurveWritten(i, n)
<1> DEFINE c == curves[i]
<1>1. c \in Curve
  OBVIOUS
<1> DEFINE k == c.terms
           supply == c.supply
<1>2. /\ supply \in Int /\ c.reserve \in Int /\ c.fees \in Int /\ c.sent \in Int
      /\ c.token \in Token /\ c.tip \in Token
  BY <1>1, CurveFields
<1>k. k \in CurveTerms
  BY <1>1, CurveFields
<1>f. k.buy_fee \in Nat /\ k.sell_fee \in Nat
  <2> HIDE DEF k
  <2> QED BY <1>k DEF CurveTerms
<1>3. CASE buy(p, i, x, y)
  <2> DEFINE cost == cost_to_buy(c, x)
             fee == (cost * k.buy_fee) \div Bps
             n == Amounted(c, supply + x, c.reserve + cost, c.fees + fee, c.sent + x)
  <2>1. /\ curves' = [curves EXCEPT ![i] = n]
        /\ wallet' = Transfer(Transfer(wallet, c.token, p, Jar, cost + fee), c.tip, Jar, p, x)
    BY <1>3 DEF buy, Legs, Amounted
  <2> HIDE DEF c, k, supply
  <2>2. cost \in Int
    <3>1. integrate_price(k, supply, supply + x) \in Int
      <4>1. supply + x \in Int
        BY <1>2
      <4> QED BY <1>2, <1>k, <4>1, IntegralType
    <3> QED BY <3>1, CurveAssumption, Divided DEF cost_to_buy, k, supply
  <2> HIDE DEF cost
  <2>3. fee \in Int
    BY <1>f, <2>2, RateType
  <2> HIDE DEF fee
  <2>4. IsAmounted(n, c, c.reserve + cost, c.fees + fee, c.sent + x)
    <3>1. supply + x \in Int /\ c.reserve + cost \in Int /\ c.fees + fee \in Int /\ c.sent + x \in Int
      <4> DEFINE r == c.reserve
                 f == c.fees
                 s == c.sent
      <4>1. supply \in Int /\ r \in Int /\ f \in Int /\ s \in Int
        BY <1>2
      <4> HIDE DEF r, f, s
      <4>2. supply + x \in Int /\ r + cost \in Int /\ f + fee \in Int /\ s + x \in Int
        BY ONLY <2>2, <2>3, <4>1, x \in Nat
      <4> QED BY <4>2 DEF r, f, s
    <3> QED BY <1>1, <3>1, CurveAmounted
  <2> HIDE DEF n
  <2> DEFINE u == cost + fee
             v == -x
  <2>5. /\ u \in Int /\ v \in Int /\ n.reserve + n.fees = c.reserve + c.fees + u
        /\ n.sent = c.sent - v
    <3> DEFINE r == c.reserve
               f == c.fees
               s == c.sent
    <3>1. r \in Int /\ f \in Int /\ s \in Int /\ n.reserve = r + cost /\ n.fees = f + fee /\ n.sent = s + x
      BY <1>2, <2>4 DEF IsAmounted
    <3> HIDE DEF r, f, s
    <3>2. (r + cost) + (f + fee) = r + f + (cost + fee) /\ s + x = s - (-x) /\ cost + fee \in Int /\ -x \in Int
      BY <2>2, <2>3, <3>1
    <3> QED BY <3>1, <3>2 DEF r, f, s
  <2>6. GetsBoth(wallet, wallet', c.token, u, c.tip, v)
    <3> HIDE DEF u
    <3>1. wallet' = Transfer(Transfer(wallet, c.token, p, Jar, u), c.tip, Jar, p, x)
      BY <2>1 DEF u
    <3> QED BY <1>2, <2>5, <3>1, PaidInAndOut
  <2> HIDE DEF u, v
  <2>7. CurvePaid(c, n) /\ wallet' \in Wallets
    BY <1>1, <2>4, <2>5, <2>6, CurveMoved DEF IsAmounted
  <2>8. CurveWritten(i, n)
    BY <2>1, <2>4, <2>7 DEF CurveWritten, IsAmounted, c
  <2> QED BY <2>4, <2>8 DEF IsAmounted
<1>4. CASE sell(p, i, x, y)
  <2> DEFINE value == return_on_sell(c, x)
             fee == (value * k.sell_fee) \div Bps
             n == Amounted(c, supply - x, c.reserve - value, c.fees + fee, c.sent - x)
  <2>1. /\ curves' = [curves EXCEPT ![i] = n]
        /\ wallet' = Transfer(Transfer(wallet, c.tip, p, Jar, x), c.token, Jar, p, value - fee)
    BY <1>4 DEF sell, Legs, Amounted
  <2> HIDE DEF c, k, supply
  <2>2. value \in Int
    <3>1. integrate_price(k, supply - x, supply) \in Int
      <4>1. supply - x \in Int
        BY <1>2
      <4> QED BY <1>2, <1>k, <4>1, IntegralType
    <3> QED BY <3>1, CurveAssumption, Divided DEF return_on_sell, k, supply
  <2> HIDE DEF value
  <2>3. fee \in Int
    BY <1>f, <2>2, RateType
  <2> HIDE DEF fee
  <2>4. IsAmounted(n, c, c.reserve - value, c.fees + fee, c.sent - x)
    <3>1. supply - x \in Int /\ c.reserve - value \in Int /\ c.fees + fee \in Int /\ c.sent - x \in Int
      <4> DEFINE r == c.reserve
                 f == c.fees
                 s == c.sent
      <4>1. supply \in Int /\ r \in Int /\ f \in Int /\ s \in Int
        BY <1>2
      <4> HIDE DEF r, f, s
      <4>2. supply - x \in Int /\ r - value \in Int /\ f + fee \in Int /\ s - x \in Int
        BY ONLY <2>2, <2>3, <4>1, x \in Nat
      <4> QED BY <4>2 DEF r, f, s
    <3> QED BY <1>1, <3>1, CurveAmounted
  <2> HIDE DEF n
  <2> DEFINE z == value - fee
             u == -z
  <2>5. /\ z \in Int /\ u \in Int /\ n.reserve + n.fees = c.reserve + c.fees + u
        /\ n.sent = c.sent - x
    <3> DEFINE r == c.reserve
               f == c.fees
               s == c.sent
    <3>1. r \in Int /\ f \in Int /\ n.reserve = r - value /\ n.fees = f + fee /\ n.sent = s - x
      BY <1>2, <2>4 DEF IsAmounted
    <3> HIDE DEF r, f, s
    <3>2. (r - value) + (f + fee) = r + f + (-(value - fee)) /\ value - fee \in Int /\ -(value - fee) \in Int
      BY <2>2, <2>3, <3>1
    <3> QED BY <3>1, <3>2 DEF r, f, s
  <2>6. GetsBoth(wallet, wallet', c.tip, x, c.token, u)
    <3> HIDE DEF z
    <3>1. wallet' = Transfer(Transfer(wallet, c.tip, p, Jar, x), c.token, Jar, p, z)
      BY <2>1 DEF z
    <3> QED BY <1>2, <2>5, <3>1, PaidInAndOut
  <2> HIDE DEF u, z
  <2>7. CurvePaid(c, n) /\ wallet' \in Wallets
    BY <1>1, <2>4, <2>5, <2>6, CurveMoved DEF IsAmounted
  <2>8. CurveWritten(i, n)
    BY <2>1, <2>4, <2>7 DEF CurveWritten, IsAmounted, c
  <2> QED BY <2>4, <2>8 DEF IsAmounted
<1> QED BY <1>3, <1>4

\* Nothing that the jar holds for the curve changes.
LEMMA CurveSame ==
  ASSUME wallet \in Wallets, wallet' = wallet, NEW i, NEW n, curves[i] \in Curve,
         IsAmounted(n, curves[i], curves[i].reserve, curves[i].fees, curves[i].sent),
         curves' = [curves EXCEPT ![i] = n]
  PROVE  \E h \in Curve : CurveWritten(i, h)
<1> DEFINE c == curves[i]
<1>1. \A t \in Token : CurveHolds(n, t) = CurveHolds(c, t) /\ CurveHolds(c, t) \in Int
  BY CurveFields DEF CurveHolds, IsAmounted
<1>2. CurvePaid(c, n)
  BY <1>1, JarsAccount DEF CurvePaid
<1>3. CurveWritten(i, n)
  BY <1>2 DEF CurveWritten, IsAmounted
<1> QED BY <1>3 DEF IsAmounted
LEMMA CurveFeesUpdated ==
  ASSUME curves \in Seq(Curve), wallet \in Wallets, NEW p \in Party, NEW i \in DOMAIN curves,
         NEW x \in Nat, NEW y \in Nat, update_fees(p, i, x, y)
  PROVE  \E n \in Curve : CurveWritten(i, n)
<1> DEFINE c == curves[i]
           k == c.terms
           h == Charging(k, x, y)
           n == WithTerms(c, h)
<1>1. c \in Curve /\ k \in CurveTerms
  BY CurveFields
<1>2. curves' = [curves EXCEPT ![i] = n] /\ wallet' = wallet
  BY Zenon DEF update_fees, Charging, WithTerms
<1> HIDE DEF k
<1>3. h \in CurveTerms
  BY <1>1, TermsFees
<1> HIDE DEF h
<1>4. IsAmounted(n, c, c.reserve, c.fees, c.sent)
  BY <1>1, <1>3, CurveTermsSet
<1> HIDE DEF n
<1> QED BY <1>1, <1>2, <1>4, CurveSame
LEMMA CurveDeactivated ==
  ASSUME curves \in Seq(Curve), wallet \in Wallets, NEW p \in Party, NEW i \in DOMAIN curves,
         deactivate_curve(p, i)
  PROVE  \E n \in Curve : CurveWritten(i, n)
<1> DEFINE c == curves[i]
           n == [c EXCEPT !.active = FALSE]
<1>1. c \in Curve
  OBVIOUS
<1>2. curves' = [curves EXCEPT ![i] = n] /\ wallet' = wallet
  BY DEF deactivate_curve
<1>3. IsAmounted(n, c, c.reserve, c.fees, c.sent)
  BY <1>1, CurveActiveSet
<1> HIDE DEF n
<1> QED BY <1>1, <1>2, <1>3, CurveSame

LEMMA CurveFeesPaid ==
  ASSUME curves \in Seq(Curve), wallet \in Wallets, NEW p \in Party, NEW i \in DOMAIN curves,
         bc_withdraw_fees(p, i)
  PROVE  \E n \in Curve : CurveWritten(i, n)
<1> DEFINE c == curves[i]
           n == WithFees(c, 0)
<1>1. c \in Curve
  OBVIOUS
<1>2. /\ curves' = [curves EXCEPT ![i] = n]
      /\ wallet' = Transfer(wallet, c.token, Jar, p, c.fees)
  BY DEF bc_withdraw_fees, Pay, WithFees
<1> HIDE DEF c
<1>3. IsAmounted(n, c, c.reserve, 0, c.sent)
  BY <1>1, CurveFeesSet
<1>4. c.token \in Token /\ c.fees \in Int /\ c.reserve \in Int /\ c.sent \in Int
  BY <1>1, CurveFields
<1> HIDE DEF n
<1>5. Gets(wallet, wallet', c.token, -c.fees)
  BY <1>2, <1>4, PaidOutOf
<1>6. ASSUME NEW t \in Token PROVE wallet'[t][Jar] = wallet[t][Jar] + CurveHolds(n, t) - CurveHolds(c, t)
  <2>1. /\ wallet'[t][Jar] = wallet[t][Jar] + (IF t = c.token THEN -c.fees ELSE 0)
        /\ wallet[t][Jar] \in Int
    BY <1>5, JarsAccount DEF Gets
  <2>2. /\ CurveHolds(n, t) = CurveHolds(c, t) + (IF t = c.token THEN -c.fees ELSE 0)
        /\ CurveHolds(c, t) \in Int /\ (IF t = c.token THEN -c.fees ELSE 0) \in Int
    <3> DEFINE r == c.reserve
               f == c.fees
               s == IF c.tip = t THEN c.sent ELSE 0
    <3>1. r \in Int /\ f \in Int /\ s \in Int
      BY <1>4
    <3>2. /\ CurveHolds(n, t) = (IF c.token = t THEN r + 0 ELSE 0) - s
          /\ CurveHolds(c, t) = (IF c.token = t THEN r + f ELSE 0) - s
      BY <1>3 DEF CurveHolds, IsAmounted
    <3> HIDE DEF r, f, s
    <3>3. /\ CurveHolds(n, t) = CurveHolds(c, t) + (IF t = c.token THEN -f ELSE 0)
          /\ CurveHolds(c, t) \in Int /\ (IF t = c.token THEN -f ELSE 0) \in Int
      BY <3>1, <3>2
    <3> QED BY <3>3 DEF f
  <2> DEFINE a == wallet[t][Jar]
             b == CurveHolds(c, t)
             d == IF t = c.token THEN -c.fees ELSE 0
  <2> HIDE DEF a, b, d
  <2>3. a + d = a + (b + d) - b
    BY <2>1, <2>2 DEF a, b, d
  <2> QED BY <2>1, <2>2, <2>3 DEF a, b, d
<1>7. CurveWritten(i, n)
  BY <1>2, <1>3, <1>5, <1>6 DEF CurveWritten, CurvePaid, IsAmounted, Gets, c
<1> QED BY <1>3, <1>7 DEF IsAmounted

LEMMA CurvesStep ==
  ASSUME curves \in Seq(Curve), wallet \in Wallets, BondingCurveNext
  PROVE  curves' \in Seq(Curve) /\ CurvesFollow
<1>a. Amounts \subseteq Nat /\ Amounts \cup {0} \subseteq Nat /\ Curves \subseteq CurveTerms
  BY LedgerAssumption, CurveAssumption
<1>1. CASE \E p \in Party, a, b \in Token, k \in Curves, x \in Amounts \cup {0} : create_curve(p, a, b, k, x)
  <2>1. \E n \in Curve : CurveOpened(n)
    BY <1>a, <1>1, CurveCreated
  <2> QED BY <2>1, CurvesChanged
<1>2. ASSUME NEW p \in Party, NEW i \in DOMAIN curves,
             \/ \E x, y \in Amounts : buy(p, i, x, y) \/ sell(p, i, x, y)
             \/ \E k \in Curves : update_fees(p, i, k.buy_fee, k.sell_fee)
             \/ bc_withdraw_fees(p, i)
             \/ deactivate_curve(p, i)
      PROVE  curves' \in Seq(Curve) /\ CurvesFollow
  <2>1. \E n \in Curve : CurveWritten(i, n)
    <3>1. CASE \E x, y \in Amounts : buy(p, i, x, y) \/ sell(p, i, x, y)
      BY <1>a, <3>1, CurveTraded
    <3>2. CASE \E k \in Curves : update_fees(p, i, k.buy_fee, k.sell_fee)
      <4>1. PICK k \in Curves : update_fees(p, i, k.buy_fee, k.sell_fee)
        BY <3>2
      <4>2. k.buy_fee \in Nat /\ k.sell_fee \in Nat
        BY <1>a DEF CurveTerms
      <4> QED BY <4>1, <4>2, CurveFeesUpdated
    <3>4. CASE deactivate_curve(p, i)
      BY <3>4, CurveDeactivated
    <3>3. CASE bc_withdraw_fees(p, i)
      BY <3>3, CurveFeesPaid
    <3> QED BY <1>2, <3>1, <3>2, <3>3, <3>4
  <2> QED BY <2>1, CurvesChanged
<1> QED BY <1>1, <1>2 DEF BondingCurveNext

-----------------------------------------------------------------------------
(* Futures *)

\* What the jar holds as margin follows what is paid.
FutureBook(t) == [m \in Contract |-> MarginHeld(m, t)]
FuturesFollow ==
  /\ wallet' \in Wallets
  /\ \A t \in Token : /\ FuturesEscrow(t) \in Int /\ FuturesEscrow(t)' \in Int
                      /\ wallet'[t][Jar] = wallet[t][Jar] + FuturesEscrow(t)' - FuturesEscrow(t)
FuturePaid(m, n) ==
  \A t \in Token : wallet'[t][Jar] = wallet[t][Jar] + MarginHeld(n, t) - MarginHeld(m, t)
FutureWritten(i, n) ==
  /\ futures' = [futures EXCEPT ![i] = n]
  /\ wallet' \in Wallets /\ n \in Contract /\ FuturePaid(futures[i], n)
FutureOpened(n) ==
  /\ futures' = Append(futures, n)
  /\ wallet' \in Wallets /\ n \in Contract
  /\ \A t \in Token : wallet'[t][Jar] = wallet[t][Jar] + MarginHeld(n, t)

LEMMA FutureFields ==
  ASSUME NEW m \in Contract
  PROVE  /\ m.token \in Token /\ m.party \in [Side -> Party \cup {None}] /\ m.margin \in [Side -> Nat]
         /\ m.margin["Long"] \in Nat /\ m.margin["Short"] \in Nat
BY DEF Contract, Side
LEMMA FutureBookType ==
  ASSUME NEW t \in Token
  PROVE  FutureBook(t) \in [Contract -> Int]
<1>1. ASSUME NEW m \in Contract PROVE MarginHeld(m, t) \in Int
  BY FutureFields DEF MarginHeld, Closed
<1> QED BY <1>1 DEF FutureBook
LEMMA FuturesWorth ==
  ASSUME futures \in Seq(Contract), NEW t \in Token
  PROVE  FuturesEscrow(t) = Worth(futures, FutureBook(t))
<1>1. \A i \in DOMAIN futures : FutureBook(t)[futures[i]] = MarginHeld(futures[i], t)
  BY DEF FutureBook
<1>2. [i \in DOMAIN futures |-> MarginHeld(futures[i], t)] = [i \in DOMAIN futures |-> FutureBook(t)[futures[i]]]
  BY <1>1
<1> QED BY <1>2 DEF FuturesEscrow, Worth
LEMMA FuturesWorthNext ==
  ASSUME futures' \in Seq(Contract), NEW t \in Token
  PROVE  FuturesEscrow(t)' = Worth(futures', FutureBook(t))
<1>1. \A i \in DOMAIN futures' : FutureBook(t)[futures'[i]] = MarginHeld(futures'[i], t)
  BY DEF FutureBook
<1>2. [i \in DOMAIN futures' |-> MarginHeld(futures'[i], t)]
        = [i \in DOMAIN futures' |-> FutureBook(t)[futures'[i]]]
  BY <1>1
<1> QED BY <1>2 DEF FuturesEscrow, MarginHeld, Closed, Worth

LEMMA FuturesChanged ==
  ASSUME futures \in Seq(Contract), wallet \in Wallets, NEW n \in Contract, NEW i,
         (i \in DOMAIN futures /\ FutureWritten(i, n)) \/ FutureOpened(n)
  PROVE  futures' \in Seq(Contract) /\ FuturesFollow
<1>1. futures' \in Seq(Contract)
  BY SeqUpdated, SeqAppended DEF FutureWritten, FutureOpened
<1>2. ASSUME NEW t \in Token
      PROVE  /\ FuturesEscrow(t) \in Int /\ FuturesEscrow(t)' \in Int
             /\ wallet'[t][Jar] = wallet[t][Jar] + FuturesEscrow(t)' - FuturesEscrow(t)
  <2> DEFINE H == FutureBook(t)
  <2>1. FuturesEscrow(t) = Worth(futures, H) /\ FuturesEscrow(t)' = Worth(futures', H)
    BY <1>1, FuturesWorth, FuturesWorthNext
  <2>2. /\ H \in [Contract -> Int] /\ H[n] = MarginHeld(n, t)
        /\ \A j \in DOMAIN futures : H[futures[j]] = MarginHeld(futures[j], t)
    BY FutureBookType DEF FutureBook
  <2>3. wallet[t][Jar] \in Int
    BY JarsAccount
  <2> HIDE DEF H
  <2>4. Earns(wallet[t][Jar], wallet'[t][Jar], futures, futures', H)
    <3>1. CASE i \in DOMAIN futures /\ FutureWritten(i, n)
      <4>1. /\ i \in DOMAIN futures /\ futures' = [futures EXCEPT ![i] = n]
            /\ wallet'[t][Jar] = wallet[t][Jar] + H[n] - H[futures[i]]
        BY <2>2, <3>1 DEF FutureWritten, FuturePaid
      <4> QED BY <2>2, <2>3, <4>1, ListWritten
    <3>2. CASE FutureOpened(n)
      <4>1. futures' = Append(futures, n) /\ wallet'[t][Jar] = wallet[t][Jar] + H[n]
        BY <2>2, <3>2 DEF FutureOpened
      <4> QED BY <2>2, <2>3, <4>1, ListExtended
    <3> QED BY <3>1, <3>2
  <2> QED BY <2>1, <2>4 DEF Earns
<1>3. wallet' \in Wallets
  BY DEF FutureWritten, FutureOpened
<1> QED BY <1>1, <1>2, <1>3 DEF FuturesFollow

LEMMA Sides == "Long" \in Side /\ "Short" \in Side /\ "Long" # "Short" /\ \A s \in Side : s = "Long" \/ s = "Short"
BY DEF Side

\* Contracts with another short, other margins, another status or result.
Taken(f, p, x) == [f EXCEPT !.party["Short"] = p, !.margin["Short"] = x]
Margined(f, side, x) == [f EXCEPT !.margin[side] = x]
Marked(f, status, pnl) == [f EXCEPT !.status = status, !.pnl = pnl]
IsContract(n, f, party, margin) ==
  /\ n \in Contract /\ n.token = f.token /\ n.party = party /\ n.margin = margin
IsMarked(n, f, status) == IsContract(n, f, f.party, f.margin) /\ n.status = status
LEMMA ContractTaken ==
  ASSUME NEW f \in Contract, NEW p \in Party, NEW x \in Nat
  PROVE  /\ IsContract(Taken(f, p, x), f, [f.party EXCEPT !["Short"] = p],
                       [f.margin EXCEPT !["Short"] = x])
         /\ Taken(f, p, x).status = f.status
BY Sides DEF Contract, Taken, IsContract
LEMMA ContractMargined ==
  ASSUME NEW f \in Contract, NEW side \in Side, NEW x \in Nat
  PROVE  /\ IsContract(Margined(f, side, x), f, f.party, [f.margin EXCEPT ![side] = x])
         /\ Margined(f, side, x).status = f.status
BY DEF Contract, Margined, IsContract
LEMMA ContractMarked ==
  ASSUME NEW f \in Contract, NEW pnl \in Int,
         NEW status \in {"Active", "PendingSettlement", "Settled", "Liquidated", "Cancelled"}
  PROVE  IsMarked(Marked(f, status, pnl), f, status)
BY DEF Contract, Marked, IsMarked, IsContract
LEMMA ContractPending ==
  ASSUME NEW f \in Contract
  PROVE  IsMarked([f EXCEPT !.status = "PendingSettlement"], f, "PendingSettlement")
BY DEF Contract, IsMarked, IsContract
LEMMA ContractPriced ==
  ASSUME NEW f \in Contract, NEW pnl \in Int
  PROVE  IsMarked([f EXCEPT !.pnl = pnl], f, f.status)
BY DEF Contract, IsMarked, IsContract

\* The margin of a trader who joins or leaves.
Shift(r, s, p, x) ==
  /\ s \in [Party -> Trader]
  /\ \A q \in Party : s[q].margin = r[q].margin + (IF q = p THEN x ELSE 0)
HasMargin(r, x) == r \in Trader /\ r.margin = x
LEMMA TraderSet ==
  ASSUME NEW r \in Trader, NEW side \in Side, NEW k \in Int, NEW x \in Int
  PROVE  HasMargin(Moved(r, side, k, x), x)
BY DEF Trader, HasMargin, Moved
LEMMA TraderMargin ==
  ASSUME NEW s \in [Party -> Trader], NEW p \in Party
  PROVE  s[p].margin \in Int /\ s[p].count \in [Side -> Int]
BY DEF Trader
LEMMA TraderJoins ==
  ASSUME traders \in [Party -> Trader], NEW p \in Party, NEW side \in Side, NEW x \in Int, Joined(p, side, x)
  PROVE  Shift(traders, traders', p, x)
<1> DEFINE r == traders[p]
           k == r.count[side] + 1
           y == r.margin + x
           e == Moved(r, side, k, y)
<1>1. traders' = [traders EXCEPT ![p] = e]
  BY DEF Joined
<1>2. r \in Trader /\ k \in Int /\ y \in Int
  BY TraderMargin
<1> HIDE DEF k
<1>3. e \in Trader /\ e.margin = y
  <2> HIDE DEF r, y
  <2> QED BY <1>2, TraderSet DEF HasMargin
<1> HIDE DEF e
<1>4. traders' \in [Party -> Trader] /\ \A q \in Party : traders'[q] = IF q = p THEN e ELSE traders[q]
  BY <1>1, <1>3
<1>5. ASSUME NEW q \in Party PROVE traders'[q].margin = traders[q].margin + (IF q = p THEN x ELSE 0)
  BY <1>3, <1>4, TraderMargin
<1> QED BY <1>4, <1>5 DEF Shift
LEMMA TraderLeaves ==
  ASSUME NEW s \in [Party -> Trader], NEW p \in Party, NEW side \in Side, NEW x \in Int
  PROVE  Shift(s, Left(s, p, side, x), p, -x)
<1> DEFINE r == s[p]
           k == Larger(r.count[side] - 1, 0)
           y == r.margin - x
           e == Moved(r, side, k, y)
           v == Left(s, p, side, x)
<1>1. v = [s EXCEPT ![p] = e]
  BY DEF Left
<1>2. r \in Trader /\ k \in Int /\ y \in Int
  BY TraderMargin DEF Larger
<1> HIDE DEF k
<1>3. e \in Trader /\ e.margin = y
  <2> HIDE DEF r, y
  <2> QED BY <1>2, TraderSet DEF HasMargin
<1> HIDE DEF e
<1>4. v \in [Party -> Trader] /\ \A q \in Party : v[q] = IF q = p THEN e ELSE s[q]
  BY <1>1, <1>3
<1> HIDE DEF v
<1>5. ASSUME NEW q \in Party PROVE v[q].margin = s[q].margin + (IF q = p THEN -x ELSE 0)
  BY <1>3, <1>4, TraderMargin
<1> QED BY <1>4, <1>5 DEF Shift, v

LEMMA RequiredType ==
  ASSUME NEW size \in Nat, NEW price \in Nat, NEW bps \in Nat
  PROVE  required_margin(size, price, bps) \in Nat
<1> DEFINE z == size * price
           n == z \div PriceUnit
           y == n * bps
<1>1. z \in Nat
  BY Product
<1> HIDE DEF z
<1>2. n \in Nat
  BY <1>1, FuturesAssumption, Portion
<1> HIDE DEF n
<1>3. y \in Nat
  BY <1>2, Product
<1> HIDE DEF y
<1>4. y \div Bps \in Nat
  BY <1>3, LedgerAssumption, Portion
<1> QED BY <1>4 DEF required_margin, Notional, y, n, z
LEMMA GainType ==
  ASSUME NEW f \in Contract, NEW price \in Int
  PROVE  Gain(f, price) \in Int
<1> DEFINE z == (price - f.price) * f.size
<1>1. z \in Int
  BY DEF Contract
<1> HIDE DEF z
<1>2. Quotient(z, PriceUnit) \in Int
  BY <1>1, FuturesAssumption, QuotientType
<1> QED BY <1>2 DEF Gain, z

\* What an exchange of margins leaves on both sides.
LEMMA ExchangedType ==
  ASSUME NEW f \in Contract, NEW pnl \in Int
  PROVE  LET x == Exchanged(f, pnl)
         IN  x \in Int /\ f.margin["Long"] + x >= 0 /\ f.margin["Short"] - x >= 0
<1> DEFINE l == f.margin["Long"]
           s == f.margin["Short"]
<1>1. l \in Nat /\ s \in Nat
  BY Sides DEF Contract
<1>2. Exchanged(f, pnl) = IF pnl >= 0 THEN Smaller(pnl, s) ELSE -Smaller(-pnl, l)
  BY DEF Exchanged
<1> HIDE DEF l, s
<1>3. LET x == Exchanged(f, pnl) IN x \in Int /\ l + x >= 0 /\ s - x >= 0
  BY <1>1, <1>2 DEF Smaller
<1> QED BY <1>3 DEF l, s

-----------------------------------------------------------------------------
\* Positions cover what contracts hold: what a contract holds for a trader rises by no
\* more than the trader's margin.
Covers(m, n) ==
  /\ traders' \in [Party -> Trader]
  /\ \A q \in Party : traders'[q].margin - traders[q].margin >= HeldFor(n, q) - HeldFor(m, q)
FutureStays(i, n) ==
  /\ margins' \in Margins /\ ContractSound(n) /\ Covers(futures[i], n)
FutureStarts(n) ==
  /\ margins' \in Margins /\ ContractSound(n)
  /\ traders' \in [Party -> Trader]
  /\ \A q \in Party : traders'[q].margin - traders[q].margin >= HeldFor(n, q)

LEMMA HeldParts ==
  ASSUME NEW f \in Contract, NEW q \in Party, NEW l, NEW s, l = f.margin["Long"], s = f.margin["Short"]
  PROVE  /\ l \in Nat /\ s \in Nat
         /\ HeldFor(f, q) = IF Closed(f) THEN 0
                            ELSE (IF f.party["Long"] = q THEN l ELSE 0)
                                   + (IF f.party["Short"] = q THEN s ELSE 0)
<1>1. l \in Nat /\ s \in Nat
  BY Sides DEF Contract
<1> QED BY <1>1 DEF HeldFor
LEMMA MarginParts ==
  ASSUME NEW f \in Contract, NEW t \in Token, NEW l, NEW s, l = f.margin["Long"], s = f.margin["Short"]
  PROVE  MarginHeld(f, t) = IF f.token = t /\ ~Closed(f) THEN l + s ELSE 0
BY DEF MarginHeld

\* The jar gets what the margins do.
LEMMA FutureMoved ==
  ASSUME wallet \in Wallets, NEW f \in Contract, NEW n \in Contract, n.token = f.token, NEW x \in Int,
         Gets(wallet, wallet', f.token, x),
         (IF Closed(n) THEN 0 ELSE n.margin["Long"] + n.margin["Short"])
           = (IF Closed(f) THEN 0 ELSE f.margin["Long"] + f.margin["Short"]) + x
  PROVE  FuturePaid(f, n) /\ wallet' \in Wallets
<1> DEFINE a == IF Closed(f) THEN 0 ELSE f.margin["Long"] + f.margin["Short"]
           b == IF Closed(n) THEN 0 ELSE n.margin["Long"] + n.margin["Short"]
<1>1. a \in Int /\ b = a + x
  BY Sides DEF Contract
<1>2. ASSUME NEW t \in Token
      PROVE  wallet'[t][Jar] = wallet[t][Jar] + MarginHeld(n, t) - MarginHeld(f, t)
  <2>1. wallet'[t][Jar] = wallet[t][Jar] + (IF t = f.token THEN x ELSE 0) /\ wallet[t][Jar] \in Int
    BY JarsAccount DEF Gets
  <2>2. /\ MarginHeld(n, t) = IF t = f.token THEN b ELSE 0
        /\ MarginHeld(f, t) = IF t = f.token THEN a ELSE 0
    BY DEF MarginHeld
  <2> HIDE DEF a, b
  <2> QED BY <1>1, <2>1, <2>2
<1> QED BY <1>2 DEF FuturePaid, Gets

LEMMA FutureOpens ==
  ASSUME FuturesInv, wallet \in Wallets, now \in Int, NEW p \in Party, NEW t \in Token, NEW price \in Nat,
         NEW size \in Nat, NEW k \in Nat, open_long(p, t, price, size, k)
  PROVE  \E n \in Contract : FutureOpened(n) /\ FutureStarts(n)
<1> DEFINE x == required_margin(size, price, margins.initial)
           pa == [s \in Side |-> IF s = "Long" THEN p ELSE None]
           ma == [s \in Side |-> IF s = "Long" THEN x ELSE 0]
           n == [party |-> pa, margin |-> ma, token |-> t, price |-> price, size |-> size,
                 settles_at |-> now + k, status |-> "Active", pnl |-> 0, terms |-> margins]
<1>1. /\ futures' = Append(futures, n) /\ wallet' = Transfer(wallet, t, p, Jar, x)
      /\ Joined(p, "Long", x) /\ margins' = margins
  BY DEF open_long, Pay
<1>2. margins \in Margins /\ margins.initial \in Nat /\ traders \in [Party -> Trader]
  BY FuturesAssumption DEF FuturesInv
<1>3. x \in Nat
  BY <1>2, RequiredType
<1> HIDE DEF x
<1>4. /\ pa \in [Side -> Party \cup {None}] /\ ma \in [Side -> Nat]
      /\ pa["Long"] = p /\ pa["Short"] = None /\ ma["Long"] = x /\ ma["Short"] = 0
  BY <1>3, Sides
<1> HIDE DEF pa, ma
<1>5. /\ n \in Contract /\ n.party = pa /\ n.margin = ma /\ n.token = t /\ n.status = "Active"
  BY <1>2, <1>4 DEF Contract
<1> HIDE DEF n
<1>6. ~Closed(n) /\ ContractSound(n)
  BY <1>4, <1>5, FuturesAssumption DEF Closed, ContractSound
<1>7. Gets(wallet, wallet', t, x)
  BY <1>1, <1>3, PaidIn
<1>8. ASSUME NEW u \in Token PROVE wallet'[u][Jar] = wallet[u][Jar] + MarginHeld(n, u)
  <2>1. wallet'[u][Jar] = wallet[u][Jar] + (IF u = t THEN x ELSE 0)
    BY <1>7 DEF Gets
  <2>2. MarginHeld(n, u) = IF u = t THEN x ELSE 0
    BY <1>3, <1>4, <1>5, <1>6 DEF MarginHeld
  <2> QED BY <2>1, <2>2
<1>9. Shift(traders, traders', p, x)
  BY <1>1, <1>2, <1>3, Sides, TraderJoins
<1>10. ASSUME NEW q \in Party PROVE traders'[q].margin - traders[q].margin >= HeldFor(n, q)
  <2>1. traders'[q].margin = traders[q].margin + (IF q = p THEN x ELSE 0) /\ traders[q].margin \in Int
    BY <1>2, <1>9, TraderMargin DEF Shift
  <2>2. HeldFor(n, q) = IF q = p THEN x ELSE 0
    BY <1>3, <1>4, <1>5, <1>6, FuturesAssumption DEF HeldFor
  <2> QED BY <1>3, <2>1, <2>2
<1>11. FutureOpened(n)
  BY <1>1, <1>5, <1>7, <1>8 DEF FutureOpened, Gets
<1>12. FutureStarts(n)
  BY <1>1, <1>2, <1>6, <1>9, <1>10 DEF FutureStarts, Shift
<1> QED BY <1>5, <1>11, <1>12

\* A margin of one side is raised by x, paid by its party p.
LEMMA MarginRaised ==
  ASSUME FuturesInv, wallet \in Wallets, NEW i \in DOMAIN futures, ~Closed(futures[i]), NEW p \in Party,
         NEW side \in Side, NEW x \in Nat, NEW n \in Contract, n.status = futures[i].status,
         n.token = futures[i].token,
         n.party \in [Side -> Party \cup {None}], n.party[side] = p,
         n.margin[side] = futures[i].margin[side] + x,
         futures[i].party[side] = p \/ futures[i].margin[side] = 0,
         \A s \in Side \ {side} : n.margin[s] = futures[i].margin[s] /\ n.party[s] = futures[i].party[s],
         ContractSound(n), futures' = [futures EXCEPT ![i] = n], margins' = margins,
         wallet' = Transfer(wallet, futures[i].token, p, Jar, x), Shift(traders, traders', p, x)
  PROVE  FutureWritten(i, n) /\ FutureStays(i, n)
<1> DEFINE f == futures[i]
           fl == f.margin["Long"]
           fs == f.margin["Short"]
           nl == n.margin["Long"]
           ns == n.margin["Short"]
<1>1. f \in Contract /\ f.token \in Token /\ traders \in [Party -> Trader] /\ margins \in Margins
  BY FutureFields DEF FuturesInv
<1>2. fl \in Nat /\ fs \in Nat /\ nl \in Nat /\ ns \in Nat
  BY <1>1, Sides DEF Contract
<1>3. nl + ns = fl + fs + x
  <2>1. CASE side = "Long"
    <3>1. nl = fl + x /\ ns = fs
      BY <2>1, Sides
    <3> HIDE DEF fl, fs, nl, ns
    <3> QED BY <1>2, <3>1
  <2>2. CASE side = "Short"
    <3>1. ns = fs + x /\ nl = fl
      BY <2>2, Sides
    <3> HIDE DEF fl, fs, nl, ns
    <3> QED BY <1>2, <3>1
  <2> QED BY <2>1, <2>2, Sides
<1>4. ~Closed(f) /\ ~Closed(n)
  BY DEF Closed
<1>5. Gets(wallet, wallet', f.token, x)
  BY <1>1, PaidIn
<1>6. FuturePaid(f, n) /\ wallet' \in Wallets
  <2>1. (IF Closed(n) THEN 0 ELSE nl + ns) = (IF Closed(f) THEN 0 ELSE fl + fs) + x
    BY <1>3, <1>4
  <2> QED BY <1>1, <1>5, <2>1, FutureMoved
<1>7. ASSUME NEW q \in Party PROVE traders'[q].margin - traders[q].margin >= HeldFor(n, q) - HeldFor(f, q)
  <2>1. traders'[q].margin = traders[q].margin + (IF q = p THEN x ELSE 0) /\ traders[q].margin \in Int
    BY <1>1, TraderMargin DEF Shift
  <2> DEFINE a == HeldFor(f, q)
             b == HeldFor(n, q)
  <2>2. a \in Int /\ b \in Int /\ b <= a + (IF q = p THEN x ELSE 0)
    <3> DEFINE fL == f.party["Long"]
               fS == f.party["Short"]
               nL == n.party["Long"]
               nS == n.party["Short"]
    <3>1. /\ a = (IF fL = q THEN fl ELSE 0) + (IF fS = q THEN fs ELSE 0)
          /\ b = (IF nL = q THEN nl ELSE 0) + (IF nS = q THEN ns ELSE 0)
      BY <1>4 DEF HeldFor
    <3>2. CASE side = "Long"
      <4>1. nl = fl + x /\ ns = fs /\ nL = p /\ nS = fS /\ (fL = p \/ fl = 0)
        BY <3>2, Sides
      <4> HIDE DEF fl, fs, nl, ns, fL, fS, nL, nS, a, b
      <4> QED BY <1>2, <3>1, <4>1
    <3>3. CASE side = "Short"
      <4>1. ns = fs + x /\ nl = fl /\ nS = p /\ nL = fL /\ (fS = p \/ fs = 0)
        BY <3>3, Sides
      <4> HIDE DEF fl, fs, nl, ns, fL, fS, nL, nS, a, b
      <4> QED BY <1>2, <3>1, <4>1
    <3> QED BY <3>2, <3>3, Sides
  <2> HIDE DEF a, b
  <2>3. traders'[q].margin - traders[q].margin >= b - a
    BY <2>1, <2>2
  <2> QED BY <2>3 DEF a, b
<1>8. FutureWritten(i, n)
  BY <1>6 DEF FutureWritten
<1>9. FutureStays(i, n)
  BY <1>1, <1>7 DEF FutureStays, Covers, Shift
<1> QED BY <1>8, <1>9

LEMMA FutureMatched ==
  ASSUME FuturesInv, wallet \in Wallets, NEW p \in Party, NEW i \in DOMAIN futures, match_futures(p, i)
  PROVE  \E n \in Contract : FutureWritten(i, n) /\ FutureStays(i, n)
<1> DEFINE f == futures[i]
           x == required_margin(f.size, f.price, f.terms.initial)
           n == Taken(f, p, x)
<1>1. /\ f.status = "Active" /\ f.party["Short"] = None
      /\ wallet' = Transfer(wallet, f.token, p, Jar, x)
      /\ futures' = [futures EXCEPT ![i] = n] /\ Joined(p, "Short", x) /\ margins' = margins
  BY DEF match_futures, match_short, Unmatched, Active, Pay, Taken
<1>2. f \in Contract /\ ContractSound(f) /\ traders \in [Party -> Trader]
  BY DEF FuturesInv
<1> HIDE DEF f
<1>3. x \in Nat
  <2> DEFINE k == f.terms
  <2>1. f.size \in Nat /\ f.price \in Nat /\ k \in Margins
    BY <1>2 DEF Contract
  <2>2. k.initial \in Nat
    <3> HIDE DEF k
    <3> QED BY <2>1, FuturesAssumption
  <2> QED BY <2>1, <2>2, RequiredType
<1> HIDE DEF x
<1>4. /\ IsContract(n, f, [f.party EXCEPT !["Short"] = p], [f.margin EXCEPT !["Short"] = x])
      /\ n.status = f.status
  BY <1>2, <1>3, ContractTaken
<1> HIDE DEF n
<1>5. /\ n \in Contract /\ n.token = f.token /\ n.party \in [Side -> Party \cup {None}]
      /\ n.party["Short"] = p /\ n.party["Long"] = f.party["Long"]
      /\ n.margin["Short"] = x /\ n.margin["Long"] = f.margin["Long"] /\ f.margin["Short"] = 0
  <2>1. f.party \in [Side -> Party \cup {None}] /\ f.margin \in [Side -> Nat]
    BY <1>2 DEF Contract
  <2>2. f.margin["Short"] = 0
    BY <1>1, <1>2 DEF ContractSound
  <2> QED BY <1>4, <2>1, <2>2, Sides DEF IsContract
<1>6. ContractSound(n)
  BY <1>2, <1>5, FuturesAssumption DEF ContractSound
<1>7. Shift(traders, traders', p, x)
  BY <1>1, <1>2, <1>3, Sides, TraderJoins
<1>8. ~Closed(f)
  BY <1>1 DEF Closed
<1>9. n.margin["Short"] = f.margin["Short"] + x
  BY <1>3, <1>5
<1>10. \A s \in Side \ {"Short"} : n.margin[s] = f.margin[s] /\ n.party[s] = f.party[s]
  BY <1>5, Sides
<1>11. FutureWritten(i, n) /\ FutureStays(i, n)
  BY <1>1, <1>3, <1>4, <1>5, <1>6, <1>7, <1>8, <1>9, <1>10, Sides, MarginRaised DEF f
<1> QED BY <1>5, <1>11

LEMMA MarginAdded ==
  ASSUME FuturesInv, wallet \in Wallets, NEW p \in Party, NEW i \in DOMAIN futures, NEW side \in Side,
         NEW x \in Nat, add_futures_margin(p, i, side, x)
  PROVE  \E n \in Contract : FutureWritten(i, n) /\ FutureStays(i, n)
<1> DEFINE f == futures[i]
           y == f.margin[side] + x
           n == Margined(f, side, y)
           r == traders[p]
           e == [r EXCEPT !.margin = r.margin + x]
<1>1. /\ f.status = "Active" /\ f.party[side] = p
      /\ wallet' = Transfer(wallet, f.token, p, Jar, x)
      /\ futures' = [futures EXCEPT ![i] = n] /\ margins' = margins
      /\ traders' = [traders EXCEPT ![p] = e]
  BY DEF add_futures_margin, add_margin, Active, Pay, Margined
<1>2. f \in Contract /\ ContractSound(f) /\ traders \in [Party -> Trader]
  BY DEF FuturesInv
<1> HIDE DEF f
<1>3. f.party \in [Side -> Party \cup {None}] /\ f.margin \in [Side -> Nat] /\ y \in Nat
  BY <1>2 DEF Contract
<1>4. /\ IsContract(n, f, f.party, [f.margin EXCEPT ![side] = y])
      /\ n.status = f.status
  <2> HIDE DEF y
  <2> QED BY <1>2, <1>3, ContractMargined
<1> HIDE DEF n
<1>5. /\ n \in Contract /\ n.token = f.token /\ n.party = f.party
      /\ n.margin[side] = f.margin[side] + x
      /\ \A s \in Side \ {side} : n.margin[s] = f.margin[s] /\ n.party[s] = f.party[s]
  BY <1>3, <1>4 DEF IsContract
<1>6. ContractSound(n)
  <2>1. f.party["Short"] = None => "Short" # side
    BY <1>1, FuturesAssumption
  <2> QED BY <1>2, <1>5, <2>1, Sides DEF ContractSound
<1>7. Shift(traders, traders', p, x)
  <2>1. r \in Trader /\ r.margin + x \in Int
    BY <1>2, TraderMargin
  <2>2. e \in Trader /\ e.margin = r.margin + x
    BY <2>1 DEF Trader
  <2> HIDE DEF e
  <2>3. traders' \in [Party -> Trader] /\ \A q \in Party : traders'[q] = IF q = p THEN e ELSE traders[q]
    BY <1>1, <1>2, <2>2
  <2>4. ASSUME NEW q \in Party PROVE traders'[q].margin = traders[q].margin + (IF q = p THEN x ELSE 0)
    BY <1>2, <2>2, <2>3, TraderMargin
  <2> QED BY <2>3, <2>4 DEF Shift
<1>8. ~Closed(f)
  BY <1>1 DEF Closed
<1>9. n.party \in [Side -> Party \cup {None}] /\ n.party[side] = p
  BY <1>1, <1>3, <1>5
<1> HIDE DEF y, e, r
<1>10. /\ ~Closed(futures[i]) /\ n.status = futures[i].status /\ n.token = futures[i].token
       /\ n.margin[side] = futures[i].margin[side] + x /\ futures[i].party[side] = p
       /\ \A s \in Side \ {side} : n.margin[s] = futures[i].margin[s] /\ n.party[s] = futures[i].party[s]
       /\ wallet' = Transfer(wallet, futures[i].token, p, Jar, x)
  BY <1>1, <1>4, <1>5, <1>8, Zenon DEF f
<1>12. n \in Contract /\ futures' = [futures EXCEPT ![i] = n] /\ margins' = margins
  BY <1>1, <1>5
<1>11. FutureWritten(i, n) /\ FutureStays(i, n)
  BY <1>6, <1>7, <1>9, <1>10, <1>12, MarginRaised
<1> QED BY <1>5, <1>11

-----------------------------------------------------------------------------
\* A contract is noted, or closes and pays both margins out.
LEMMA FutureNoted ==
  ASSUME FuturesInv, wallet \in Wallets, NEW i \in DOMAIN futures, NEW n, NEW status,
         IsMarked(n, futures[i], status), status \in {"Active", "PendingSettlement"},
         ~Closed(futures[i]), futures' = [futures EXCEPT ![i] = n],
         wallet' = wallet, margins' = margins, traders' = traders
  PROVE  n \in Contract /\ FutureWritten(i, n) /\ FutureStays(i, n)
<1> DEFINE f == futures[i]
<1>1. /\ f \in Contract /\ ContractSound(f) /\ f.token \in Token /\ traders \in [Party -> Trader]
      /\ margins \in Margins
  BY FutureFields DEF FuturesInv
<1>2. /\ n \in Contract /\ n.token = f.token /\ n.party = f.party /\ n.margin = f.margin
      /\ ~Closed(n) /\ ~Closed(f)
  BY DEF IsMarked, IsContract, Closed
<1> HIDE DEF f
<1>3. ContractSound(n)
  BY <1>1, <1>2 DEF ContractSound
<1>4. \A t \in Token : MarginHeld(n, t) = MarginHeld(f, t) /\ MarginHeld(f, t) \in Int
  BY <1>1, <1>2, FutureFields DEF MarginHeld
<1>5. \A q \in Party : HeldFor(n, q) = HeldFor(f, q) /\ HeldFor(f, q) \in Int
  BY <1>1, <1>2, FutureFields DEF HeldFor
<1>6. FuturePaid(f, n)
  <2> SUFFICES ASSUME NEW t \in Token
               PROVE  wallet'[t][Jar] = wallet[t][Jar] + MarginHeld(n, t) - MarginHeld(f, t)
    BY DEF FuturePaid
  <2>1. wallet'[t][Jar] = wallet[t][Jar] /\ wallet[t][Jar] \in Int
    BY JarsAccount
  <2> QED BY <1>4, <2>1
<1>7. ASSUME NEW q \in Party PROVE traders'[q].margin - traders[q].margin >= HeldFor(n, q) - HeldFor(f, q)
  <2>1. traders'[q].margin = traders[q].margin /\ traders[q].margin \in Int
    BY <1>1, TraderMargin
  <2> QED BY <1>5, <2>1
<1>8. FutureWritten(i, n)
  BY <1>2, <1>6 DEF FutureWritten, f
<1>9. FutureStays(i, n)
  BY <1>1, <1>3, <1>7 DEF FutureStays, Covers, f
<1> QED BY <1>2, <1>8, <1>9

LEMMA FutureCloses ==
  ASSUME FuturesInv, wallet \in Wallets, NEW i \in DOMAIN futures, NEW n, NEW status,
         IsMarked(n, futures[i], status), status \in {"Settled", "Liquidated", "Cancelled"},
         ~Closed(futures[i]), futures' = [futures EXCEPT ![i] = n], margins' = margins, NEW x \in Int,
         x = -(futures[i].margin["Long"] + futures[i].margin["Short"]),
         Gets(wallet, wallet', futures[i].token, x), traders' \in [Party -> Trader],
         \A q \in Party : traders'[q].margin >= traders[q].margin - HeldFor(futures[i], q)
  PROVE  n \in Contract /\ FutureWritten(i, n) /\ FutureStays(i, n)
<1> DEFINE f == futures[i]
<1>1. /\ f \in Contract /\ ContractSound(f) /\ f.token \in Token /\ traders \in [Party -> Trader]
      /\ margins \in Margins
  BY FutureFields DEF FuturesInv
<1>2. /\ n \in Contract /\ n.token = f.token /\ n.party = f.party /\ n.margin = f.margin
      /\ Closed(n) /\ ~Closed(f)
  BY DEF IsMarked, IsContract, Closed
<1>a. /\ x = -(f.margin["Long"] + f.margin["Short"]) /\ Gets(wallet, wallet', f.token, x)
      /\ \A q \in Party : traders'[q].margin >= traders[q].margin - HeldFor(f, q)
  OBVIOUS
<1>b. f.margin["Long"] \in Nat /\ f.margin["Short"] \in Nat
  BY <1>1, FutureFields
<1> HIDE DEF f
<1>3. ContractSound(n)
  BY <1>1, <1>2 DEF ContractSound
<1>5. \A q \in Party : HeldFor(n, q) = 0 /\ HeldFor(f, q) \in Int
  BY <1>1, <1>2, FutureFields DEF HeldFor
<1>6. FuturePaid(f, n) /\ wallet' \in Wallets
  <2>1. (IF Closed(n) THEN 0 ELSE n.margin["Long"] + n.margin["Short"])
           = (IF Closed(f) THEN 0 ELSE f.margin["Long"] + f.margin["Short"]) + x
    BY <1>2, <1>a, <1>b
  <2> QED BY <1>1, <1>2, <1>a, <2>1, FutureMoved
<1>7. ASSUME NEW q \in Party PROVE traders'[q].margin - traders[q].margin >= HeldFor(n, q) - HeldFor(f, q)
  <2>1. /\ traders'[q].margin >= traders[q].margin - HeldFor(f, q) /\ traders'[q].margin \in Int
        /\ traders[q].margin \in Int
    BY <1>1, <1>a, TraderMargin
  <2> QED BY <1>5, <2>1
<1>8. FutureWritten(i, n)
  BY <1>2, <1>6 DEF FutureWritten, f
<1>9. FutureStays(i, n)
  BY <1>1, <1>3, <1>7 DEF FutureStays, Covers, f
<1> QED BY <1>2, <1>8, <1>9

LEMMA FuturePriced ==
  ASSUME FuturesInv, wallet \in Wallets, NEW i \in DOMAIN futures, NEW price \in Nat,
         update_futures_mark_price(i, price)
  PROVE  \E n \in Contract : FutureWritten(i, n) /\ FutureStays(i, n)
<1> DEFINE f == futures[i]
           g == Gain(f, price)
           n == [f EXCEPT !.pnl = g]
<1>1. /\ f.status = "Active" /\ futures' = [futures EXCEPT ![i] = n]
      /\ wallet' = wallet /\ margins' = margins /\ traders' = traders
  BY DEF update_futures_mark_price, update_mark_price, Active
<1>2. f \in Contract
  BY DEF FuturesInv
<1>3. g \in Int
  BY <1>2, GainType
<1> HIDE DEF g
<1>4. IsMarked(n, f, "Active") /\ ~Closed(f)
  BY <1>1, <1>2, <1>3, ContractPriced DEF Closed
<1> HIDE DEF n
<1>5. n \in Contract /\ FutureWritten(i, n) /\ FutureStays(i, n)
  BY <1>1, <1>4, FutureNoted
<1> QED BY <1>5

LEMMA FuturePending ==
  ASSUME FuturesInv, wallet \in Wallets, NEW i \in DOMAIN futures, mark_futures_pending(i)
  PROVE  \E n \in Contract : FutureWritten(i, n) /\ FutureStays(i, n)
<1> DEFINE f == futures[i]
           n == [f EXCEPT !.status = "PendingSettlement"]
<1>1. /\ f.status = "Active" /\ futures' = [futures EXCEPT ![i] = n]
      /\ wallet' = wallet /\ margins' = margins /\ traders' = traders
  BY DEF mark_futures_pending, mark_pending, Active
<1>2. f \in Contract
  BY DEF FuturesInv
<1>4. IsMarked(n, f, "PendingSettlement") /\ ~Closed(f)
  BY <1>1, <1>2, ContractPending DEF Closed
<1> HIDE DEF n
<1>5. n \in Contract /\ FutureWritten(i, n) /\ FutureStays(i, n)
  BY <1>1, <1>4, FutureNoted
<1> QED BY <1>5

\* Somebody leaves with no more than what the contract holds for them.
LEMMA SideHeld ==
  ASSUME NEW f \in Contract, ~Closed(f), NEW side \in Side, NEW q \in Party, NEW z,
         z = f.margin[side]
  PROVE  HeldFor(f, q) \in Nat /\ z \in Nat /\ (f.party[side] = q => HeldFor(f, q) >= z)
<1> DEFINE l == f.margin["Long"]
           s == f.margin["Short"]
<1>1. /\ l \in Nat /\ s \in Nat
      /\ HeldFor(f, q) = IF Closed(f) THEN 0
                            ELSE (IF f.party["Long"] = q THEN l ELSE 0)
                                   + (IF f.party["Short"] = q THEN s ELSE 0)
  BY HeldParts
<1>2. (side = "Long" /\ z = l) \/ (side = "Short" /\ z = s)
  BY Sides
<1> HIDE DEF l, s
<1> QED BY <1>1, <1>2

LEMMA FutureCancelled ==
  ASSUME FuturesInv, wallet \in Wallets, NEW p \in Party, NEW i \in DOMAIN futures, cancel_futures(p, i)
  PROVE  \E n \in Contract : FutureWritten(i, n) /\ FutureStays(i, n)
<1> DEFINE f == futures[i]
           z == f.margin["Long"]
           g == f.pnl
           n == Marked(f, "Cancelled", g)
<1>1. /\ f.status = "Active" /\ f.party["Short"] = None /\ f.party["Long"] = p
      /\ wallet' = Transfer(wallet, f.token, Jar, p, z)
      /\ traders' = Left(traders, p, "Long", z)
      /\ futures' = [futures EXCEPT ![i] = n] /\ margins' = margins
  BY DEF cancel_futures, cancel_contract, Unmatched, Active, Pay, Close, Marked
<1>2. f \in Contract /\ ContractSound(f) /\ f.token \in Token /\ traders \in [Party -> Trader] /\ z \in Nat
  BY FutureFields DEF FuturesInv
<1>3. g \in Int /\ f.margin["Short"] = 0
  BY <1>1, <1>2 DEF Contract, ContractSound
<1>4. IsMarked(n, f, "Cancelled") /\ ~Closed(f)
  BY <1>1, <1>2, <1>3, ContractMarked DEF Closed
<1> HIDE DEF n, g
<1>5. Gets(wallet, wallet', f.token, -z)
  BY <1>1, <1>2, PaidOutOf
<1>6. Shift(traders, traders', p, -z)
  BY <1>1, <1>2, Sides, TraderLeaves
<1>7. ASSUME NEW q \in Party PROVE traders'[q].margin >= traders[q].margin - HeldFor(f, q)
  <2>1. traders'[q].margin = traders[q].margin + (IF q = p THEN -z ELSE 0) /\ traders[q].margin \in Int
    BY <1>2, <1>6, TraderMargin DEF Shift
  <2>2. HeldFor(f, q) \in Nat /\ (q = p => HeldFor(f, q) >= z)
    BY <1>1, <1>2, <1>4, Sides, SideHeld
  <2> HIDE DEF f, z
  <2> QED BY <1>2, <2>1, <2>2
<1>8. -z \in Int /\ -z = -(f.margin["Long"] + f.margin["Short"]) /\ traders' \in [Party -> Trader]
  BY <1>2, <1>3, <1>6 DEF Shift
<1>9. n \in Contract /\ FutureWritten(i, n) /\ FutureStays(i, n)
  <2> DEFINE x == -z
  <2>1. /\ x \in Int /\ x = -(futures[i].margin["Long"] + futures[i].margin["Short"])
        /\ Gets(wallet, wallet', futures[i].token, x) /\ IsMarked(n, futures[i], "Cancelled")
        /\ ~Closed(futures[i])
        /\ \A q \in Party : traders'[q].margin >= traders[q].margin - HeldFor(futures[i], q)
    BY <1>4, <1>5, <1>7, <1>8
  <2>2. traders' \in [Party -> Trader] /\ futures' = [futures EXCEPT ![i] = n] /\ margins' = margins
    BY <1>1, <1>8
  <2> HIDE DEF x, f, z
  <2> QED BY <2>1, <2>2, FutureCloses
<1> QED BY <1>9

\* The parties of a contract that both sides have taken.
LEMMA BothSides ==
  ASSUME FuturesInv, NEW i \in DOMAIN futures, futures[i].party["Short"] # None
  PROVE  /\ futures[i] \in Contract /\ futures[i].token \in Token
         /\ \A s \in Side : futures[i].party[s] \in Party /\ futures[i].margin[s] \in Nat
         /\ futures[i].pnl \in Int /\ futures[i].terms \in Margins
         /\ futures[i].size \in Nat /\ futures[i].price \in Nat
<1> DEFINE f == futures[i]
<1>1. f \in Contract /\ ContractSound(f)
  BY DEF FuturesInv
<1>2. /\ f.party \in [Side -> Party \cup {None}] /\ f.margin \in [Side -> Nat] /\ f.token \in Token
      /\ f.pnl \in Int /\ f.terms \in Margins /\ f.size \in Nat /\ f.price \in Nat
  BY <1>1 DEF Contract
<1>3. ASSUME NEW s \in Side PROVE f.party[s] \in Party /\ f.margin[s] \in Nat
  BY <1>1, <1>2, Sides DEF ContractSound
<1> QED BY <1>1, <1>2, <1>3

\* Three payments out of the jar.
LEMMA PaidThreeOut ==
  ASSUME NEW w \in Wallets, NEW t \in Token, NEW o \in Party, NEW p \in Party, NEW q \in Party,
         NEW x \in Int, NEW y \in Int, NEW z \in Int, NEW v,
         v = Transfer(Transfer(Transfer(w, t, Jar, o, x), t, Jar, p, y), t, Jar, q, z),
         NEW d \in Int, d = -(x + y + z)
  PROVE  Gets(w, v, t, d)
<1> DEFINE a == Transfer(w, t, Jar, o, x)
<1>1. Gets(w, a, t, -x) /\ a \in Wallets
  BY PaidOutOf DEF Gets
<1>2. v = Transfer(Transfer(a, t, Jar, p, y), t, Jar, q, z)
  OBVIOUS
<1> HIDE DEF a
<1>3. GetsBoth(a, v, t, -y, t, -z)
  BY <1>1, <1>2, PaidBothOut
<1>4. ASSUME NEW u \in Token
      PROVE  v[u][Jar] \in Int /\ v[u][Jar] = w[u][Jar] + (IF u = t THEN d ELSE 0)
  <2>1. /\ a[u][Jar] = w[u][Jar] + (IF u = t THEN -x ELSE 0) /\ w[u][Jar] \in Int
        /\ v[u][Jar] \in Int
        /\ v[u][Jar] = a[u][Jar] + (IF u = t THEN -y ELSE 0) + (IF u = t THEN -z ELSE 0)
    BY <1>1, <1>3, JarsAccount DEF Gets, GetsBoth
  <2> QED BY <2>1
<1> QED BY <1>3, <1>4 DEF Gets, GetsBoth
LEMMA PaidTwoOut ==
  ASSUME NEW w \in Wallets, NEW t \in Token, NEW p \in Party, NEW q \in Party,
         NEW y \in Int, NEW z \in Int, NEW v,
         v = Transfer(Transfer(w, t, Jar, p, y), t, Jar, q, z), NEW d \in Int, d = -(y + z)
  PROVE  Gets(w, v, t, d)
<1>3. GetsBoth(w, v, t, -y, t, -z)
  BY PaidBothOut
<1>4. ASSUME NEW u \in Token
      PROVE  v[u][Jar] \in Int /\ v[u][Jar] = w[u][Jar] + (IF u = t THEN d ELSE 0)
  <2>1. /\ w[u][Jar] \in Int /\ v[u][Jar] \in Int
        /\ v[u][Jar] = w[u][Jar] + (IF u = t THEN -y ELSE 0) + (IF u = t THEN -z ELSE 0)
    BY <1>3, JarsAccount DEF GetsBoth
  <2> QED BY <2>1
<1> QED BY <1>3, <1>4 DEF Gets, GetsBoth

LEMMA FutureLiquidated ==
  ASSUME FuturesInv, wallet \in Wallets, NEW p \in Party, NEW i \in DOMAIN futures,
         liquidate_futures(p, i)
  PROVE  \E n \in Contract : FutureWritten(i, n) /\ FutureStays(i, n)
<1> DEFINE f == futures[i]
           weak == IF Liquidatable(f, "Long") THEN "Long" ELSE "Short"
           cut == (Notional(f.size, f.price) * f.terms.penalty) \div Bps
           a == f.margin[weak]
           b == f.margin[Other(weak)]
           penalty == Smaller(cut, a)
           g == f.pnl
           n == Marked(f, "Liquidated", g)
           pw == f.party[weak]
           po == f.party[Other(weak)]
<1>1. /\ f.status = "Active" /\ f.party["Short"] # None
      /\ wallet' = Transfer(Transfer(Transfer(wallet, f.token, Jar, p, penalty),
                                     f.token, Jar, pw, a - penalty), f.token, Jar, po, b)
      /\ traders' = Left(traders, pw, weak, a)
      /\ futures' = [futures EXCEPT ![i] = n] /\ margins' = margins
  BY DEF liquidate_futures, liquidate, Unmatched, Active, PayOut, Close, Marked
<1>2. /\ f \in Contract /\ f.token \in Token
      /\ \A s \in Side : f.party[s] \in Party /\ f.margin[s] \in Nat
      /\ g \in Int /\ f.terms \in Margins /\ f.size \in Nat /\ f.price \in Nat
  BY <1>1, BothSides
<1>3. /\ weak \in Side /\ Other(weak) \in Side
      /\ (weak = "Long" /\ Other(weak) = "Short") \/ (weak = "Short" /\ Other(weak) = "Long")
  BY Sides DEF Other
<1>4. cut \in Int
  <2>1. f.terms.penalty \in Nat
    <3> DEFINE k == f.terms
    <3>1. k \in Margins
      BY <1>2
    <3> HIDE DEF k
    <3>2. k.penalty \in Nat
      BY <3>1, FuturesAssumption
    <3> QED BY <3>2 DEF k
  <2> DEFINE y == f.size * f.price
             c == f.terms.penalty
             h == y \div PriceUnit
             e == h * c
  <2>2. y \in Nat
    BY <1>2, Product
  <2> HIDE DEF y
  <2>3. h \in Nat
    BY <2>2, FuturesAssumption, Portion
  <2> HIDE DEF h
  <2>4. e \in Nat
    BY <2>1, <2>3, Product
  <2>5. e = Notional(f.size, f.price) * f.terms.penalty
    BY DEF Notional, h, y
  <2> HIDE DEF e
  <2> QED BY <2>4, <2>5, LedgerAssumption, Portion
<1>5. a \in Nat /\ b \in Nat /\ pw \in Party /\ po \in Party
  BY <1>2, <1>3
<1> HIDE DEF cut, weak
<1>6. penalty \in Int
  <2> HIDE DEF a
  <2> QED BY <1>4, <1>5 DEF Smaller
<1> HIDE DEF penalty
<1> DEFINE d == -(a + b)
<1>7. d = -(f.margin["Long"] + f.margin["Short"])
  BY <1>2, <1>3, Sides
<1>8. d \in Int /\ a - penalty \in Int /\ d = -(penalty + (a - penalty) + b)
  <2> HIDE DEF a, b
  <2> QED BY <1>5, <1>6
<1>9. Gets(wallet, wallet', f.token, d)
  <2> HIDE DEF a, b, d, f, pw, po
  <2> QED BY <1>1, <1>2, <1>5, <1>6, <1>8, PaidThreeOut
<1>10. IsMarked(n, f, "Liquidated") /\ ~Closed(f)
  BY <1>1, <1>2, ContractMarked DEF Closed
<1> HIDE DEF n, g
<1>11. Shift(traders, traders', pw, -a)
  <2>1. traders \in [Party -> Trader]
    BY DEF FuturesInv
  <2> HIDE DEF a, pw
  <2> QED BY <1>1, <1>3, <1>5, <2>1, TraderLeaves
<1>12. ASSUME NEW q \in Party PROVE traders'[q].margin >= traders[q].margin - HeldFor(f, q)
  <2>0. traders \in [Party -> Trader]
    BY DEF FuturesInv
  <2>1. traders'[q].margin = traders[q].margin + (IF q = pw THEN -a ELSE 0) /\ traders[q].margin \in Int
    BY <2>0, <1>11, TraderMargin DEF Shift
  <2>2. HeldFor(f, q) \in Nat /\ (q = pw => HeldFor(f, q) >= a)
    BY <1>2, <1>3, <1>10, SideHeld
  <2> HIDE DEF f, a, pw
  <2> QED BY <1>5, <2>1, <2>2
<1>13. n \in Contract /\ FutureWritten(i, n) /\ FutureStays(i, n)
  <2>1. /\ d \in Int /\ d = -(futures[i].margin["Long"] + futures[i].margin["Short"])
        /\ Gets(wallet, wallet', futures[i].token, d) /\ IsMarked(n, futures[i], "Liquidated")
        /\ ~Closed(futures[i])
        /\ \A q \in Party : traders'[q].margin >= traders[q].margin - HeldFor(futures[i], q)
    BY <1>7, <1>8, <1>9, <1>10, <1>12
  <2>2. traders' \in [Party -> Trader] /\ futures' = [futures EXCEPT ![i] = n] /\ margins' = margins
    BY <1>1, <1>11 DEF Shift
  <2> HIDE DEF d, f, a, b
  <2> QED BY <2>1, <2>2, FutureCloses
<1> QED BY <1>13

\* Only the result of a trader is written.
Resulted(r, x) == [r EXCEPT !.pnl = x]
LEMMA TraderResult ==
  ASSUME NEW r \in Trader, NEW x \in Int
  PROVE  HasMargin(Resulted(r, x), r.margin)
BY DEF Trader, HasMargin, Resulted

LEMMA FutureSettled ==
  ASSUME FuturesInv, wallet \in Wallets, NEW i \in DOMAIN futures, NEW price \in Nat,
         settle_futures(i, price)
  PROVE  \E n \in Contract : FutureWritten(i, n) /\ FutureStays(i, n)
<1> DEFINE f == futures[i]
           g == Gain(f, price)
           x == Exchanged(f, g)
           l == f.margin["Long"]
           s == f.margin["Short"]
           pl == f.party["Long"]
           ps == f.party["Short"]
           one == Left(traders, pl, "Long", l)
           two == Left(one, ps, "Short", s)
           e(q) == two[q].pnl + (IF q = pl THEN g ELSE 0) - (IF q = ps THEN g ELSE 0)
           n == Marked(f, "Settled", g)
<1>1. /\ ~Closed(f) /\ ps # None
      /\ wallet' = Transfer(Transfer(wallet, f.token, Jar, pl, l + x), f.token, Jar, ps, s - x)
      /\ traders' = [q \in Party |-> Resulted(two[q], e(q))]
      /\ futures' = [futures EXCEPT ![i] = n] /\ margins' = margins
  BY DEF settle_futures, settle, PayOut, Close, Marked, Resulted
<1>2. /\ f \in Contract /\ f.token \in Token /\ pl \in Party /\ ps \in Party /\ l \in Nat /\ s \in Nat
  BY <1>1, BothSides, Sides
<1>3. g \in Int
  BY <1>2, GainType
<1> HIDE DEF g
<1>4. x \in Int
  BY <1>2, <1>3, ExchangedType
<1> HIDE DEF x
<1>5. IsMarked(n, f, "Settled")
  BY <1>2, <1>3, ContractMarked
<1> HIDE DEF n
<1> DEFINE d == -(l + s)
<1>6. d \in Int /\ l + x \in Int /\ s - x \in Int /\ d = -((l + x) + (s - x))
  <2> HIDE DEF l, s
  <2> QED BY <1>2, <1>4
<1>7. Gets(wallet, wallet', f.token, d)
  <2> HIDE DEF l, s, d, f, pl, ps
  <2> QED BY <1>1, <1>2, <1>6, PaidTwoOut
<1>t. traders \in [Party -> Trader]
  BY DEF FuturesInv
<1>8. Shift(traders, one, pl, -l)
  <2> HIDE DEF l, pl
  <2> QED BY <1>2, <1>t, Sides, TraderLeaves
<1>9. one \in [Party -> Trader]
  BY <1>8 DEF Shift
<1> HIDE DEF one
<1>10. Shift(one, two, ps, -s)
  <2> HIDE DEF s, ps
  <2> QED BY <1>2, <1>9, Sides, TraderLeaves
<1>11. two \in [Party -> Trader]
  BY <1>10 DEF Shift
<1> HIDE DEF two
<1>12. ASSUME NEW q \in Party
       PROVE  HasMargin(Resulted(two[q], e(q)), two[q].margin)
  <2>1. two[q] \in Trader /\ two[q].pnl \in Int
    BY <1>11 DEF Trader
  <2>2. e(q) \in Int
    BY <1>3, <2>1
  <2> HIDE DEF e
  <2> QED BY <2>1, <2>2, TraderResult
<1> HIDE DEF e
<1>13. traders' \in [Party -> Trader] /\ \A q \in Party : traders'[q].margin = two[q].margin
  BY <1>1, <1>12 DEF HasMargin
<1>14. ASSUME NEW q \in Party PROVE traders'[q].margin >= traders[q].margin - HeldFor(f, q)
  <2>1. /\ traders'[q].margin = two[q].margin /\ traders[q].margin \in Int
        /\ two[q].margin = one[q].margin + (IF q = ps THEN -s ELSE 0)
        /\ one[q].margin = traders[q].margin + (IF q = pl THEN -l ELSE 0)
    BY <1>8, <1>10, <1>13, <1>t, TraderMargin DEF Shift
  <2>2. HeldFor(f, q) = (IF pl = q THEN l ELSE 0) + (IF ps = q THEN s ELSE 0)
    BY <1>1 DEF HeldFor
  <2> HIDE DEF f, l, s, pl, ps
  <2> QED BY <1>2, <2>1, <2>2
<1>15. n \in Contract /\ FutureWritten(i, n) /\ FutureStays(i, n)
  <2>1. /\ d \in Int /\ d = -(futures[i].margin["Long"] + futures[i].margin["Short"])
        /\ Gets(wallet, wallet', futures[i].token, d) /\ IsMarked(n, futures[i], "Settled")
        /\ ~Closed(futures[i])
        /\ \A q \in Party : traders'[q].margin >= traders[q].margin - HeldFor(futures[i], q)
    BY <1>1, <1>5, <1>6, <1>7, <1>14
  <2>2. traders' \in [Party -> Trader] /\ futures' = [futures EXCEPT ![i] = n] /\ margins' = margins
    BY <1>1, <1>13
  <2> HIDE DEF d, f, l, s
  <2> QED BY <2>1, <2>2, FutureCloses
<1> QED BY <1>15

-----------------------------------------------------------------------------
\* One call on the futures, and what it leaves of their invariant.
LEMMA FuturesCalls ==
  ASSUME FuturesInv, wallet \in Wallets, now \in Int, FuturesNext
  PROVE  \/ \E i \in DOMAIN futures : \E n \in Contract : FutureWritten(i, n) /\ FutureStays(i, n)
         \/ \E n \in Contract : FutureOpened(n) /\ FutureStarts(n)
         \/ margins' \in Margins /\ UNCHANGED <<wallet, futures, traders>>
<1>a. Amounts \subseteq Nat /\ Prices \subseteq Nat /\ Sizes \subseteq Nat /\ Terms \subseteq Nat
  BY LedgerAssumption, FuturesAssumption
<1>1. CASE \E m \in Margins : set_futures_config(m)
  BY <1>1 DEF set_futures_config
<1>2. CASE \E p \in Party, t \in Token, price \in Prices, size \in Sizes, n \in Terms :
             open_futures(p, t, price, size, n)
  <2>1. PICK p \in Party, t \in Token, price \in Prices, size \in Sizes, n \in Terms :
             open_futures(p, t, price, size, n)
    BY <1>2, Zenon
  <2>2. open_long(p, t, price, size, n)
    BY <2>1, Zenon DEF open_futures
  <2>3. price \in Nat /\ size \in Nat /\ n \in Nat
    BY <1>a
  <2>4. \E k \in Contract : FutureOpened(k) /\ FutureStarts(k)
    BY <2>2, <2>3, FutureOpens
  <2> QED BY <2>4, Zenon
<1>3. ASSUME NEW i \in DOMAIN futures,
             \/ \E price \in Prices : update_futures_mark_price(i, price) \/ settle_futures(i, price)
             \/ mark_futures_pending(i)
             \/ \E p \in Party :
                  \/ match_futures(p, i) \/ liquidate_futures(p, i) \/ cancel_futures(p, i)
                  \/ \E side \in Side, x \in Amounts : add_futures_margin(p, i, side, x)
      PROVE  \E n \in Contract : FutureWritten(i, n) /\ FutureStays(i, n)
  <2>1. CASE \E price \in Prices : update_futures_mark_price(i, price) \/ settle_futures(i, price)
    BY <1>a, <2>1, FuturePriced, FutureSettled
  <2>2. CASE mark_futures_pending(i)
    BY <2>2, FuturePending
  <2>3. ASSUME NEW p \in Party,
               \/ match_futures(p, i) \/ liquidate_futures(p, i) \/ cancel_futures(p, i)
               \/ \E side \in Side, x \in Amounts : add_futures_margin(p, i, side, x)
        PROVE  \E n \in Contract : FutureWritten(i, n) /\ FutureStays(i, n)
    BY <1>a, <2>3, FutureMatched, FutureLiquidated, FutureCancelled, MarginAdded
  <2> QED BY <1>3, <2>1, <2>2, <2>3, Zenon
<1> QED BY <1>1, <1>2, <1>3, Zenon DEF FuturesNext

HeldBook(q) == [f \in Contract |-> HeldFor(f, q)]
LEMMA HeldType ==
  ASSUME NEW q \in Party
  PROVE  HeldBook(q) \in [Contract -> Int]
<1>1. ASSUME NEW f \in Contract PROVE HeldFor(f, q) \in Int
  BY HeldParts
<1> QED BY <1>1 DEF HeldBook
LEMMA HeldWorth ==
  ASSUME NEW s \in Seq(Contract), NEW q
  PROVE  SumFunction([i \in DOMAIN s |-> HeldFor(s[i], q)]) = Worth(s, HeldBook(q))
<1>1. \A i \in DOMAIN s : HeldBook(q)[s[i]] = HeldFor(s[i], q)
  BY DEF HeldBook
<1>2. [i \in DOMAIN s |-> HeldFor(s[i], q)] = [i \in DOMAIN s |-> HeldBook(q)[s[i]]]
  BY <1>1
<1> QED BY <1>2 DEF Worth
\* The positions cover the contracts of a list.
CoveredBy(r, s) == \A q \in Party : r[q].margin >= Worth(s, HeldBook(q))
LEMMA CoversNow ==
  ASSUME futures \in Seq(Contract)
  PROVE  PositionsCover <=> CoveredBy(traders, futures)
BY HeldWorth DEF PositionsCover, CoveredBy
LEMMA CoversNext ==
  ASSUME futures' \in Seq(Contract)
  PROVE  PositionsCover' <=> CoveredBy(traders', futures')
<1>1. PositionsCover' <=> \A q \in Party : traders'[q].margin
          >= SumFunction([i \in DOMAIN futures' |-> HeldFor(futures'[i], q)])
  BY DEF PositionsCover, HeldFor, Closed
<1> QED BY <1>1, HeldWorth DEF CoveredBy

SoundContracts == {f \in Contract : ContractSound(f)}
LEMMA SoundList ==
  ASSUME NEW s \in Seq(Contract)
  PROVE  (\A j \in DOMAIN s : ContractSound(s[j])) <=> (\A j \in DOMAIN s : s[j] \in SoundContracts)
BY DEF SoundContracts
LEMMA FuturesNow ==
  FuturesInv <=> /\ margins \in Margins /\ futures \in Seq(Contract) /\ traders \in [Party -> Trader]
                 /\ \A j \in DOMAIN futures : futures[j] \in SoundContracts
                 /\ CoveredBy(traders, futures)
BY SoundList, CoversNow DEF FuturesInv
LEMMA FuturesLater ==
  FuturesInv' <=> /\ margins' \in Margins /\ futures' \in Seq(Contract) /\ traders' \in [Party -> Trader]
                  /\ \A j \in DOMAIN futures' : futures'[j] \in SoundContracts
                  /\ CoveredBy(traders', futures')
<1>1. FuturesInv' <=> /\ margins' \in Margins /\ futures' \in Seq(Contract) /\ traders' \in [Party -> Trader]
                      /\ \A j \in DOMAIN futures' : ContractSound(futures'[j])
                      /\ PositionsCover'
  BY DEF FuturesInv, ContractSound
<1> QED BY <1>1, SoundList, CoversNext

LEMMA FuturesStep ==
  ASSUME FuturesInv, wallet \in Wallets, now \in Int, FuturesNext
  PROVE  FuturesInv' /\ FuturesFollow
<1>1. /\ margins \in Margins /\ futures \in Seq(Contract) /\ traders \in [Party -> Trader]
      /\ \A j \in DOMAIN futures : futures[j] \in SoundContracts
      /\ CoveredBy(traders, futures)
  BY FuturesNow
<1>g. SoundContracts \in SUBSET Contract
  BY DEF SoundContracts
<1>2. CASE \E i \in DOMAIN futures : \E n \in Contract : FutureWritten(i, n) /\ FutureStays(i, n)
  <2>1. PICK i \in DOMAIN futures, n \in Contract : FutureWritten(i, n) /\ FutureStays(i, n)
    BY <1>2
  <2>2. futures' \in Seq(Contract) /\ FuturesFollow
    BY <1>1, <2>1, FuturesChanged
  <2>3. futures' = [futures EXCEPT ![i] = n] /\ n \in SoundContracts /\ margins' \in Margins
    BY <2>1 DEF FutureWritten, FutureStays, SoundContracts
  <2>4. \A j \in DOMAIN futures' : futures'[j] \in SoundContracts
    BY <1>1, <1>g, <2>3, EachWritten
  <2>5. ASSUME NEW q \in Party PROVE traders'[q].margin >= Worth(futures', HeldBook(q))
    <3> DEFINE H == HeldBook(q)
               a == traders[q].margin
               b == traders'[q].margin
               c == Worth(futures, H)
    <3>1. H \in [Contract -> Int] /\ H[n] = HeldFor(n, q) /\ H[futures[i]] = HeldFor(futures[i], q)
      BY <1>1, HeldType DEF HeldBook
    <3>2. traders' \in [Party -> Trader] /\ b - a >= H[n] - H[futures[i]] /\ a >= c
      BY <1>1, <2>1, <3>1 DEF FutureStays, Covers, CoveredBy
    <3>3. a \in Int /\ b \in Int
      BY <1>1, <3>2, TraderMargin
    <3> HIDE DEF H, a, b
    <3>4. c \in Int /\ Worth(futures', H) = c + H[n] - H[futures[i]]
      BY <1>1, <2>3, <3>1, WorthType, WorthUpdated
    <3>5. H[n] \in Int /\ H[futures[i]] \in Int
      BY <1>1, <3>1
    <3> HIDE DEF c
    <3>6. b >= Worth(futures', H)
      BY <3>2, <3>3, <3>4, <3>5
    <3> QED BY <3>6 DEF H, b
  <2>6. traders' \in [Party -> Trader]
    BY <2>1 DEF FutureStays, Covers
  <2> QED BY <2>2, <2>3, <2>4, <2>5, <2>6, FuturesLater DEF CoveredBy
<1>3. CASE \E n \in Contract : FutureOpened(n) /\ FutureStarts(n)
  <2>1. PICK n \in Contract : FutureOpened(n) /\ FutureStarts(n)
    BY <1>3
  <2>2. futures' \in Seq(Contract) /\ FuturesFollow
    BY <1>1, <2>1, FuturesChanged
  <2>3. futures' = Append(futures, n) /\ n \in SoundContracts /\ margins' \in Margins
    BY <2>1 DEF FutureOpened, FutureStarts, SoundContracts
  <2>4. \A j \in DOMAIN futures' : futures'[j] \in SoundContracts
    BY <1>1, <1>g, <2>3, EachExtended
  <2>5. ASSUME NEW q \in Party PROVE traders'[q].margin >= Worth(futures', HeldBook(q))
    <3> DEFINE H == HeldBook(q)
               a == traders[q].margin
               b == traders'[q].margin
               c == Worth(futures, H)
    <3>1. H \in [Contract -> Int] /\ H[n] = HeldFor(n, q)
      BY HeldType DEF HeldBook
    <3>2. traders' \in [Party -> Trader] /\ b - a >= H[n] /\ a >= c
      BY <1>1, <2>1, <3>1 DEF FutureStarts, CoveredBy
    <3>3. a \in Int /\ b \in Int
      BY <1>1, <3>2, TraderMargin
    <3> HIDE DEF H, a, b
    <3>4. c \in Int /\ Worth(futures', H) = c + H[n] /\ H[n] \in Int
      BY <1>1, <2>3, <3>1, WorthType, WorthAppended
    <3> HIDE DEF c
    <3>6. b >= Worth(futures', H)
      BY <3>2, <3>3, <3>4
    <3> QED BY <3>6 DEF H, b
  <2>6. traders' \in [Party -> Trader]
    BY <2>1 DEF FutureStarts
  <2> QED BY <2>2, <2>3, <2>4, <2>5, <2>6, FuturesLater DEF CoveredBy
<1>4. CASE margins' \in Margins /\ UNCHANGED <<wallet, futures, traders>>
  <2>1. FuturesInv'
    BY <1>1, <1>4, FuturesLater
  <2>2. ASSUME NEW t \in Token
        PROVE  /\ FuturesEscrow(t) \in Int /\ FuturesEscrow(t)' = FuturesEscrow(t)
               /\ wallet'[t][Jar] = wallet[t][Jar] /\ wallet[t][Jar] \in Int
    <3>1. FuturesEscrow(t) \in Int
      BY <1>1, FuturesWorth, FutureBookType, WorthType
    <3>2. FuturesEscrow(t)' = FuturesEscrow(t)
      BY <1>1, <1>4, FuturesWorth, FuturesWorthNext
    <3> QED BY <1>4, <3>1, <3>2, JarsAccount
  <2>3. FuturesFollow
    <3>1. ASSUME NEW t \in Token
          PROVE  wallet'[t][Jar] = wallet[t][Jar] + FuturesEscrow(t)' - FuturesEscrow(t)
      BY <2>2
    <3> QED BY <1>4, <2>2, <3>1 DEF FuturesFollow
  <2> QED BY <2>1, <2>3
<1> QED BY <1>2, <1>3, <1>4, FuturesCalls, Zenon

LEMMA SettlementsCovered ==
  ASSUME FuturesInv
  PROVE  SettledWithinMargins
<1> SUFFICES ASSUME NEW i \in DOMAIN futures, NEW price \in Prices
             PROVE  LET f == futures[i]
                        x == Exchanged(f, Gain(f, price))
                    IN  f.margin["Long"] + x >= 0 /\ f.margin["Short"] - x >= 0
  BY DEF SettledWithinMargins
<1>1. futures[i] \in Contract /\ price \in Nat
  BY FuturesAssumption DEF FuturesInv
<1>2. Gain(futures[i], price) \in Int
  BY <1>1, GainType
<1> QED BY <1>1, <1>2, ExchangedType

-----------------------------------------------------------------------------
(* Prediction markets *)

\* What the jar holds of bets follows what is paid.
BetBook(t) == [m \in PredMarket |-> BetsHeld(m, t)]
BetsFollow ==
  /\ wallet' \in Wallets
  /\ \A t \in Token : /\ MarketEscrow(t) \in Int /\ MarketEscrow(t)' \in Int
                      /\ wallet'[t][Jar] = wallet[t][Jar] + MarketEscrow(t)' - MarketEscrow(t)
BetPaid(m, n) ==
  \A t \in Token : wallet'[t][Jar] = wallet[t][Jar] + BetsHeld(n, t) - BetsHeld(m, t)
BetWritten(i, n) ==
  /\ markets' = [markets EXCEPT ![i] = n]
  /\ wallet' \in Wallets /\ n \in PredMarket /\ BetPaid(markets[i], n)
BetOpened(n) ==
  /\ markets' = Append(markets, n)
  /\ wallet' \in Wallets /\ n \in PredMarket
  /\ \A t \in Token : wallet'[t][Jar] = wallet[t][Jar] + BetsHeld(n, t)

LEMMA BetFields ==
  ASSUME NEW m \in PredMarket
  PROVE  /\ m.token \in Token /\ m.paid \in Int /\ m.pool \in [Outcome -> Nat]
         /\ m.pool["Yes"] \in Nat /\ m.pool["No"] \in Nat /\ PoolOf(m) \in Nat
BY DEF PredMarket, Outcome, PoolOf
LEMMA BetBookType ==
  ASSUME NEW t \in Token
  PROVE  BetBook(t) \in [PredMarket -> Int]
<1>1. ASSUME NEW m \in PredMarket PROVE BetsHeld(m, t) \in Int
  BY BetFields DEF BetsHeld
<1> QED BY <1>1 DEF BetBook
LEMMA BetsWorth ==
  ASSUME markets \in Seq(PredMarket), NEW t \in Token
  PROVE  MarketEscrow(t) = Worth(markets, BetBook(t))
<1>1. \A i \in DOMAIN markets : BetBook(t)[markets[i]] = BetsHeld(markets[i], t)
  BY DEF BetBook
<1>2. [i \in DOMAIN markets |-> BetsHeld(markets[i], t)] = [i \in DOMAIN markets |-> BetBook(t)[markets[i]]]
  BY <1>1
<1> QED BY <1>2 DEF MarketEscrow, Worth
LEMMA BetsWorthNext ==
  ASSUME markets' \in Seq(PredMarket), NEW t \in Token
  PROVE  MarketEscrow(t)' = Worth(markets', BetBook(t))
<1>1. \A i \in DOMAIN markets' : BetBook(t)[markets'[i]] = BetsHeld(markets'[i], t)
  BY DEF BetBook
<1>2. [i \in DOMAIN markets' |-> BetsHeld(markets'[i], t)]
        = [i \in DOMAIN markets' |-> BetBook(t)[markets'[i]]]
  BY <1>1
<1> QED BY <1>2 DEF MarketEscrow, BetsHeld, PoolOf, Worth

LEMMA BetsChanged ==
  ASSUME markets \in Seq(PredMarket), wallet \in Wallets, NEW n \in PredMarket, NEW i,
         (i \in DOMAIN markets /\ BetWritten(i, n)) \/ BetOpened(n)
  PROVE  markets' \in Seq(PredMarket) /\ BetsFollow
<1>1. markets' \in Seq(PredMarket)
  BY SeqUpdated, SeqAppended DEF BetWritten, BetOpened
<1>2. ASSUME NEW t \in Token
      PROVE  /\ MarketEscrow(t) \in Int /\ MarketEscrow(t)' \in Int
             /\ wallet'[t][Jar] = wallet[t][Jar] + MarketEscrow(t)' - MarketEscrow(t)
  <2> DEFINE H == BetBook(t)
  <2>1. MarketEscrow(t) = Worth(markets, H) /\ MarketEscrow(t)' = Worth(markets', H)
    BY <1>1, BetsWorth, BetsWorthNext
  <2>2. /\ H \in [PredMarket -> Int] /\ H[n] = BetsHeld(n, t)
        /\ \A j \in DOMAIN markets : H[markets[j]] = BetsHeld(markets[j], t)
    BY BetBookType DEF BetBook
  <2>3. wallet[t][Jar] \in Int
    BY JarsAccount
  <2> HIDE DEF H
  <2>4. Earns(wallet[t][Jar], wallet'[t][Jar], markets, markets', H)
    <3>1. CASE i \in DOMAIN markets /\ BetWritten(i, n)
      <4>1. /\ i \in DOMAIN markets /\ markets' = [markets EXCEPT ![i] = n]
            /\ wallet'[t][Jar] = wallet[t][Jar] + H[n] - H[markets[i]]
        BY <2>2, <3>1 DEF BetWritten, BetPaid
      <4> QED BY <2>2, <2>3, <4>1, ListWritten
    <3>2. CASE BetOpened(n)
      <4>1. markets' = Append(markets, n) /\ wallet'[t][Jar] = wallet[t][Jar] + H[n]
        BY <2>2, <3>2 DEF BetOpened
      <4> QED BY <2>2, <2>3, <4>1, ListExtended
    <3> QED BY <3>1, <3>2
  <2> QED BY <2>1, <2>4 DEF Earns
<1>3. wallet' \in Wallets
  BY DEF BetWritten, BetOpened
<1> QED BY <1>1, <1>2, <1>3 DEF BetsFollow

\* Markets with another pool, status, outcome or what was paid of it; stakes.
Outcomes == Outcome \cup {None}
Pooled(m, o, x) == [m EXCEPT !.pool[o] = x]
Statused(m, status) == [m EXCEPT !.status = status]
Decided(m, status, o) == [m EXCEPT !.status = status, !.winning = o]
Disbursed(m, x) == [m EXCEPT !.paid = x]
IsMarket(n, m, pool, status, winning, paid) ==
  /\ n \in PredMarket /\ n.token = m.token /\ n.fee = m.fee /\ n.pool = pool
  /\ n.status = status /\ n.winning = winning /\ n.paid = paid
LEMMA MarketPooled ==
  ASSUME NEW m \in PredMarket, NEW o \in Outcome, NEW x \in Nat
  PROVE  IsMarket(Pooled(m, o, x), m, [m.pool EXCEPT ![o] = x], m.status, m.winning, m.paid)
BY DEF PredMarket, Pooled, IsMarket
LEMMA MarketStatused ==
  ASSUME NEW m \in PredMarket, NEW s \in {"Open", "Closed", "Resolved", "Cancelled"}
  PROVE  IsMarket(Statused(m, s), m, m.pool, s, m.winning, m.paid)
BY DEF PredMarket, Statused, IsMarket
LEMMA MarketDecided ==
  ASSUME NEW m \in PredMarket, NEW s \in {"Open", "Closed", "Resolved", "Cancelled"}, NEW o \in Outcomes
  PROVE  IsMarket(Decided(m, s, o), m, m.pool, s, o, m.paid)
BY DEF PredMarket, Decided, IsMarket, Outcomes
LEMMA MarketDisbursed ==
  ASSUME NEW m \in PredMarket, NEW x \in Int
  PROVE  IsMarket(Disbursed(m, x), m, m.pool, m.status, m.winning, x)
BY DEF PredMarket, Disbursed, IsMarket
AddStake(r, o, x) == [r EXCEPT !.stake[o] = x]
Settle(r) == [r EXCEPT !.settled = TRUE]
IsStake(n, stake, settled) == n \in Stake /\ n.stake = stake /\ n.settled = settled
LEMMA StakeAdded ==
  ASSUME NEW r \in Stake, NEW o \in Outcome, NEW x \in Nat
  PROVE  IsStake(AddStake(r, o, x), [r.stake EXCEPT ![o] = x], r.settled)
BY DEF Stake, AddStake, IsStake
LEMMA StakeSettled ==
  ASSUME NEW r \in Stake
  PROVE  IsStake(Settle(r), r.stake, TRUE)
BY DEF Stake, Settle, IsStake
LEMMA StakeFields ==
  ASSUME NEW s \in [Party -> Stake], NEW p \in Party
  PROVE  s[p].stake \in [Outcome -> Nat] /\ s[p].settled \in BOOLEAN /\ s[p] \in Stake
BY DEF Stake

-----------------------------------------------------------------------------
\* Stakes on an outcome, and what those who claimed were paid.
On(s, o) == [p \in Party |-> s[p].stake[o]]
Paying(m, s) == [p \in Party |-> IF s[p].settled THEN Winnings(m, s[p]) ELSE 0]
PoolsMatch(m, s) == \A o \in Outcome : m.pool[o] = SumFunction(On(s, o))
Nobody(s) == \A p \in Party : ~s[p].settled
Pending(m) == m.status \in {"Open", "Closed"}
LEMMA SoundParts ==
  ASSUME NEW m, NEW s
  PROVE  MarketSound(m, s) <=> /\ PoolsMatch(m, s) /\ m.paid = SumFunction(Paying(m, s))
                               /\ (Pending(m) => Nobody(s))
BY DEF MarketSound, PoolsMatch, On, Paying, Nobody, Pending
LEMMA OnType ==
  ASSUME NEW s \in [Party -> Stake], NEW o \in Outcome
  PROVE  On(s, o) \in [Party -> Nat] /\ On(s, o) \in [Party -> Int] /\ IsFiniteSet(Party)
<1>1. ASSUME NEW p \in Party PROVE s[p].stake[o] \in Nat
  BY StakeFields
<1> QED BY <1>1, LedgerAssumption DEF On
LEMMA NobodyPaid ==
  ASSUME NEW m, NEW s, Nobody(s)
  PROVE  SumFunction(Paying(m, s)) = 0
<1> DEFINE f == Paying(m, s)
<1>1. f \in [Party -> Int] /\ \A p \in Party : f[p] = 0
  BY DEF Paying, Nobody
<1> HIDE DEF f
<1>2. SumFunction(f) = 0
  BY <1>1, LedgerAssumption, SumZero
<1> QED BY <1>2 DEF f
\* A market without claims is sound as long as its pools are its stakes.
LEMMA SoundUnclaimed ==
  ASSUME NEW m, NEW s, PoolsMatch(m, s), Nobody(s), m.paid = 0
  PROVE  MarketSound(m, s)
BY SoundParts, NobodyPaid
LEMMA UnclaimedPaid ==
  ASSUME NEW m, NEW s, MarketSound(m, s), Pending(m)
  PROVE  PoolsMatch(m, s) /\ Nobody(s) /\ m.paid = 0
BY SoundParts, NobodyPaid

LEMMA TimesLess ==
  ASSUME NEW a \in Nat, NEW g \in Nat, NEW c \in Nat
  PROVE  a * (g - c) = a * g - a * c /\ a * c \in Nat /\ a * g \in Int
OBVIOUS
\* Gross and net, in terms of the stake x on the winning outcome.
LEMMA GrossBounded ==
  ASSUME NEW x \in Nat, NEW all \in Nat, NEW pool \in Nat \ {0}, NEW fee \in Nat,
         NEW g, g = (x * all) \div pool, NEW net, net = g - (g * fee) \div Bps
  PROVE  net \in Int /\ pool * net <= all * x
<1> DEFINE y == x * all
           z == g * fee
           c == z \div Bps
<1>1. y \in Nat /\ y = all * x
  BY Product
<1>2. g = y \div pool
  OBVIOUS
<1> HIDE DEF y
<1>3. g \in Nat /\ pool * g <= y
  BY <1>1, <1>2, Portion
<1>4. z \in Nat
  BY <1>3, Product
<1> HIDE DEF z
<1>5. c \in Nat
  BY <1>4, LedgerAssumption, Portion
<1>6. net = g - c
  BY DEF c, z
<1> HIDE DEF c
<1>7. pool * net = pool * g - pool * c /\ pool * c \in Nat /\ pool * g \in Int
  <2>1. pool \in Nat /\ g \in Nat
    BY <1>3
  <2>2. pool * (g - c) = pool * g - pool * c /\ pool * c \in Nat /\ pool * g \in Int
    BY ONLY <1>5, <2>1, TimesLess
  <2> QED BY <1>6, <2>2
<1>8. net \in Int
  BY <1>3, <1>5, <1>6
<1> QED BY <1>1, <1>3, <1>7, <1>8
\* What a claim is worth, by how the market ended.
LEMMA WinningsOf ==
  ASSUME NEW m \in PredMarket, NEW s \in [Party -> Stake], PoolsMatch(m, s), NEW p \in Party
  PROVE  /\ Winnings(m, s[p]) \in Int
         /\ m.status = "Cancelled" => Winnings(m, s[p]) = On(s, "Yes")[p] + On(s, "No")[p]
         /\ m.status # "Cancelled" /\ m.winning = None => Winnings(m, s[p]) = 0
         /\ m.status # "Cancelled" /\ m.winning # None =>
              /\ m.winning \in Outcome
              /\ m.pool[m.winning] * Winnings(m, s[p]) <= PoolOf(m) * On(s, m.winning)[p]
<1> DEFINE r == s[p]
           w == m.winning
<1>1. r.stake \in [Outcome -> Nat] /\ "Yes" \in Outcome /\ "No" \in Outcome
  BY StakeFields DEF Outcome
<1>2. /\ m.pool \in [Outcome -> Nat] /\ w \in Outcome \cup {None} /\ m.fee \in Nat /\ PoolOf(m) \in Nat
  <2>1. m.pool \in [Outcome -> Nat] /\ w \in Outcome \cup {None} /\ m.fee \in Nat
    BY DEF PredMarket
  <2>2. m.pool["Yes"] \in Nat /\ m.pool["No"] \in Nat
    BY <1>1, <2>1
  <2> QED BY <2>1, <2>2 DEF PoolOf
<1>3. CASE m.status = "Cancelled"
  <2>1. r.stake["Yes"] \in Nat /\ r.stake["No"] \in Nat
    BY <1>1
  <2>2. Winnings(m, r) = r.stake["Yes"] + r.stake["No"]
    BY <1>3 DEF Winnings, Staked
  <2>3. On(s, "Yes")[p] = r.stake["Yes"] /\ On(s, "No")[p] = r.stake["No"]
    BY DEF On
  <2> QED BY <1>3, <2>1, <2>2, <2>3
<1>4. CASE m.status # "Cancelled" /\ w = None
  BY <1>4 DEF Winnings, calculate_payout
<1>5. CASE m.status # "Cancelled" /\ w # None
  <2>1. w \in Outcome /\ r.stake[w] \in Nat /\ m.pool[w] \in Nat
    BY <1>1, <1>2, <1>5
  <2>2. On(s, w)[p] = r.stake[w]
    BY DEF On
  <2>3. CASE r.stake[w] = 0
    <3>1. Winnings(m, r) = 0
      BY <1>5, <2>3 DEF Winnings, calculate_payout
    <3>2. m.pool[w] * 0 <= PoolOf(m) * 0
      BY <1>2, <2>1
    <3> QED BY <1>5, <2>1, <2>2, <2>3, <3>1, <3>2
  <2>4. CASE r.stake[w] # 0
    <3>1. r.stake[w] <= m.pool[w]
      <4>1. On(s, w)[p] <= SumFunction(On(s, w))
        <5> DEFINE f == On(s, w)
        <5>1. f \in [Party -> Nat] /\ IsFiniteSet(Party)
          BY <2>1, OnType
        <5> HIDE DEF f
        <5>2. f[p] <= SumFunction(f)
          BY <5>1, SumBoundsSummand
        <5> QED BY <5>2 DEF f
      <4> QED BY <2>1, <2>2, <4>1 DEF PoolsMatch
    <3> DEFINE x == r.stake[w]
               all == PoolOf(m)
               pool == m.pool[w]
               g == (x * all) \div pool
               net == g - (g * m.fee) \div Bps
    <3>2. Winnings(m, r) = net
      BY <1>5, <2>4 DEF Winnings, calculate_payout
    <3>3. x \in Nat /\ all \in Nat /\ pool \in Nat \ {0} /\ m.fee \in Nat
      BY <1>2, <2>1, <2>4, <3>1
    <3> HIDE DEF x, all, pool
    <3>4. net \in Int /\ pool * net <= all * x
      BY <3>3, GrossBounded
    <3> HIDE DEF net
    <3> QED BY <1>5, <2>1, <2>2, <3>2, <3>4 DEF x, all, pool
  <2> QED BY <2>3, <2>4
<1> QED BY <1>3, <1>4, <1>5

-----------------------------------------------------------------------------
\* Everyone's claims on a settled market together.
LEMMA AllClaims ==
  ASSUME NEW m \in PredMarket, NEW s \in [Party -> Stake], MarketSound(m, s)
  PROVE  m.paid + SumFunction([p \in Party |-> IF s[p].settled THEN 0 ELSE Winnings(m, s[p])])
           <= PoolOf(m)
<1> DEFINE all == [p \in Party |-> Winnings(m, s[p])]
           due == [p \in Party |-> IF s[p].settled THEN 0 ELSE Winnings(m, s[p])]
           got == Paying(m, s)
           yes == On(s, "Yes")
           no == On(s, "No")
<1>1. PoolsMatch(m, s) /\ m.paid = SumFunction(got)
  BY SoundParts
<1>2. all \in [Party -> Int] /\ due \in [Party -> Int] /\ got \in [Party -> Int]
  BY <1>1, WinningsOf DEF Paying
<1>3. \A p \in Party : all[p] = got[p] + due[p]
  BY <1>1, WinningsOf DEF Paying
<1>o. "Yes" \in Outcome /\ "No" \in Outcome
  BY DEF Outcome
<1>4. /\ yes \in [Party -> Int] /\ no \in [Party -> Int] /\ IsFiniteSet(Party)
      /\ m.pool["Yes"] = SumFunction(yes) /\ m.pool["No"] = SumFunction(no)
  BY <1>1, <1>o, OnType DEF PoolsMatch
<1>5. m.status = "Cancelled" => \A p \in Party : all[p] = yes[p] + no[p]
  BY <1>1, WinningsOf
<1>6. m.status # "Cancelled" /\ m.winning = None => \A p \in Party : all[p] = 0
  BY <1>1, WinningsOf
<1>7. m.status # "Cancelled" /\ m.winning # None =>
        /\ m.winning \in Outcome
        /\ \A p \in Party : m.pool[m.winning] * all[p] <= PoolOf(m) * On(s, m.winning)[p]
  <2>1. m.winning \in Outcome \cup {None}
    BY DEF PredMarket
  <2> QED BY <1>1, <2>1, WinningsOf
<1>8. PoolOf(m) \in Nat /\ m.pool["Yes"] \in Nat /\ m.pool["No"] \in Nat /\ m.pool \in [Outcome -> Nat]
  BY BetFields
<1>z. \A o \in Outcome : m.pool[o] = 0 => \A p \in Party : On(s, o)[p] = 0
  <2> SUFFICES ASSUME NEW o \in Outcome, m.pool[o] = 0, NEW p \in Party PROVE On(s, o)[p] = 0
    OBVIOUS
  <2> DEFINE f == On(s, o)
  <2>1. f \in [Party -> Nat] /\ SumFunction(f) = 0
    BY <1>1, OnType DEF PoolsMatch
  <2> HIDE DEF f
  <2>2. f[p] <= SumFunction(f) /\ f[p] \in Nat
    BY <1>4, <2>1, SumBoundsSummand
  <2>3. f[p] = 0
    BY <2>1, <2>2
  <2> QED BY <2>3 DEF f
<1>w. m.status # "Cancelled" /\ m.winning # None /\ m.pool[m.winning] = 0 => \A p \in Party : all[p] = 0
  <2> SUFFICES ASSUME m.status # "Cancelled", m.winning # None, m.pool[m.winning] = 0, NEW p \in Party
               PROVE  all[p] = 0
    OBVIOUS
  <2>1. m.winning \in Outcome /\ On(s, m.winning)[p] = 0
    BY <1>7, <1>z
  <2>2. s[p].stake[m.winning] = 0
    BY <2>1 DEF On
  <2> QED BY <2>2 DEF Winnings, calculate_payout
<1> HIDE DEF all, due, got, yes, no
<1>9. SumFunction(all) = SumFunction(got) + SumFunction(due)
  BY <1>2, <1>3, <1>4, SumPlus
<1>10. SumFunction(all) <= PoolOf(m)
  <2>1. CASE m.status = "Cancelled"
    <3>1. SumFunction(all) = SumFunction(yes) + SumFunction(no)
      BY <1>2, <1>4, <1>5, <2>1, SumPlus
    <3>2. PoolOf(m) = SumFunction(yes) + SumFunction(no)
      BY <1>4 DEF PoolOf
    <3> QED BY <1>8, <3>1, <3>2
  <2>2. CASE \A p \in Party : all[p] = 0
    <3>1. SumFunction(all) = 0
      BY <1>2, <1>4, <2>2, SumZero
    <3> QED BY <1>8, <3>1
  <2>3. CASE m.status # "Cancelled" /\ m.winning # None /\ m.pool[m.winning] # 0
    <3> DEFINE f == On(s, m.winning)
               c == PoolOf(m)
    <3>1. f \in [Party -> Int] /\ SumFunction(f) = m.pool[m.winning]
      BY <1>1, <1>7, <2>3, OnType DEF PoolsMatch
    <3>2. SumFunction(f) \in Nat \ {0} /\ \A p \in Party : SumFunction(f) * all[p] <= c * f[p]
      BY <1>7, <1>8, <2>3, <3>1
    <3>3. c \in Int
      BY <1>8
    <3> HIDE DEF f, c
    <3>4. SumFunction(all) <= c
      BY <1>2, <1>4, <3>1, <3>2, <3>3, SumOfShares
    <3> QED BY <3>4 DEF c
  <2> QED BY <1>6, <1>w, <2>1, <2>2, <2>3
<1>11. m.paid + SumFunction(due) <= PoolOf(m)
  BY <1>1, <1>9, <1>10
<1> QED BY <1>11 DEF due

-----------------------------------------------------------------------------
\* What a call leaves of a market's stakes and of the list of active markets.
BetStays(i, n, z) ==
  /\ betFee' \in Nat
  /\ stakes' = [stakes EXCEPT ![i] = z] /\ z \in [Party -> Stake] /\ MarketSound(n, z)
  /\ \/ (Pending(n) <=> Pending(markets[i])) /\ activeMarkets' = activeMarkets
     \/ ~Pending(n) /\ activeMarkets' = activeMarkets \ {i}
BetStarts(n, z) ==
  /\ betFee' \in Nat
  /\ stakes' = Append(stakes, z) /\ z \in [Party -> Stake] /\ MarketSound(n, z)
  /\ Pending(n) /\ activeMarkets' = activeMarkets \cup {Len(markets) + 1}
IsBet(i, n, z) == n \in PredMarket /\ BetWritten(i, n) /\ BetStays(i, n, z)

LEMMA BetParts ==
  ASSUME PredictionInv, NEW i \in DOMAIN markets
  PROVE  /\ i \in DOMAIN stakes /\ markets[i] \in PredMarket /\ stakes[i] \in [Party -> Stake]
         /\ MarketSound(markets[i], stakes[i]) /\ betFee \in Nat /\ markets[i].token \in Token
<1>1. /\ markets \in Seq(PredMarket) /\ stakes \in Seq([Party -> Stake]) /\ Len(markets) = Len(stakes)
      /\ betFee \in Nat
  BY DEF PredictionInv
<1>2. i \in DOMAIN stakes
  BY <1>1
<1> QED BY <1>1, <1>2, BetFields DEF PredictionInv

LEMMA BetMoved ==
  ASSUME wallet \in Wallets, NEW m \in PredMarket, NEW n \in PredMarket, n.token = m.token, NEW x \in Int,
         Gets(wallet, wallet', m.token, x), PoolOf(n) - n.paid = PoolOf(m) - m.paid + x
  PROVE  BetPaid(m, n) /\ wallet' \in Wallets
<1> DEFINE a == PoolOf(m) - m.paid
           b == PoolOf(n) - n.paid
<1>1. a \in Int /\ b = a + x
  BY BetFields
<1>2. ASSUME NEW t \in Token
      PROVE  wallet'[t][Jar] = wallet[t][Jar] + BetsHeld(n, t) - BetsHeld(m, t)
  <2>1. wallet'[t][Jar] = wallet[t][Jar] + (IF t = m.token THEN x ELSE 0) /\ wallet[t][Jar] \in Int
    BY JarsAccount DEF Gets
  <2>2. /\ BetsHeld(n, t) = IF t = m.token THEN b ELSE 0
        /\ BetsHeld(m, t) = IF t = m.token THEN a ELSE 0
    BY DEF BetsHeld
  <2> HIDE DEF a, b
  <2> QED BY <1>1, <2>1, <2>2
<1> QED BY <1>2 DEF BetPaid, Gets

LEMMA BetPlaced ==
  ASSUME PredictionInv, wallet \in Wallets, NEW p \in Party, NEW i \in DOMAIN markets, NEW o \in Outcome,
         NEW x \in Nat, place_bet(p, i, o, x)
  PROVE  \E n, z : IsBet(i, n, z)
<1> DEFINE m == markets[i]
           s == stakes[i]
           y == m.pool[o] + x
           n == Pooled(m, o, y)
           k == s[p].stake[o] + x
           e == AddStake(s[p], o, k)
           z == [s EXCEPT ![p] = e]
<1>1. /\ m.status = "Open" /\ wallet' = Transfer(wallet, m.token, p, Jar, x)
      /\ markets' = [markets EXCEPT ![i] = n] /\ stakes' = [stakes EXCEPT ![i] = z]
      /\ betFee' = betFee /\ activeMarkets' = activeMarkets
  BY DEF place_bet, Pay, Pooled, AddStake
<1>2. m \in PredMarket /\ s \in [Party -> Stake] /\ MarketSound(m, s) /\ betFee \in Nat /\ m.token \in Token
  BY BetParts
<1>3. m.pool \in [Outcome -> Nat] /\ s[p] \in Stake /\ s[p].stake \in [Outcome -> Nat] /\ m.paid \in Int
  BY <1>2, BetFields, StakeFields
<1>4. y \in Nat /\ k \in Nat
  BY <1>3
<1>5. IsMarket(n, m, [m.pool EXCEPT ![o] = y], m.status, m.winning, m.paid)
  <2> HIDE DEF m, y
  <2> QED BY <1>2, <1>4, MarketPooled
<1>6. IsStake(e, [s[p].stake EXCEPT ![o] = k], s[p].settled)
  <2> HIDE DEF k, s
  <2> QED BY <1>3, <1>4, StakeAdded
<1> HIDE DEF n, e, s, m
<1>7. z \in [Party -> Stake] /\ \A q \in Party : z[q] = IF q = p THEN e ELSE s[q]
  BY <1>2, <1>6 DEF IsStake
<1> HIDE DEF z
<1>8. PoolsMatch(m, s) /\ Nobody(s) /\ m.paid = 0
  BY <1>1, <1>2, UnclaimedPaid DEF Pending
<1>9. Nobody(z)
  <2>1. ASSUME NEW q \in Party PROVE ~z[q].settled
    BY <1>6, <1>7, <1>8 DEF Nobody, IsStake
  <2> QED BY <2>1 DEF Nobody
<1>10. ASSUME NEW u \in Outcome PROVE n.pool[u] = SumFunction(On(z, u))
  <2> DEFINE f == On(s, u)
             g == On(z, u)
  <2>1. f \in [Party -> Int] /\ g \in [Party -> Int] /\ IsFiniteSet(Party) /\ m.pool[u] = SumFunction(f)
    BY <1>2, <1>7, <1>8, OnType DEF PoolsMatch
  <2>2. \A q \in Party \ {p} : g[q] = f[q]
    BY <1>7 DEF On
  <2>3. f[p] = s[p].stake[u] /\ g[p] = e.stake[u]
    BY <1>7 DEF On
  <2>4. g[p] = f[p] + (IF u = o THEN x ELSE 0) /\ n.pool[u] = m.pool[u] + (IF u = o THEN x ELSE 0)
    BY <1>3, <1>5, <1>6, <2>3 DEF IsMarket, IsStake
  <2> HIDE DEF f, g
  <2>5. SumFunction(g) = SumFunction(f) + g[p] - f[p] /\ SumFunction(f) \in Int
    BY <2>1, <2>2, SumUpdate, SumType
  <2>6. f[p] \in Int
    BY <2>1
  <2>7. n.pool[u] = SumFunction(g)
    BY <2>1, <2>4, <2>5, <2>6
  <2> QED BY <2>7 DEF g
<1>11. MarketSound(n, z)
  <2>1. PoolsMatch(n, z)
    BY <1>10 DEF PoolsMatch
  <2>2. n.paid = 0
    BY <1>5, <1>8 DEF IsMarket
  <2> QED BY <1>9, <2>1, <2>2, SoundUnclaimed
<1>12. n \in PredMarket /\ n.token = m.token /\ n.paid = m.paid /\ n.status = m.status
  BY <1>5 DEF IsMarket
<1>13. PoolOf(n) - n.paid = PoolOf(m) - m.paid + x
  <2> DEFINE a == m.pool["Yes"]
             b == m.pool["No"]
             c == n.pool["Yes"]
             d == n.pool["No"]
  <2>1. a \in Nat /\ b \in Nat /\ c + d = a + b + x
    <3>1. a \in Nat /\ b \in Nat
      BY <1>2, BetFields
    <3>2. (o = "Yes" /\ c = a + x /\ d = b) \/ (o = "No" /\ c = a /\ d = b + x)
      BY <1>3, <1>5 DEF IsMarket, Outcome
    <3> HIDE DEF a, b, c, d
    <3> QED BY <3>1, <3>2
  <2>2. PoolOf(n) = c + d /\ PoolOf(m) = a + b
    BY DEF PoolOf
  <2> HIDE DEF a, b, c, d
  <2> QED BY <1>8, <1>12, <2>1, <2>2
<1>14. Gets(wallet, wallet', m.token, x)
  BY <1>1, <1>2, PaidIn
<1>15. BetPaid(m, n) /\ wallet' \in Wallets
  BY <1>2, <1>12, <1>13, <1>14, BetMoved
<1>16. BetWritten(i, n)
  BY <1>1, <1>12, <1>15 DEF BetWritten, m
<1>17. BetStays(i, n, z)
  <2>1. Pending(n) <=> Pending(markets[i])
    BY <1>12 DEF Pending, m
  <2> QED BY <1>1, <1>2, <1>7, <1>11, <2>1 DEF BetStays
<1> QED BY <1>12, <1>16, <1>17 DEF IsBet

\* A market not yet settled goes to another status, and outcome.
LEMMA BetRestated ==
  ASSUME PredictionInv, wallet \in Wallets, NEW i \in DOMAIN markets, NEW n, NEW status, NEW winning,
         Pending(markets[i]),
         IsMarket(n, markets[i], markets[i].pool, status, winning, markets[i].paid),
         markets' = [markets EXCEPT ![i] = n], wallet' = wallet, betFee' = betFee, stakes' = stakes,
         \/ Pending(n) /\ activeMarkets' = activeMarkets
         \/ ~Pending(n) /\ activeMarkets' = activeMarkets \ {i}
  PROVE  \E k, z : IsBet(i, k, z)
<1> DEFINE m == markets[i]
           s == stakes[i]
<1>2. m \in PredMarket /\ s \in [Party -> Stake] /\ MarketSound(m, s) /\ betFee \in Nat /\ m.token \in Token
  BY BetParts
<1>3. n \in PredMarket /\ n.token = m.token /\ n.pool = m.pool /\ n.paid = m.paid
  BY DEF IsMarket
<1>4. stakes' = [stakes EXCEPT ![i] = s]
  <2>1. stakes \in Seq([Party -> Stake]) /\ i \in DOMAIN stakes
    BY BetParts DEF PredictionInv
  <2> QED BY <2>1
<1>5. PoolsMatch(m, s) /\ Nobody(s) /\ m.paid = 0
  BY <1>2, UnclaimedPaid
<1>6. MarketSound(n, s)
  <2>1. PoolsMatch(n, s)
    BY <1>3, <1>5 DEF PoolsMatch
  <2> QED BY <1>3, <1>5, <2>1, SoundUnclaimed
<1>7. Gets(wallet, wallet', m.token, 0)
  BY <1>2, NothingPaid
<1>8. PoolOf(n) - n.paid = PoolOf(m) - m.paid + 0
  <2>1. PoolOf(n) = PoolOf(m) /\ PoolOf(m) \in Nat
    BY <1>2, <1>3, BetFields DEF PoolOf
  <2> QED BY <1>3, <1>5, <2>1
<1>9. BetPaid(m, n) /\ wallet' \in Wallets
  BY <1>2, <1>3, <1>7, <1>8, BetMoved
<1>10. BetWritten(i, n)
  BY <1>3, <1>9 DEF BetWritten
<1>11. BetStays(i, n, s)
  BY <1>2, <1>4, <1>6 DEF BetStays
<1> QED BY <1>3, <1>10, <1>11 DEF IsBet

LEMMA BetClosed ==
  ASSUME PredictionInv, wallet \in Wallets, NEW p, NEW i \in DOMAIN markets, close_pred_market(p, i)
  PROVE  \E n, z : IsBet(i, n, z)
<1> DEFINE n == Statused(markets[i], "Closed")
<1>1. /\ Pending(markets[i]) /\ markets' = [markets EXCEPT ![i] = n]
      /\ wallet' = wallet /\ betFee' = betFee /\ stakes' = stakes /\ activeMarkets' = activeMarkets
  BY DEF close_pred_market, Statused, Pending
<1>2. markets[i] \in PredMarket
  BY BetParts
<1>3. IsMarket(n, markets[i], markets[i].pool, "Closed", markets[i].winning, markets[i].paid)
  BY <1>2, MarketStatused
<1> HIDE DEF n
<1>4. Pending(n)
  BY <1>3 DEF IsMarket, Pending
<1> QED BY <1>1, <1>3, <1>4, BetRestated
LEMMA BetCancelled ==
  ASSUME PredictionInv, wallet \in Wallets, NEW p, NEW i \in DOMAIN markets, cancel_pred_market(p, i)
  PROVE  \E n, z : IsBet(i, n, z)
<1> DEFINE n == Statused(markets[i], "Cancelled")
<1>1. /\ Pending(markets[i]) /\ markets' = [markets EXCEPT ![i] = n]
      /\ wallet' = wallet /\ betFee' = betFee /\ stakes' = stakes /\ activeMarkets' = activeMarkets \ {i}
  BY DEF cancel_pred_market, cancel_market, Statused, Pending, Unsettled
<1>2. markets[i] \in PredMarket
  BY BetParts
<1>3. IsMarket(n, markets[i], markets[i].pool, "Cancelled", markets[i].winning, markets[i].paid)
  BY <1>2, MarketStatused
<1> HIDE DEF n
<1>4. ~Pending(n)
  BY <1>3 DEF IsMarket, Pending
<1> QED BY <1>1, <1>3, <1>4, BetRestated
LEMMA BetResolved ==
  ASSUME PredictionInv, wallet \in Wallets, NEW p, NEW i \in DOMAIN markets, NEW o \in Outcome \cup {None},
         resolve_pred_market(p, i, o)
  PROVE  \E n, z : IsBet(i, n, z)
<1> DEFINE n == Decided(markets[i], "Resolved", o)
<1>2. markets[i] \in PredMarket /\ o \in Outcomes
  BY BetParts DEF Outcomes
<1>1. /\ Pending(markets[i]) /\ markets' = [markets EXCEPT ![i] = n]
      /\ wallet' = wallet /\ betFee' = betFee /\ stakes' = stakes /\ activeMarkets' = activeMarkets \ {i}
  BY DEF resolve_pred_market, resolve_market, Decided, Pending, Unsettled, PredictionInv
<1>3. IsMarket(n, markets[i], markets[i].pool, "Resolved", o, markets[i].paid)
  BY <1>2, MarketDecided
<1> HIDE DEF n
<1>4. ~Pending(n)
  BY <1>3 DEF IsMarket, Pending
<1> QED BY <1>1, <1>3, <1>4, BetRestated

LEMMA BetClaimed ==
  ASSUME PredictionInv, wallet \in Wallets, NEW p \in Party, NEW i \in DOMAIN markets,
         claim_winnings(p, i)
  PROVE  \E n, z : IsBet(i, n, z)
<1> DEFINE m == markets[i]
           s == stakes[i]
           x == Winnings(m, s[p])
           y == m.paid + x
           n == Disbursed(m, y)
           e == Settle(s[p])
           z == [s EXCEPT ![p] = e]
<1>1. /\ ~Pending(m) /\ ~s[p].settled /\ wallet' = Transfer(wallet, m.token, Jar, p, x)
      /\ markets' = [markets EXCEPT ![i] = n] /\ stakes' = [stakes EXCEPT ![i] = z]
      /\ betFee' = betFee /\ activeMarkets' = activeMarkets
  BY DEF claim_winnings, Unsettled, Pending, Pay, Disbursed, Settle
<1>2. m \in PredMarket /\ s \in [Party -> Stake] /\ MarketSound(m, s) /\ betFee \in Nat /\ m.token \in Token
  BY BetParts
<1>3. PoolsMatch(m, s) /\ m.paid = SumFunction(Paying(m, s))
  BY <1>2, SoundParts
<1> HIDE DEF m, s
<1>4. x \in Int /\ m.paid \in Int /\ PoolOf(m) \in Nat
  BY <1>2, <1>3, WinningsOf, BetFields
<1> HIDE DEF x
<1>5. IsMarket(n, m, m.pool, m.status, m.winning, y)
  BY <1>2, <1>4, MarketDisbursed
<1>6. IsStake(e, s[p].stake, TRUE)
  BY <1>2, StakeFields, StakeSettled
<1> HIDE DEF n, e
<1>7. z \in [Party -> Stake] /\ \A q \in Party : z[q] = IF q = p THEN e ELSE s[q]
  BY <1>2, <1>6 DEF IsStake
<1> HIDE DEF z
<1>8. n \in PredMarket /\ n.token = m.token /\ n.pool = m.pool /\ n.paid = m.paid + x /\ n.status = m.status
  BY <1>5 DEF IsMarket
<1>9. \A q \in Party : z[q].stake = s[q].stake
  BY <1>6, <1>7 DEF IsStake
<1>10. PoolsMatch(n, z)
  <2>1. \A o \in Outcome : On(z, o) = On(s, o)
    BY <1>9 DEF On
  <2> QED BY <1>3, <1>8, <2>1 DEF PoolsMatch
<1>11. \A q \in Party : Winnings(n, z[q]) = Winnings(m, s[q])
  <2>1. n.status = m.status /\ n.winning = m.winning /\ n.fee = m.fee /\ n.pool = m.pool
    BY <1>5 DEF IsMarket
  <2> QED BY <1>9, <2>1 DEF Winnings, calculate_payout, Staked, PoolOf
<1>12. n.paid = SumFunction(Paying(n, z))
  <2> DEFINE f == Paying(m, s)
             g == Paying(n, z)
  <2>1. f \in [Party -> Int] /\ g \in [Party -> Int]
    <3>1. \A q \in Party : Winnings(m, s[q]) \in Int /\ Winnings(n, z[q]) \in Int
      BY <1>2, <1>3, <1>11, WinningsOf
    <3> QED BY <3>1 DEF Paying
  <2>2. \A q \in Party \ {p} : g[q] = f[q]
    BY <1>7, <1>11 DEF Paying
  <2>3. f[p] = 0 /\ g[p] = x
    BY <1>1, <1>6, <1>7, <1>11 DEF Paying, IsStake, x
  <2>4. m.paid = SumFunction(f)
    BY <1>3
  <2> HIDE DEF f, g
  <2>5. SumFunction(g) = SumFunction(f) + g[p] - f[p]
    BY <2>1, <2>2, LedgerAssumption, SumUpdate
  <2>6. n.paid = SumFunction(g)
    BY <1>4, <1>8, <2>3, <2>4, <2>5
  <2> QED BY <2>6 DEF g
<1>13. MarketSound(n, z)
  BY <1>1, <1>8, <1>10, <1>12, SoundParts DEF Pending
<1>14. Gets(wallet, wallet', m.token, -x)
  BY <1>1, <1>2, <1>4, PaidOutOf
<1>15. PoolOf(n) - n.paid = PoolOf(m) - m.paid + (-x)
  <2>1. PoolOf(n) = PoolOf(m)
    BY <1>8 DEF PoolOf
  <2> QED BY <1>4, <1>8, <2>1
<1>16. BetPaid(m, n) /\ wallet' \in Wallets
  <2> DEFINE d == -x
  <2>1. d \in Int /\ Gets(wallet, wallet', m.token, d) /\ PoolOf(n) - n.paid = PoolOf(m) - m.paid + d
    BY <1>4, <1>14, <1>15
  <2> HIDE DEF d
  <2> QED BY <1>2, <1>8, <2>1, BetMoved
<1>17. BetWritten(i, n)
  BY <1>1, <1>8, <1>16 DEF BetWritten, m
<1>18. BetStays(i, n, z)
  <2>1. Pending(n) <=> Pending(markets[i])
    BY <1>8 DEF Pending, m
  <2> QED BY <1>1, <1>2, <1>7, <1>13, <2>1 DEF BetStays
<1> QED BY <1>8, <1>17, <1>18 DEF IsBet

LEMMA BetCreated ==
  ASSUME PredictionInv, wallet \in Wallets, now \in Int, NEW p \in Party, NEW t \in Token, NEW k \in Nat,
         create_market(p, t, k)
  PROVE  \E n \in PredMarket : \E z : BetOpened(n) /\ BetStarts(n, z)
<1> DEFINE pool == [o \in Outcome |-> 0]
           n == [resolver |-> p, token |-> t, closes_at |-> now + k, pool |-> pool, status |-> "Open",
                 winning |-> None, fee |-> betFee, paid |-> 0]
           e == [stake |-> pool, settled |-> FALSE]
           z == [q \in Party |-> e]
<1>1. /\ markets' = Append(markets, n) /\ stakes' = Append(stakes, z)
      /\ activeMarkets' = activeMarkets \cup {Len(markets) + 1} /\ wallet' = wallet /\ betFee' = betFee
  BY DEF create_market, PerParty
<1>2. betFee \in Nat
  BY DEF PredictionInv
<1>3. pool \in [Outcome -> Nat] /\ \A o \in Outcome : pool[o] = 0
  OBVIOUS
<1> HIDE DEF pool
<1>4. n \in PredMarket /\ n.pool = pool /\ n.paid = 0 /\ n.status = "Open" /\ n.token = t
  BY <1>2, <1>3 DEF PredMarket
<1>5. e \in Stake /\ e.stake = pool /\ e.settled = FALSE
  BY <1>3 DEF Stake
<1> HIDE DEF n, e
<1>6. z \in [Party -> Stake] /\ \A q \in Party : z[q] = e
  BY <1>5
<1> HIDE DEF z
<1>7. Nobody(z)
  BY <1>5, <1>6 DEF Nobody
<1>8. ASSUME NEW o \in Outcome PROVE n.pool[o] = SumFunction(On(z, o))
  <2> DEFINE f == On(z, o)
  <2>1. f \in [Party -> Int] /\ \A q \in Party : f[q] = 0
    BY <1>3, <1>5, <1>6 DEF On
  <2> HIDE DEF f
  <2>2. SumFunction(f) = 0
    BY <2>1, LedgerAssumption, SumZero
  <2> QED BY <1>3, <1>4, <2>2 DEF f
<1>9. MarketSound(n, z)
  BY <1>4, <1>7, <1>8, SoundUnclaimed DEF PoolsMatch
<1>10. ASSUME NEW u \in Token PROVE wallet'[u][Jar] = wallet[u][Jar] + BetsHeld(n, u)
  <2>1. BetsHeld(n, u) = 0
    <3>1. n.pool["Yes"] = 0 /\ n.pool["No"] = 0
      BY <1>3, <1>4 DEF Outcome
    <3> QED BY <1>4, <3>1 DEF BetsHeld, PoolOf
  <2>2. wallet'[u][Jar] = wallet[u][Jar] /\ wallet[u][Jar] \in Int
    BY <1>1, JarsAccount
  <2> QED BY <2>1, <2>2
<1>11. BetOpened(n)
  BY <1>1, <1>4, <1>10 DEF BetOpened
<1>12. BetStarts(n, z)
  BY <1>1, <1>2, <1>4, <1>6, <1>9 DEF BetStarts, Pending
<1> QED BY <1>4, <1>11, <1>12

LEMMA PredictionCalls ==
  ASSUME PredictionInv, wallet \in Wallets, now \in Int, PredictionNext
  PROVE  \/ \E i \in DOMAIN markets : \E n, z : IsBet(i, n, z)
         \/ \E n \in PredMarket : \E z : BetOpened(n) /\ BetStarts(n, z)
         \/ betFee' \in Nat /\ UNCHANGED <<wallet, markets, stakes, activeMarkets>>
<1>a. Amounts \subseteq Nat /\ BetFees \subseteq Nat /\ CloseTimes \subseteq Nat
  BY LedgerAssumption, PredictionAssumption
<1>1. CASE \E r \in BetFees : set_pred_market_fee(r)
  BY <1>a, <1>1 DEF set_pred_market_fee
<1>2. CASE \E p \in Party, t \in Token, n \in CloseTimes : create_pred_market(p, t, n)
  <2>1. PICK p \in Party, t \in Token, n \in CloseTimes : create_market(p, t, n)
    BY <1>2, Zenon DEF create_pred_market
  <2>2. n \in Nat
    BY <1>a
  <2> QED BY <2>1, <2>2, BetCreated
<1>3. ASSUME NEW p \in Party, NEW i \in DOMAIN markets,
             \/ \E o \in Outcome, x \in Amounts : place_pred_bet(p, i, o, x)
             \/ close_pred_market(p, i) \/ cancel_pred_market(p, i) \/ claim_pred_winnings(p, i)
             \/ \E o \in Outcome \cup {None} : resolve_pred_market(p, i, o)
      PROVE  \E n, z : IsBet(i, n, z)
  <2>1. CASE \E o \in Outcome, x \in Amounts : place_pred_bet(p, i, o, x)
    <3>1. PICK o \in Outcome, x \in Amounts : place_bet(p, i, o, x)
      BY <2>1, Zenon DEF place_pred_bet
    <3>2. x \in Nat
      BY <1>a
    <3> QED BY <3>1, <3>2, BetPlaced
  <2>2. CASE close_pred_market(p, i)
    BY <2>2, BetClosed
  <2>3. CASE cancel_pred_market(p, i)
    BY <2>3, BetCancelled
  <2>4. CASE claim_pred_winnings(p, i)
    <3>1. claim_winnings(p, i)
      BY <2>4, Zenon DEF claim_pred_winnings
    <3> QED BY <3>1, BetClaimed
  <2>5. CASE \E o \in Outcome \cup {None} : resolve_pred_market(p, i, o)
    BY <2>5, BetResolved
  <2> QED BY <1>3, <2>1, <2>2, <2>3, <2>4, <2>5, Zenon
<1> QED BY <1>1, <1>2, <1>3, Zenon DEF PredictionNext

LEMMA PredictionLater ==
  ASSUME betFee' \in Nat, markets' \in Seq(PredMarket), stakes' \in Seq([Party -> Stake]),
         Len(markets') = Len(stakes'), \A j \in DOMAIN markets' : MarketSound(markets'[j], stakes'[j]),
         activeMarkets' = {j \in DOMAIN markets' : Pending(markets'[j])}
  PROVE  PredictionInv'
<1>1. ActiveMarketsUnsettled'
  BY DEF ActiveMarketsUnsettled, Unsettled, Pending
<1>2. \A j \in DOMAIN markets' : MarketSound(markets[j], stakes[j])'
  BY DEF MarketSound, Winnings, calculate_payout, Staked, PoolOf
<1> QED BY <1>1, <1>2 DEF PredictionInv

LEMMA PredictionStep ==
  ASSUME PredictionInv, wallet \in Wallets, now \in Int, PredictionNext
  PROVE  PredictionInv' /\ BetsFollow
<1>1. /\ markets \in Seq(PredMarket) /\ stakes \in Seq([Party -> Stake]) /\ Len(markets) = Len(stakes)
      /\ betFee \in Nat /\ \A j \in DOMAIN markets : MarketSound(markets[j], stakes[j])
      /\ activeMarkets = {j \in DOMAIN markets : Pending(markets[j])}
  BY DEF PredictionInv, ActiveMarketsUnsettled, Unsettled, Pending
<1>d. DOMAIN markets = 1 .. Len(markets) /\ DOMAIN stakes = DOMAIN markets /\ Len(markets) \in Nat
  BY <1>1
<1>2. CASE \E i \in DOMAIN markets : \E n, z : IsBet(i, n, z)
  <2>0. PICK i \in DOMAIN markets : \E n, z : IsBet(i, n, z)
    BY <1>2
  <2>1. PICK n, z : IsBet(i, n, z)
    BY <2>0
  <2>2. n \in PredMarket /\ BetWritten(i, n) /\ BetStays(i, n, z)
    BY <2>1 DEF IsBet
  <2>3. markets' \in Seq(PredMarket) /\ BetsFollow
    BY <1>1, <2>2, BetsChanged
  <2>4. /\ DOMAIN markets' = DOMAIN markets /\ Len(markets') = Len(markets)
        /\ \A j \in DOMAIN markets : markets'[j] = IF j = i THEN n ELSE markets[j]
    BY <1>1, <2>2, SeqUpdated DEF BetWritten
  <2>5. /\ stakes' \in Seq([Party -> Stake]) /\ Len(stakes') = Len(stakes)
        /\ \A j \in DOMAIN markets : stakes'[j] = IF j = i THEN z ELSE stakes[j]
    <3>1. stakes' = [stakes EXCEPT ![i] = z] /\ z \in [Party -> Stake] /\ i \in DOMAIN stakes
      BY <1>d, <2>2 DEF BetStays
    <3> QED BY <1>1, <1>d, <3>1, SeqUpdated
  <2>6. ASSUME NEW j \in DOMAIN markets' PROVE MarketSound(markets'[j], stakes'[j])
    <3>1. CASE j = i
      BY <2>2, <2>4, <2>5, <3>1 DEF BetStays
    <3>2. CASE j # i
      BY <1>1, <2>4, <2>5, <3>2
    <3> QED BY <3>1, <3>2
  <2>7. activeMarkets' = {j \in DOMAIN markets' : Pending(markets'[j])}
    <3>1. /\ \/ (Pending(n) <=> Pending(markets[i])) /\ activeMarkets' = activeMarkets
             \/ ~Pending(n) /\ activeMarkets' = activeMarkets \ {i}
      BY <2>2 DEF BetStays
    <3> QED BY <1>1, <2>4, <3>1
  <2>8. betFee' \in Nat
    BY <2>2 DEF BetStays
  <2>9. Len(markets') = Len(stakes')
    BY <1>1, <2>4, <2>5
  <2> QED BY <2>3, <2>5, <2>6, <2>7, <2>8, <2>9, PredictionLater
<1>3. CASE \E n \in PredMarket : \E z : BetOpened(n) /\ BetStarts(n, z)
  <2>0. PICK n \in PredMarket : BetOpened(n) /\ \E z : BetStarts(n, z)
    BY <1>3
  <2>1. PICK z : BetOpened(n) /\ BetStarts(n, z)
    BY <2>0
  <2>3. markets' \in Seq(PredMarket) /\ BetsFollow
    BY <1>1, <2>1, BetsChanged
  <2> DEFINE k == Len(markets) + 1
  <2>4. /\ DOMAIN markets' = 1 .. k /\ Len(markets') = k /\ markets'[k] = n
        /\ \A j \in DOMAIN markets : markets'[j] = markets[j]
    BY <1>1, <2>1, SeqAppended DEF BetOpened
  <2>5. /\ stakes' \in Seq([Party -> Stake]) /\ Len(stakes') = k /\ stakes'[k] = z
        /\ \A j \in DOMAIN markets : stakes'[j] = stakes[j]
    <3>1. stakes' = Append(stakes, z) /\ z \in [Party -> Stake]
      BY <2>1 DEF BetStarts
    <3> QED BY <1>1, <1>d, <3>1, SeqAppended
  <2>d. \A j \in DOMAIN markets' : j = k \/ j \in DOMAIN markets
    BY <1>d, <2>4
  <2>6. ASSUME NEW j \in DOMAIN markets' PROVE MarketSound(markets'[j], stakes'[j])
    <3>1. CASE j = k
      BY <2>1, <2>4, <2>5, <3>1 DEF BetStarts
    <3>2. CASE j \in DOMAIN markets
      BY <1>1, <2>4, <2>5, <3>2
    <3> QED BY <2>d, <3>1, <3>2
  <2>7. activeMarkets' = {j \in DOMAIN markets' : Pending(markets'[j])}
    <3>1. Pending(n) /\ activeMarkets' = activeMarkets \cup {k}
      BY <2>1 DEF BetStarts
    <3>2. k \in DOMAIN markets' /\ \A j \in DOMAIN markets : j \in DOMAIN markets'
      BY <1>d, <2>4
    <3> HIDE DEF k
    <3> QED BY <1>1, <2>4, <2>d, <3>1, <3>2
  <2>8. betFee' \in Nat
    BY <2>1 DEF BetStarts
  <2>9. Len(markets') = Len(stakes')
    BY <2>4, <2>5
  <2> QED BY <2>3, <2>5, <2>6, <2>7, <2>8, <2>9, PredictionLater
<1>4. CASE betFee' \in Nat /\ UNCHANGED <<wallet, markets, stakes, activeMarkets>>
  <2>1. PredictionInv'
    BY <1>1, <1>4, PredictionLater
  <2>2. ASSUME NEW t \in Token
        PROVE  /\ MarketEscrow(t) \in Int /\ MarketEscrow(t)' = MarketEscrow(t)
               /\ wallet'[t][Jar] = wallet[t][Jar] /\ wallet[t][Jar] \in Int
    <3>1. MarketEscrow(t) \in Int
      BY <1>1, BetsWorth, BetBookType, WorthType
    <3>2. MarketEscrow(t)' = MarketEscrow(t)
      BY <1>1, <1>4, BetsWorth, BetsWorthNext
    <3> QED BY <1>4, <3>1, <3>2, JarsAccount
  <2>3. BetsFollow
    <3>1. ASSUME NEW t \in Token
          PROVE  wallet'[t][Jar] = wallet[t][Jar] + MarketEscrow(t)' - MarketEscrow(t)
      BY <2>2
    <3> QED BY <1>4, <2>2, <3>1 DEF BetsFollow
  <2> QED BY <2>1, <2>3
<1> QED BY <1>2, <1>3, <1>4, PredictionCalls, Zenon

LEMMA BetsBacked ==
  ASSUME PredictionInv
  PROVE  ClaimsCovered
<1> SUFFICES ASSUME NEW i \in DOMAIN markets
             PROVE  markets[i].paid
                      + SumFunction([p \in Party |-> IF stakes[i][p].settled THEN 0
                                       ELSE Winnings(markets[i], stakes[i][p])]) <= PoolOf(markets[i])
  BY DEF ClaimsCovered
<1>1. markets[i] \in PredMarket /\ stakes[i] \in [Party -> Stake] /\ MarketSound(markets[i], stakes[i])
  BY BetParts
<1> QED BY <1>1, AllClaims

-----------------------------------------------------------------------------
(* Index funds *)

\* What the jar holds for the funds follows what is paid.
FundBook(t) == [m \in IndexFund |-> FundHolds(m, t)]
FundsFollow ==
  /\ wallet' \in Wallets
  /\ \A t \in Token : /\ FundHoldings(t) \in Int /\ FundHoldings(t)' \in Int
                      /\ wallet'[t][Jar] = wallet[t][Jar] + FundHoldings(t)' - FundHoldings(t)
FundPaid(m, n) ==
  \A t \in Token : wallet'[t][Jar] = wallet[t][Jar] + FundHolds(n, t) - FundHolds(m, t)
FundWritten(i, n) ==
  /\ funds' = [funds EXCEPT ![i] = n]
  /\ wallet' \in Wallets /\ n \in IndexFund /\ FundPaid(funds[i], n)
FundOpened(n) ==
  /\ funds' = Append(funds, n)
  /\ wallet' \in Wallets /\ n \in IndexFund
  /\ \A t \in Token : wallet'[t][Jar] = wallet[t][Jar] + FundHolds(n, t)

LEMMA FundFields ==
  ASSUME NEW m \in IndexFund
  PROVE  m.token \in Token /\ m.value \in Nat /\ m.shares \in Nat /\ m.held \in [Party -> Nat]
BY DEF IndexFund
LEMMA FundBookType ==
  ASSUME NEW t \in Token
  PROVE  FundBook(t) \in [IndexFund -> Int]
<1>1. ASSUME NEW m \in IndexFund PROVE FundHolds(m, t) \in Int
  BY FundFields DEF FundHolds
<1> QED BY <1>1 DEF FundBook
LEMMA FundsWorth ==
  ASSUME funds \in Seq(IndexFund), NEW t \in Token
  PROVE  FundHoldings(t) = Worth(funds, FundBook(t))
<1>1. \A i \in DOMAIN funds : FundBook(t)[funds[i]] = FundHolds(funds[i], t)
  BY DEF FundBook
<1>2. [i \in DOMAIN funds |-> FundHolds(funds[i], t)] = [i \in DOMAIN funds |-> FundBook(t)[funds[i]]]
  BY <1>1
<1> QED BY <1>2 DEF FundHoldings, Worth
LEMMA FundsWorthNext ==
  ASSUME funds' \in Seq(IndexFund), NEW t \in Token
  PROVE  FundHoldings(t)' = Worth(funds', FundBook(t))
<1>1. \A i \in DOMAIN funds' : FundBook(t)[funds'[i]] = FundHolds(funds'[i], t)
  BY DEF FundBook
<1>2. [i \in DOMAIN funds' |-> FundHolds(funds'[i], t)]
        = [i \in DOMAIN funds' |-> FundBook(t)[funds'[i]]]
  BY <1>1
<1> QED BY <1>2 DEF FundHoldings, FundHolds, Worth

LEMMA FundsChanged ==
  ASSUME funds \in Seq(IndexFund), wallet \in Wallets, NEW n \in IndexFund, NEW i,
         (i \in DOMAIN funds /\ FundWritten(i, n)) \/ FundOpened(n)
  PROVE  funds' \in Seq(IndexFund) /\ FundsFollow
<1>1. funds' \in Seq(IndexFund)
  BY SeqUpdated, SeqAppended DEF FundWritten, FundOpened
<1>2. ASSUME NEW t \in Token
      PROVE  /\ FundHoldings(t) \in Int /\ FundHoldings(t)' \in Int
             /\ wallet'[t][Jar] = wallet[t][Jar] + FundHoldings(t)' - FundHoldings(t)
  <2> DEFINE H == FundBook(t)
  <2>1. FundHoldings(t) = Worth(funds, H) /\ FundHoldings(t)' = Worth(funds', H)
    BY <1>1, FundsWorth, FundsWorthNext
  <2>2. /\ H \in [IndexFund -> Int] /\ H[n] = FundHolds(n, t)
        /\ \A j \in DOMAIN funds : H[funds[j]] = FundHolds(funds[j], t)
    BY FundBookType DEF FundBook
  <2>3. wallet[t][Jar] \in Int
    BY JarsAccount
  <2> HIDE DEF H
  <2>4. Earns(wallet[t][Jar], wallet'[t][Jar], funds, funds', H)
    <3>1. CASE i \in DOMAIN funds /\ FundWritten(i, n)
      <4>1. /\ i \in DOMAIN funds /\ funds' = [funds EXCEPT ![i] = n]
            /\ wallet'[t][Jar] = wallet[t][Jar] + H[n] - H[funds[i]]
        BY <2>2, <3>1 DEF FundWritten, FundPaid
      <4> QED BY <2>2, <2>3, <4>1, ListWritten
    <3>2. CASE FundOpened(n)
      <4>1. funds' = Append(funds, n) /\ wallet'[t][Jar] = wallet[t][Jar] + H[n]
        BY <2>2, <3>2 DEF FundOpened
      <4> QED BY <2>2, <2>3, <4>1, ListExtended
    <3> QED BY <3>1, <3>2
  <2> QED BY <2>1, <2>4 DEF Earns
<1>3. wallet' \in Wallets
  BY DEF FundWritten, FundOpened
<1> QED BY <1>1, <1>2, <1>3 DEF FundsFollow

\* Funds with another basket, another allotment, or after a deposit or withdrawal.
Rebasketed(f, k) == [f EXCEPT !.basket = k]
Realloted(f, a) == [f EXCEPT !.alloc = a]
Refunded(f, a, value, shares, p, k) ==
  [f EXCEPT !.alloc = a, !.value = value, !.shares = shares, !.held[p] = k]
IsFund(n, f, value, shares, held) ==
  /\ n \in IndexFund /\ n.token = f.token /\ n.value = value /\ n.shares = shares /\ n.held = held
LEMMA FundRebasketed ==
  ASSUME NEW f \in IndexFund, NEW k \in Baskets
  PROVE  IsFund(Rebasketed(f, k), f, f.value, f.shares, f.held)
BY DEF IndexFund, Rebasketed, IsFund
LEMMA FundRealloted ==
  ASSUME NEW f \in IndexFund, NEW a \in [Party -> Int]
  PROVE  IsFund(Realloted(f, a), f, f.value, f.shares, f.held)
BY DEF IndexFund, Realloted, IsFund
LEMMA FundRefunded ==
  ASSUME NEW f \in IndexFund, NEW a \in [Party -> Int], NEW v \in Nat, NEW s \in Nat, NEW p \in Party,
         NEW k \in Nat
  PROVE  IsFund(Refunded(f, a, v, s, p, k), f, v, s, [f.held EXCEPT ![p] = k])
BY DEF IndexFund, Refunded, IsFund

FundSteady(f) == f.shares = SumFunction(f.held)
LEMMA AllottedType ==
  ASSUME NEW f \in IndexFund, NEW x \in Nat
  PROVE  \A c \in Party : Allotted(f, x)[c] \in Int
<1> SUFFICES ASSUME NEW c \in Party PROVE Allotted(f, x)[c] \in Int
  OBVIOUS
<1> DEFINE k == f.basket
<1>1. k \in Baskets
  BY DEF IndexFund
<1>2. Allotted(f, x)[c] = IF c \in DOMAIN k THEN (x * k[c]) \div Bps ELSE 0
  BY DEF Allotted
<1> HIDE DEF k
<1>3. CASE c \in DOMAIN k
  <2> DEFINE y == x * k[c]
  <2>1. k[c] \in Nat
    BY <1>1, <1>3, FundAssumption
  <2>2. y \in Nat
    BY <2>1, Product
  <2> HIDE DEF y
  <2>3. y \div Bps \in Nat
    BY <2>2, LedgerAssumption, Portion
  <2> QED BY <1>2, <1>3, <2>3 DEF y
<1> QED BY <1>2, <1>3
LEMMA NavType ==
  ASSUME NEW f \in IndexFund
  PROVE  nav_per_share(f) \in Nat /\ (f.shares # 0 => f.shares * nav_per_share(f) <= f.value * SharePrice)
<1> DEFINE v == f.value
           s == f.shares
           y == v * SharePrice
<1>1. v \in Nat /\ s \in Nat /\ SharePrice \in Nat
  BY FundAssumption DEF IndexFund
<1>2. nav_per_share(f) = IF s = 0 THEN SharePrice ELSE y \div s
  BY DEF nav_per_share
<1>3. y \in Nat
  BY <1>1, Product
<1> HIDE DEF y, v, s
<1>4. s # 0 => y \div s \in Nat /\ s * (y \div s) <= y
  BY <1>1, <1>3, Portion
<1>5. nav_per_share(f) \in Nat /\ (s # 0 => s * nav_per_share(f) <= y)
  BY <1>1, <1>2, <1>4
<1> QED BY <1>5 DEF s, y, v

\* What a share's price redeems, of the value behind it.
LEMMA Reordered ==
  ASSUME NEW u \in Nat, NEW s \in Nat, NEW g \in Nat, NEW h \in Nat, NEW k \in Nat, NEW v \in Nat
  PROVE  /\ u * (s * g) = s * (u * g) /\ s * (h * k) = h * (s * k) /\ h * (v * u) = u * (v * h)
         /\ u * g \in Nat /\ h * k \in Nat /\ s * k \in Nat /\ v * u \in Nat /\ s * g \in Nat /\ v * h \in Nat
         /\ s * (u * g) \in Nat /\ s * (h * k) \in Nat /\ h * (v * u) \in Nat
OBVIOUS
LEMMA ShareBounded ==
  ASSUME NEW u \in Nat \ {0}, NEW s \in Nat, NEW g \in Nat, NEW h \in Nat, NEW k \in Nat, NEW v \in Nat,
         u * g <= h * k, s * k <= v * u
  PROVE  s * g <= v * h
<1> DEFINE a == u * g
           b == h * k
           c == s * k
           d == v * u
<1>1. a <= b /\ c <= d /\ a \in Nat /\ b \in Nat /\ c \in Nat /\ d \in Nat
  BY Reordered
<1>2. u * (s * g) = s * a /\ s * b = h * c /\ h * d = u * (v * h)
  BY Reordered
<1>t. s * g \in Int /\ v * h \in Int /\ u \in Nat
  BY Reordered
<1> HIDE DEF a, b, c, d
<1>3. s * a <= s * b /\ h * c <= h * d /\ s * a \in Int /\ s * b \in Int /\ h * d \in Int
  BY <1>1, ProductOrder, Product
<1> DEFINE e == s * g
           m == v * h
<1>4. u * e <= u * m
  <2> DEFINE A == s * a
             B == s * b
             D == h * d
  <2>1. A <= B /\ B <= D /\ A \in Int /\ B \in Int /\ D \in Int
    BY <1>2, <1>3
  <2> HIDE DEF A, B, D
  <2>2. A <= D
    BY <2>1
  <2> QED BY <1>2, <2>2 DEF A, D
<1>5. e \in Int /\ m \in Int
  BY <1>t
<1> HIDE DEF e, m
<1>6. e <= m
  BY <1>4, <1>5, CancelFactor
<1> QED BY <1>6 DEF e, m

LEMMA FundRedeemed ==
  ASSUME NEW f \in IndexFund, FundSteady(f)
  PROVE  Redeemable(f) <= f.value
<1> DEFINE h == f.held
           k == nav_per_share(f)
           g == [p \in Party |-> (h[p] * k) \div SharePrice]
           v == f.value
<1>1. h \in [Party -> Nat] /\ h \in [Party -> Int] /\ v \in Nat /\ f.shares \in Nat
  BY DEF IndexFund
<1>2. k \in Nat /\ SharePrice \in Nat \ {0} /\ (f.shares # 0 => f.shares * k <= v * SharePrice)
  BY NavType, FundAssumption
<1>s. SumFunction(h) = f.shares /\ IsFiniteSet(Party)
  BY LedgerAssumption DEF FundSteady
<1>r. Redeemable(f) = SumFunction(g)
  BY DEF Redeemable
<1> HIDE DEF h, k, v
<1>3. ASSUME NEW p \in Party PROVE g[p] \in Nat /\ SharePrice * g[p] <= h[p] * k
  <2> DEFINE y == h[p] * k
  <2>1. y \in Nat
    BY <1>1, <1>2, Product
  <2>2. g[p] = y \div SharePrice
    OBVIOUS
  <2> HIDE DEF y, g
  <2>3. g[p] \in Nat /\ SharePrice * g[p] <= y
    BY <1>2, <2>1, <2>2, Portion
  <2> QED BY <2>3 DEF y
<1>4. g \in [Party -> Int]
  BY <1>3
<1> HIDE DEF g
<1>5. CASE f.shares = 0
  <2>1. ASSUME NEW p \in Party PROVE g[p] = 0
    <3>1. h[p] <= SumFunction(h) /\ h[p] \in Nat
      BY <1>1, <1>s, SumBoundsSummand
    <3>2. h[p] = 0
      BY <1>5, <1>s, <3>1
    <3>3. SharePrice * g[p] <= 0 * k /\ g[p] \in Nat
      BY <1>3, <3>2
    <3>4. SharePrice * g[p] <= 0
      BY <1>2, <3>3
    <3> QED BY <1>2, <3>3, <3>4
  <2>2. SumFunction(g) = 0
    BY <1>4, <1>s, <2>1, SumZero
  <2> QED BY <1>1, <1>r, <2>2 DEF v
<1>6. CASE f.shares # 0
  <2>1. ASSUME NEW p \in Party PROVE SumFunction(h) * g[p] <= v * h[p]
    <3> DEFINE s == f.shares
               x == g[p]
               y == h[p]
    <3>1. /\ s \in Nat /\ x \in Nat /\ y \in Nat /\ SharePrice * x <= y * k /\ s * k <= v * SharePrice
      BY <1>1, <1>2, <1>3, <1>6
    <3>2. s = SumFunction(h)
      BY <1>s
    <3> HIDE DEF s, x, y
    <3>3. s * x <= v * y
      BY <1>1, <1>2, <3>1, ShareBounded
    <3> QED BY <3>2, <3>3 DEF x, y
  <2>2. SumFunction(h) \in Nat \ {0} /\ v \in Int
    BY <1>1, <1>6, <1>s
  <2>3. SumFunction(g) <= v
    BY <1>1, <1>4, <1>s, <2>1, <2>2, SumOfShares
  <2> QED BY <1>r, <2>3 DEF v
<1> QED BY <1>5, <1>6

-----------------------------------------------------------------------------
\* A fund changes, and the jar gets x for it.
LEMMA FundMoved ==
  ASSUME funds \in Seq(IndexFund), wallet \in Wallets, NEW i \in DOMAIN funds, NEW n, NEW x \in Int,
         NEW value, NEW shares, NEW held, IsFund(n, funds[i], value, shares, held),
         value = funds[i].value + x,
         funds' = [funds EXCEPT ![i] = n], Gets(wallet, wallet', funds[i].token, x)
  PROVE  n \in IndexFund /\ FundWritten(i, n)
<1> DEFINE f == funds[i]
           v == f.value
<1>1. f \in IndexFund /\ v \in Nat
  BY FundFields
<1>2. n \in IndexFund /\ n.token = f.token /\ n.value = v + x
  BY DEF IsFund
<1>3. ASSUME NEW t \in Token PROVE wallet'[t][Jar] = wallet[t][Jar] + FundHolds(n, t) - FundHolds(f, t)
  <2>1. wallet'[t][Jar] = wallet[t][Jar] + (IF t = f.token THEN x ELSE 0) /\ wallet[t][Jar] \in Int
    BY JarsAccount DEF Gets
  <2>2. /\ FundHolds(n, t) = IF t = f.token THEN v + x ELSE 0
        /\ FundHolds(f, t) = IF t = f.token THEN v ELSE 0
    BY <1>2 DEF FundHolds
  <2> HIDE DEF v
  <2> QED BY <1>1, <2>1, <2>2
<1> QED BY <1>2, <1>3 DEF FundWritten, FundPaid, Gets

LEMMA FundParts ==
  ASSUME FundsInv, NEW i \in DOMAIN funds
  PROVE  /\ funds[i] \in IndexFund /\ FundSteady(funds[i]) /\ funds[i].alloc \in [Party -> Int]
         /\ funds[i].held \in [Party -> Nat] /\ funds[i].shares \in Nat /\ funds[i].value \in Nat
         /\ funds[i].token \in Token
<1> DEFINE f == funds[i]
<1>1. f \in IndexFund /\ FundSteady(f)
  BY DEF FundsInv, FundSteady
<1> HIDE DEF f
<1>2. f.alloc \in [Party -> Int]
  BY <1>1 DEF IndexFund
<1> QED BY <1>1, <1>2, FundFields DEF f

LEMMA FundKept ==
  ASSUME FundsInv, wallet \in Wallets, NEW i \in DOMAIN funds, NEW n,
         IsFund(n, funds[i], funds[i].value, funds[i].shares, funds[i].held),
         funds' = [funds EXCEPT ![i] = n], wallet' = wallet
  PROVE  n \in IndexFund /\ FundWritten(i, n) /\ FundSteady(n)
<1>1. funds \in Seq(IndexFund) /\ FundSteady(funds[i]) /\ funds[i] \in IndexFund
  BY DEF FundsInv, FundSteady
<1>2. funds[i].value = funds[i].value + 0 /\ funds[i].token \in Token
  BY <1>1, FundFields
<1>3. Gets(wallet, wallet', funds[i].token, 0)
  BY <1>2, NothingPaid
<1>5. FundSteady(n)
  BY <1>1 DEF IsFund, FundSteady
<1> DEFINE value == funds[i].value
           shares == funds[i].shares
           held == funds[i].held
           x == 0
<1>4. /\ IsFund(n, funds[i], value, shares, held) /\ value = funds[i].value + x /\ x \in Int
      /\ Gets(wallet, wallet', funds[i].token, x)
  BY <1>2, <1>3
<1> HIDE DEF value, shares, held, x
<1>6. n \in IndexFund /\ FundWritten(i, n)
  BY <1>1, <1>4, FundMoved
<1> QED BY <1>5, <1>6

LEMMA FundCreated ==
  ASSUME FundsInv, wallet \in Wallets, NEW p \in Party, NEW t \in Token, NEW k \in Baskets,
         create_index_fund(p, t, k)
  PROVE  \E n \in IndexFund : FundOpened(n) /\ FundSteady(n)
<1> DEFINE h == [q \in Party |-> 0]
           n == [manager |-> p, token |-> t, basket |-> k, shares |-> 0, value |-> 0,
                 held |-> h, alloc |-> h]
<1>1. funds' = Append(funds, n) /\ wallet' = wallet
  BY DEF create_index_fund, PerParty
<1>2. h \in [Party -> Nat] /\ h \in [Party -> Int] /\ \A q \in Party : h[q] = 0
  OBVIOUS
<1> HIDE DEF h
<1>3. n \in IndexFund /\ n.held = h /\ n.shares = 0 /\ n.value = 0
  BY <1>2 DEF IndexFund
<1> HIDE DEF n
<1>4. SumFunction(h) = 0
  BY <1>2, LedgerAssumption, SumZero
<1>5. ASSUME NEW u \in Token PROVE wallet'[u][Jar] = wallet[u][Jar] + FundHolds(n, u)
  BY <1>1, <1>3, JarsAccount DEF FundHolds
<1>6. FundOpened(n)
  BY <1>1, <1>3, <1>5 DEF FundOpened
<1> QED BY <1>3, <1>4, <1>6 DEF FundSteady

LEMMA FundUpdated ==
  ASSUME FundsInv, wallet \in Wallets, NEW p, NEW i \in DOMAIN funds, NEW k \in Baskets,
         update_index_composition(p, i, k)
  PROVE  \E n \in IndexFund : FundWritten(i, n) /\ FundSteady(n)
<1> DEFINE n == Rebasketed(funds[i], k)
<1>1. funds' = [funds EXCEPT ![i] = n] /\ wallet' = wallet
  BY DEF update_index_composition, Rebasketed
<1>2. IsFund(n, funds[i], funds[i].value, funds[i].shares, funds[i].held)
  BY FundRebasketed DEF FundsInv
<1> HIDE DEF n
<1>3. n \in IndexFund /\ FundWritten(i, n) /\ FundSteady(n)
  BY <1>1, <1>2, FundKept
<1> QED BY <1>3

LEMMA FundRebalanced ==
  ASSUME FundsInv, wallet \in Wallets, NEW p, NEW i \in DOMAIN funds, rebalance_index_fund(p, i)
  PROVE  \E n \in IndexFund : FundWritten(i, n) /\ FundSteady(n)
<1> DEFINE f == funds[i]
           a == [c \in Party |-> IF c \in DOMAIN f.basket THEN Allotted(f, f.value)[c] ELSE f.alloc[c]]
           n == Realloted(f, a)
<1>1. funds' = [funds EXCEPT ![i] = n] /\ wallet' = wallet
  BY DEF rebalance_index_fund, Realloted
<1>2. f \in IndexFund /\ f.value \in Nat /\ f.alloc \in [Party -> Int]
  BY FundParts
<1>3. a \in [Party -> Int]
  BY <1>2, AllottedType
<1> HIDE DEF a
<1>4. IsFund(n, funds[i], funds[i].value, funds[i].shares, funds[i].held)
  BY <1>2, <1>3, FundRealloted
<1> HIDE DEF n
<1>5. n \in IndexFund /\ FundWritten(i, n) /\ FundSteady(n)
  BY <1>1, <1>4, FundKept
<1> QED BY <1>5

\* Shares are added to or taken from one holder.
LEMMA HeldMoved ==
  ASSUME NEW f \in IndexFund, FundSteady(f), NEW p \in Party, NEW d \in Int, f.held[p] + d \in Nat
  PROVE  SumFunction([f.held EXCEPT ![p] = f.held[p] + d]) = f.shares + d /\ f.shares + d \in Nat
<1> DEFINE h == f.held
           k == h[p] + d
           g == [h EXCEPT ![p] = k]
<1>1. h \in [Party -> Nat] /\ h \in [Party -> Int] /\ k \in Nat /\ f.shares = SumFunction(h) /\ h[p] \in Nat
  BY DEF IndexFund, FundSteady
<1> HIDE DEF h
<1>2. g \in [Party -> Nat] /\ g \in [Party -> Int] /\ g[p] = k /\ \A q \in Party \ {p} : g[q] = h[q]
  <2> HIDE DEF k
  <2> QED BY <1>1
<1> HIDE DEF g
<1>3. SumFunction(g) = SumFunction(h) + g[p] - h[p] /\ SumFunction(g) \in Nat /\ SumFunction(h) \in Int
  BY <1>1, <1>2, LedgerAssumption, SumUpdate, SumNat, SumType
<1>4. SumFunction(g) = f.shares + d /\ f.shares + d \in Nat
  BY <1>1, <1>2, <1>3
<1> QED BY <1>4 DEF g, h

LEMMA FundDeposited ==
  ASSUME FundsInv, wallet \in Wallets, NEW p \in Party, NEW i \in DOMAIN funds, NEW x \in Nat,
         deposit_index_fund(p, i, x)
  PROVE  \E n \in IndexFund : FundWritten(i, n) /\ FundSteady(n)
<1> DEFINE f == funds[i]
           d == (x * SharePrice) \div nav_per_share(f)
           a == [c \in Party |-> f.alloc[c] + Allotted(f, x)[c]]
           v == f.value + x
           s == f.shares + d
           k == f.held[p] + d
           n == Refunded(f, a, v, s, p, k)
<1>1. /\ funds' = [funds EXCEPT ![i] = n] /\ nav_per_share(f) > 0
      /\ wallet' = Transfer(wallet, f.token, p, Jar, x)
  BY DEF deposit_index_fund, Pay, Refunded
<1>2. f \in IndexFund /\ FundSteady(f) /\ f.alloc \in [Party -> Int] /\ f.held \in [Party -> Nat]
      /\ f.shares \in Nat /\ f.value \in Nat /\ f.token \in Token
  BY FundParts
<1>3. d \in Nat
  <2> DEFINE y == x * SharePrice
  <2>1. y \in Nat
    BY FundAssumption, Product
  <2>2. nav_per_share(f) \in Nat \ {0}
    BY <1>1, <1>2, NavType
  <2> HIDE DEF y
  <2>3. y \div nav_per_share(f) \in Nat
    BY <2>1, <2>2, Portion
  <2> QED BY <2>3 DEF y
<1>4. a \in [Party -> Int]
  BY <1>2, AllottedType
<1> HIDE DEF a, d, f
<1>5. v \in Nat /\ s \in Nat /\ k \in Nat
  BY <1>2, <1>3
<1>6. IsFund(n, f, v, s, [f.held EXCEPT ![p] = k])
  <2> HIDE DEF v, s, k
  <2> QED BY <1>2, <1>4, <1>5, FundRefunded
<1>7. SumFunction([f.held EXCEPT ![p] = k]) = s
  BY <1>2, <1>3, <1>5, HeldMoved
<1> HIDE DEF n
<1>8. FundSteady(n)
  BY <1>6, <1>7 DEF IsFund, FundSteady
<1>9. Gets(wallet, wallet', f.token, x)
  BY <1>1, <1>2, PaidIn
<1>10. n \in IndexFund /\ FundWritten(i, n)
  <2> DEFINE h == [f.held EXCEPT ![p] = k]
  <2>1. funds \in Seq(IndexFund) /\ IsFund(n, funds[i], v, s, h) /\ v = funds[i].value + x /\ x \in Int
    BY <1>6 DEF FundsInv, f
  <2>2. Gets(wallet, wallet', funds[i].token, x) /\ funds' = [funds EXCEPT ![i] = n]
    BY <1>1, <1>9 DEF f
  <2> HIDE DEF s, h, v
  <2> QED BY <2>1, <2>2, FundMoved
<1> QED BY <1>8, <1>10

LEMMA FundWithdrawn ==
  ASSUME FundsInv, wallet \in Wallets, NEW p \in Party, NEW i \in DOMAIN funds, NEW y \in Nat,
         withdraw_index_fund(p, i, y)
  PROVE  \E n \in IndexFund : FundWritten(i, n) /\ FundSteady(n)
<1> DEFINE f == funds[i]
           x == (y * nav_per_share(f)) \div SharePrice
           a == [c \in Party |-> Larger(f.alloc[c] - Allotted(f, x)[c], 0)]
           v == f.value - x
           s == f.shares - y
           k == f.held[p] - y
           n == Refunded(f, a, v, s, p, k)
<1>1. /\ funds' = [funds EXCEPT ![i] = n] /\ f.held[p] >= y /\ x <= f.value
      /\ wallet' = Transfer(wallet, f.token, Jar, p, x)
  BY DEF withdraw_index_fund, Pay, Refunded
<1>2. f \in IndexFund /\ FundSteady(f) /\ f.alloc \in [Party -> Int] /\ f.held \in [Party -> Nat]
      /\ f.shares \in Nat /\ f.value \in Nat /\ f.token \in Token
  BY FundParts
<1>3. x \in Nat
  <2> DEFINE z == y * nav_per_share(f)
  <2>1. z \in Nat
    BY <1>2, NavType, Product
  <2> HIDE DEF z
  <2>3. z \div SharePrice \in Nat
    BY <2>1, FundAssumption, Portion
  <2> QED BY <2>3 DEF z
<1> HIDE DEF x
<1>4. a \in [Party -> Int]
  BY <1>2, <1>3, AllottedType DEF Larger
<1> HIDE DEF a, f
<1>d. -y \in Int /\ -x \in Int /\ k = f.held[p] + (-y) /\ s = f.shares + (-y) /\ v = f.value + (-x)
  BY <1>2, <1>3
<1>5. v \in Nat /\ k \in Nat
  BY <1>1, <1>2, <1>3
<1>7. SumFunction([f.held EXCEPT ![p] = k]) = s /\ s \in Nat
  <2> DEFINE d == -y
  <2>1. d \in Int /\ f.held[p] + d \in Nat /\ k = f.held[p] + d /\ s = f.shares + d
    BY <1>5, <1>d
  <2> HIDE DEF d, k, s
  <2>2. SumFunction([f.held EXCEPT ![p] = f.held[p] + d]) = f.shares + d /\ f.shares + d \in Nat
    BY <1>2, <2>1, HeldMoved
  <2> QED BY <2>1, <2>2
<1>6. IsFund(n, f, v, s, [f.held EXCEPT ![p] = k])
  <2> HIDE DEF v, s, k
  <2> QED BY <1>2, <1>4, <1>5, <1>7, FundRefunded
<1> HIDE DEF n
<1>8. FundSteady(n)
  BY <1>6, <1>7 DEF IsFund, FundSteady
<1>9. Gets(wallet, wallet', f.token, -x)
  BY <1>1, <1>2, <1>3, PaidOutOf
<1>10. n \in IndexFund /\ FundWritten(i, n)
  <2> DEFINE h == [f.held EXCEPT ![p] = k]
             e == -x
  <2>1. funds \in Seq(IndexFund) /\ IsFund(n, funds[i], v, s, h) /\ e \in Int /\ v = funds[i].value + e
    BY <1>6, <1>d DEF FundsInv, f
  <2>2. Gets(wallet, wallet', funds[i].token, e) /\ funds' = [funds EXCEPT ![i] = n]
    BY <1>1, <1>9 DEF f
  <2> HIDE DEF s, h, e, v
  <2> QED BY <2>1, <2>2, FundMoved
<1> QED BY <1>8, <1>10

LEMMA FundsStep ==
  ASSUME FundsInv, wallet \in Wallets, IndexFundNext
  PROVE  FundsInv' /\ FundsFollow
<1>a. Amounts \subseteq Nat
  BY LedgerAssumption
<1> DEFINE G == {f \in IndexFund : FundSteady(f)}
<1>1. funds \in Seq(IndexFund) /\ G \in SUBSET IndexFund /\ \A j \in DOMAIN funds : funds[j] \in G
  BY DEF FundsInv, FundSteady
<1>2. CASE \E p \in Party, t \in Token, k \in Baskets : create_index_fund(p, t, k)
  <2>1. PICK n \in IndexFund : FundOpened(n) /\ FundSteady(n)
    BY <1>2, FundCreated
  <2>2. funds' \in Seq(IndexFund) /\ FundsFollow
    BY <1>1, <2>1, FundsChanged
  <2>3. n \in G /\ funds' = Append(funds, n)
    BY <2>1 DEF FundOpened
  <2> HIDE DEF G
  <2>4. \A j \in DOMAIN funds' : funds'[j] \in G
    BY <1>1, <2>3, EachExtended
  <2> QED BY <2>2, <2>4 DEF FundsInv, FundSteady, G
<1>3. ASSUME NEW p \in Party, NEW i \in DOMAIN funds,
             \/ \E k \in Baskets : update_index_composition(p, i, k)
             \/ rebalance_index_fund(p, i)
             \/ \E x \in Amounts : deposit_index_fund(p, i, x) \/ withdraw_index_fund(p, i, x)
      PROVE  FundsInv' /\ FundsFollow
  <2>1. PICK n \in IndexFund : FundWritten(i, n) /\ FundSteady(n)
    <3>1. CASE \E k \in Baskets : update_index_composition(p, i, k)
      BY <3>1, FundUpdated
    <3>2. CASE rebalance_index_fund(p, i)
      BY <3>2, FundRebalanced
    <3>3. CASE \E x \in Amounts : deposit_index_fund(p, i, x)
      BY <1>a, <3>3, FundDeposited
    <3>4. CASE \E x \in Amounts : withdraw_index_fund(p, i, x)
      BY <1>a, <3>4, FundWithdrawn
    <3> QED BY <1>3, <3>1, <3>2, <3>3, <3>4, Zenon
  <2>2. funds' \in Seq(IndexFund) /\ FundsFollow
    BY <1>1, <2>1, FundsChanged
  <2>3. n \in G /\ funds' = [funds EXCEPT ![i] = n]
    BY <2>1 DEF FundWritten
  <2> HIDE DEF G
  <2>4. \A j \in DOMAIN funds' : funds'[j] \in G
    BY <1>1, <2>3, EachWritten
  <2> QED BY <2>2, <2>4 DEF FundsInv, FundSteady, G
<1> QED BY <1>2, <1>3, Zenon DEF IndexFundNext

LEMMA FundsBacked ==
  ASSUME FundsInv
  PROVE  FundsRedeemable
BY FundRedeemed DEF FundsInv, FundsRedeemable, FundSteady

-----------------------------------------------------------------------------
(* Retroactive rounds *)

RetrosHeld(t) == SumFunction([i \in DOMAIN retros |-> RetroHolds(retros[i], t)])

\* What the jar holds for retroactive rounds follows what is paid.
RetroBook(t) == [m \in RetroRound |-> RetroHolds(m, t)]
RetrosFollow ==
  /\ wallet' \in Wallets
  /\ \A t \in Token : /\ RetrosHeld(t) \in Int /\ RetrosHeld(t)' \in Int
                      /\ wallet'[t][Jar] = wallet[t][Jar] + RetrosHeld(t)' - RetrosHeld(t)
RetroPaid(m, n) ==
  \A t \in Token : wallet'[t][Jar] = wallet[t][Jar] + RetroHolds(n, t) - RetroHolds(m, t)
RetroWritten(i, n) ==
  /\ retros' = [retros EXCEPT ![i] = n]
  /\ wallet' \in Wallets /\ n \in RetroRound /\ RetroPaid(retros[i], n)
RetroOpened(n) ==
  /\ retros' = Append(retros, n)
  /\ wallet' \in Wallets /\ n \in RetroRound
  /\ \A t \in Token : wallet'[t][Jar] = wallet[t][Jar] + RetroHolds(n, t)

LEMMA RetroFields ==
  ASSUME NEW m \in RetroRound
  PROVE  /\ m.token \in Token /\ m.pool \in Nat /\ m.paid \in Int /\ m.votes \in [Party -> Vote \cup {None}]
         /\ m.got \in [Party -> Nat] /\ m.total \in Nat
BY DEF RetroRound
LEMMA RetroBookType ==
  ASSUME NEW t \in Token
  PROVE  RetroBook(t) \in [RetroRound -> Int]
<1>1. ASSUME NEW m \in RetroRound PROVE RetroHolds(m, t) \in Int
  BY RetroFields DEF RetroHolds
<1> QED BY <1>1 DEF RetroBook
LEMMA RetrosWorth ==
  ASSUME retros \in Seq(RetroRound), NEW t \in Token
  PROVE  RetrosHeld(t) = Worth(retros, RetroBook(t))
<1>1. \A i \in DOMAIN retros : RetroBook(t)[retros[i]] = RetroHolds(retros[i], t)
  BY DEF RetroBook
<1>2. [i \in DOMAIN retros |-> RetroHolds(retros[i], t)] = [i \in DOMAIN retros |-> RetroBook(t)[retros[i]]]
  BY <1>1
<1> QED BY <1>2 DEF RetrosHeld, Worth
LEMMA RetrosWorthNext ==
  ASSUME retros' \in Seq(RetroRound), NEW t \in Token
  PROVE  RetrosHeld(t)' = Worth(retros', RetroBook(t))
<1>1. \A i \in DOMAIN retros' : RetroBook(t)[retros'[i]] = RetroHolds(retros'[i], t)
  BY DEF RetroBook
<1>2. [i \in DOMAIN retros' |-> RetroHolds(retros'[i], t)]
        = [i \in DOMAIN retros' |-> RetroBook(t)[retros'[i]]]
  BY <1>1
<1> QED BY <1>2 DEF RetrosHeld, RetroHolds, Worth

LEMMA RetrosChanged ==
  ASSUME retros \in Seq(RetroRound), wallet \in Wallets, NEW n \in RetroRound, NEW i,
         (i \in DOMAIN retros /\ RetroWritten(i, n)) \/ RetroOpened(n)
  PROVE  retros' \in Seq(RetroRound) /\ RetrosFollow
<1>1. retros' \in Seq(RetroRound)
  BY SeqUpdated, SeqAppended DEF RetroWritten, RetroOpened
<1>2. ASSUME NEW t \in Token
      PROVE  /\ RetrosHeld(t) \in Int /\ RetrosHeld(t)' \in Int
             /\ wallet'[t][Jar] = wallet[t][Jar] + RetrosHeld(t)' - RetrosHeld(t)
  <2> DEFINE H == RetroBook(t)
  <2>1. RetrosHeld(t) = Worth(retros, H) /\ RetrosHeld(t)' = Worth(retros', H)
    BY <1>1, RetrosWorth, RetrosWorthNext
  <2>2. /\ H \in [RetroRound -> Int] /\ H[n] = RetroHolds(n, t)
        /\ \A j \in DOMAIN retros : H[retros[j]] = RetroHolds(retros[j], t)
    BY RetroBookType DEF RetroBook
  <2>3. wallet[t][Jar] \in Int
    BY JarsAccount
  <2> HIDE DEF H
  <2>4. Earns(wallet[t][Jar], wallet'[t][Jar], retros, retros', H)
    <3>1. CASE i \in DOMAIN retros /\ RetroWritten(i, n)
      <4>1. /\ i \in DOMAIN retros /\ retros' = [retros EXCEPT ![i] = n]
            /\ wallet'[t][Jar] = wallet[t][Jar] + H[n] - H[retros[i]]
        BY <2>2, <3>1 DEF RetroWritten, RetroPaid
      <4> QED BY <2>2, <2>3, <4>1, ListWritten
    <3>2. CASE RetroOpened(n)
      <4>1. retros' = Append(retros, n) /\ wallet'[t][Jar] = wallet[t][Jar] + H[n]
        BY <2>2, <3>2 DEF RetroOpened
      <4> QED BY <2>2, <2>3, <4>1, ListExtended
    <3> QED BY <3>1, <3>2
  <2> QED BY <2>1, <2>4 DEF Earns
<1>3. wallet' \in Wallets
  BY DEF RetroWritten, RetroOpened
<1> QED BY <1>1, <1>2, <1>3 DEF RetrosFollow

\* Rounds after a nomination, a vote, their end or a claim.
Nominated(r, s) == [r EXCEPT !.creators = s]
Voted(r, v, b, c, x, y) == [r EXCEPT !.votes[v] = b, !.got[c] = x, !.total = y]
RetroEnded(r) == [r EXCEPT !.status = "Finalized"]
PaidTo(r, s, x) == [r EXCEPT !.claimed = s, !.paid = x]
IsRetro(n, r, votes, got, total, paid) ==
  /\ n \in RetroRound /\ n.token = r.token /\ n.pool = r.pool /\ n.votes = votes /\ n.got = got
  /\ n.total = total /\ n.paid = paid
LEMMA RetroNominated ==
  ASSUME NEW r \in RetroRound, NEW s \in SUBSET Party
  PROVE  IsRetro(Nominated(r, s), r, r.votes, r.got, r.total, r.paid)
BY DEF RetroRound, Nominated, IsRetro
LEMMA RetroVoted ==
  ASSUME NEW r \in RetroRound, NEW v \in Party, NEW b \in Vote, NEW c \in Party, NEW x \in Nat, NEW y \in Nat
  PROVE  IsRetro(Voted(r, v, b, c, x, y), r, [r.votes EXCEPT ![v] = b], [r.got EXCEPT ![c] = x], y, r.paid)
BY DEF RetroRound, Voted, IsRetro
LEMMA RetroFinished ==
  ASSUME NEW r \in RetroRound
  PROVE  IsRetro(RetroEnded(r), r, r.votes, r.got, r.total, r.paid)
BY DEF RetroRound, RetroEnded, IsRetro
LEMMA RetroRewarded ==
  ASSUME NEW r \in RetroRound, NEW s \in SUBSET Party, NEW x \in Int
  PROVE  IsRetro(PaidTo(r, s, x), r, r.votes, r.got, r.total, x)
BY DEF RetroRound, PaidTo, IsRetro

\* The votes of a round for a creator, and whether its counts are theirs.
Ballots(votes, c) ==
  [v \in Party |-> IF votes[v] # None /\ votes[v].creator = c THEN votes[v].weight ELSE 0]
Tally(votes) == [c \in Party |-> SumFunction(Ballots(votes, c))]
VoteSound(r) == (\A c \in Party : r.got[c] = Tally(r.votes)[c]) /\ r.total = SumFunction(Tally(r.votes))
LEMMA TallyIs ==
  ASSUME NEW r
  PROVE  /\ \A c \in Party : CastFor(r, c) = Tally(r.votes)[c]
         /\ [c \in Party |-> CastFor(r, c)] = Tally(r.votes)
BY DEF CastFor, Tally, Ballots
CountsAgree(r) ==
  /\ \A c \in Party : r.got[c] = CastFor(r, c)
  /\ r.total = SumFunction([c \in Party |-> CastFor(r, c)])
LEMMA CountsTallied ==
  ASSUME NEW r
  PROVE  CountsAgree(r) <=> VoteSound(r)
<1>1. (\A c \in Party : CastFor(r, c) = Tally(r.votes)[c]) /\ [c \in Party |-> CastFor(r, c)] = Tally(r.votes)
  BY TallyIs
<1> QED BY <1>1, Zenon DEF CountsAgree, VoteSound
LEMMA VotesNow == VotesCast <=> \A i \in DOMAIN retros : VoteSound(retros[i])
<1>1. VotesCast <=> \A i \in DOMAIN retros : CountsAgree(retros[i])
  BY DEF VotesCast, CountsAgree
<1> QED BY <1>1, CountsTallied, Zenon
LEMMA VotesNext == VotesCast' <=> \A i \in DOMAIN retros' : VoteSound(retros'[i])
<1>1. VotesCast' <=> \A i \in DOMAIN retros' : CountsAgree(retros'[i])
  BY DEF VotesCast, CastFor, CountsAgree
<1> QED BY <1>1, CountsTallied, Zenon
Votes == [Party -> Vote \cup {None}]
LEMMA BallotsType ==
  ASSUME NEW votes \in Votes, NEW c
  PROVE  /\ \A v \in Party : votes[v] # None => votes[v] \in Vote
         /\ Ballots(votes, c) \in [Party -> Nat] /\ Ballots(votes, c) \in [Party -> Int]
<1>1. ASSUME NEW v \in Party, votes[v] # None PROVE votes[v] \in Vote /\ votes[v].weight \in Nat
  BY <1>1 DEF Votes, Vote
<1> QED BY <1>1 DEF Ballots
LEMMA TallyType ==
  ASSUME NEW votes \in Votes
  PROVE  Tally(votes) \in [Party -> Nat] /\ Tally(votes) \in [Party -> Int] /\ IsFiniteSet(Party)
<1>1. ASSUME NEW c \in Party PROVE SumFunction(Ballots(votes, c)) \in Nat
  BY BallotsType, LedgerAssumption, SumNat
<1> QED BY <1>1, LedgerAssumption DEF Tally
TallyMoves(votes, new, c, w) ==
  \A d \in Party : Tally(new)[d] = Tally(votes)[d] + (IF d = c THEN w ELSE 0)
\* A vote adds its weight to the tally of its creator.
LEMMA VoteAdded ==
  ASSUME NEW votes \in Votes, NEW v \in Party, votes[v] = None, NEW b \in Vote,
         NEW new, new = [votes EXCEPT ![v] = b]
  PROVE  new \in Votes /\ TallyMoves(votes, new, b.creator, b.weight)
<1>1. b.weight \in Nat /\ b # None
  BY FundingAssumption DEF Vote
<1>2. new \in Votes /\ \A u \in Party : new[u] = IF u = v THEN b ELSE votes[u]
  BY DEF Votes
<1>3. ASSUME NEW c \in Party
      PROVE  Tally(new)[c] = Tally(votes)[c] + (IF c = b.creator THEN b.weight ELSE 0)
  <2> DEFINE f == Ballots(votes, c)
             g == Ballots(new, c)
  <2>1. f \in [Party -> Int] /\ g \in [Party -> Int]
    BY <1>2, BallotsType
  <2>2. \A u \in Party \ {v} : g[u] = f[u]
    BY <1>2 DEF Ballots
  <2>3. f[v] = 0 /\ g[v] = IF c = b.creator THEN b.weight ELSE 0
    BY <1>1, <1>2 DEF Ballots
  <2>t. Tally(new)[c] = SumFunction(g) /\ Tally(votes)[c] = SumFunction(f)
    BY DEF Tally
  <2> HIDE DEF f, g
  <2>4. SumFunction(g) = SumFunction(f) + g[v] - f[v] /\ SumFunction(f) \in Int
    BY <2>1, <2>2, LedgerAssumption, SumUpdate, SumType
  <2> QED BY <1>1, <2>3, <2>4, <2>t
<1> QED BY <1>2, <1>3 DEF TallyMoves
LEMMA TallyRaised ==
  ASSUME NEW votes \in Votes, NEW v \in Party, votes[v] = None, NEW b \in Vote, b.creator \in Party,
         NEW new, new = [votes EXCEPT ![v] = b]
  PROVE  SumFunction(Tally(new)) = SumFunction(Tally(votes)) + b.weight
<1> DEFINE f == Tally(votes)
           g == Tally(new)
           c == b.creator
<1>0. new \in Votes /\ TallyMoves(votes, new, b.creator, b.weight)
  BY VoteAdded
<1>1. new \in Votes /\ \A d \in Party : g[d] = f[d] + (IF d = c THEN b.weight ELSE 0)
  BY <1>0 DEF TallyMoves
<1>2. f \in [Party -> Int] /\ g \in [Party -> Int] /\ IsFiniteSet(Party) /\ b.weight \in Nat
  BY <1>1, TallyType DEF Vote
<1> HIDE DEF f, g, c
<1>3. (\A d \in Party \ {c} : g[d] = f[d]) /\ g[c] = f[c] + b.weight /\ f[c] \in Int /\ c \in Party
  BY <1>1, <1>2 DEF c
<1>4. SumFunction(g) = SumFunction(f) + g[c] - f[c] /\ SumFunction(f) \in Int
  BY <1>2, <1>3, SumUpdate, SumType
<1>5. SumFunction(g) = SumFunction(f) + b.weight
  BY <1>2, <1>3, <1>4
<1> QED BY <1>5 DEF f, g

-----------------------------------------------------------------------------
\* A round changes, and the jar gets x for it.
LEMMA RetroMoved ==
  ASSUME retros \in Seq(RetroRound), wallet \in Wallets, NEW i \in DOMAIN retros, NEW n, NEW x \in Int,
         NEW votes, NEW got, NEW total, NEW paid, paid = retros[i].paid - x,
         IsRetro(n, retros[i], votes, got, total, paid),
         retros' = [retros EXCEPT ![i] = n], Gets(wallet, wallet', retros[i].token, x)
  PROVE  n \in RetroRound /\ RetroWritten(i, n)
<1> DEFINE r == retros[i]
           v == r.pool - r.paid
<1>1. r \in RetroRound /\ v \in Int /\ r.pool \in Nat /\ r.paid \in Int
  BY RetroFields
<1>2. n \in RetroRound /\ n.token = r.token /\ n.pool = r.pool /\ n.paid = r.paid - x
  BY DEF IsRetro
<1>c. n.pool - n.paid = v + x
  BY <1>1, <1>2
<1>3. ASSUME NEW t \in Token PROVE wallet'[t][Jar] = wallet[t][Jar] + RetroHolds(n, t) - RetroHolds(r, t)
  <2>1. wallet'[t][Jar] = wallet[t][Jar] + (IF t = r.token THEN x ELSE 0) /\ wallet[t][Jar] \in Int
    BY JarsAccount DEF Gets
  <2>2. /\ RetroHolds(n, t) = IF t = r.token THEN v + x ELSE 0
        /\ RetroHolds(r, t) = IF t = r.token THEN v ELSE 0
    BY <1>2, <1>c DEF RetroHolds
  <2> HIDE DEF v
  <2> QED BY <1>1, <2>1, <2>2
<1> QED BY <1>2, <1>3 DEF RetroWritten, RetroPaid, Gets
LEMMA RetroParts ==
  ASSUME RetrosInv, NEW i \in DOMAIN retros
  PROVE  /\ retros \in Seq(RetroRound) /\ retros[i] \in RetroRound /\ VoteSound(retros[i])
         /\ retros[i].token \in Token /\ retros[i].pool \in Nat /\ retros[i].paid \in Int
         /\ retros[i].votes \in Votes /\ retros[i].got \in [Party -> Nat] /\ retros[i].total \in Nat
<1>1. retros \in Seq(RetroRound) /\ VotesCast /\ retros[i] \in RetroRound
  BY DEF RetrosInv
<1>2. VoteSound(retros[i])
  BY <1>1, VotesNow
<1> QED BY <1>1, <1>2, RetroFields DEF Votes
LEMMA SoundVotes ==
  ASSUME NEW r, VoteSound(r), NEW n, NEW paid, IsRetro(n, r, r.votes, r.got, r.total, paid)
  PROVE  VoteSound(n)
BY DEF VoteSound, IsRetro
LEMMA RetroKept ==
  ASSUME RetrosInv, wallet \in Wallets, NEW i \in DOMAIN retros, NEW n, NEW votes, NEW got, NEW total,
         IsRetro(n, retros[i], votes, got, total, retros[i].paid),
         retros' = [retros EXCEPT ![i] = n], wallet' = wallet
  PROVE  n \in RetroRound /\ RetroWritten(i, n)
<1> DEFINE paid == retros[i].paid
           x == 0
<1>1. retros \in Seq(RetroRound) /\ paid \in Int /\ retros[i].token \in Token
  BY RetroParts
<1>2. /\ IsRetro(n, retros[i], votes, got, total, paid) /\ paid = retros[i].paid - x /\ x \in Int
      /\ Gets(wallet, wallet', retros[i].token, x)
  BY <1>1, NothingPaid
<1> HIDE DEF paid, x
<1> QED BY <1>1, <1>2, RetroMoved

LEMMA RetroCreated ==
  ASSUME RetrosInv, wallet \in Wallets, NEW p \in Party, NEW t \in Token, NEW x \in Nat,
         NEW span \in Int \X Int, NEW c \in Weights, retro_create_round(p, t, x, span, c)
  PROVE  \E n \in RetroRound : RetroOpened(n) /\ VoteSound(n)
<1> DEFINE got == [q \in Party |-> 0]
           votes == [q \in Party |-> None]
           n == [admin |-> p, token |-> t, pool |-> x, start |-> span[1],
                 end |-> span[2], status |-> "Active", criteria |-> c, total |-> 0,
                 creators |-> {}, got |-> got, votes |-> votes, claimed |-> {}, paid |-> 0]
<1>1. retros' = Append(retros, n) /\ wallet' = Transfer(wallet, t, p, Jar, x)
  BY DEF retro_create_round, PerParty, Pay
<1>2. got \in [Party -> Nat] /\ (\A q \in Party : got[q] = 0) /\ votes \in Votes
      /\ (\A q \in Party : votes[q] = None) /\ span[1] \in Int /\ span[2] \in Int
  BY DEF Votes
<1> HIDE DEF got, votes
<1>3. n \in RetroRound /\ n.got = got /\ n.votes = votes /\ n.total = 0 /\ n.pool = x /\ n.paid = 0 /\ n.token = t
  BY <1>2 DEF RetroRound, Votes
<1> HIDE DEF n
<1>4. ASSUME NEW d \in Party PROVE Tally(votes)[d] = 0
  <2> DEFINE f == Ballots(votes, d)
  <2>1. f \in [Party -> Int] /\ \A v \in Party : f[v] = 0
    BY <1>2, BallotsType DEF Ballots
  <2>2. Tally(votes)[d] = SumFunction(f)
    BY DEF Tally
  <2> HIDE DEF f
  <2> QED BY <2>1, <2>2, LedgerAssumption, SumZero
<1>5. SumFunction(Tally(votes)) = 0
  <2> DEFINE f == Tally(votes)
  <2>1. f \in [Party -> Int] /\ \A v \in Party : f[v] = 0
    BY <1>2, <1>4, TallyType
  <2> HIDE DEF f
  <2>2. SumFunction(f) = 0
    BY <2>1, LedgerAssumption, SumZero
  <2> QED BY <2>2 DEF f
<1>6. VoteSound(n)
  BY <1>2, <1>3, <1>4, <1>5 DEF VoteSound
<1>7. Gets(wallet, wallet', t, x)
  BY <1>1, PaidIn
<1>8. ASSUME NEW u \in Token PROVE wallet'[u][Jar] = wallet[u][Jar] + RetroHolds(n, u)
  <2>1. wallet'[u][Jar] = wallet[u][Jar] + (IF u = t THEN x ELSE 0)
    BY <1>7 DEF Gets
  <2>2. RetroHolds(n, u) = IF u = t THEN x ELSE 0
    BY <1>3 DEF RetroHolds
  <2> QED BY <2>1, <2>2
<1>9. RetroOpened(n)
  BY <1>1, <1>3, <1>7, <1>8 DEF RetroOpened, Gets
<1> QED BY <1>3, <1>6, <1>9

LEMMA RetroNominates ==
  ASSUME RetrosInv, wallet \in Wallets, NEW p, NEW i \in DOMAIN retros, NEW c \in Party,
         retro_nominate_creator(p, i, c)
  PROVE  \E n \in RetroRound : RetroWritten(i, n) /\ VoteSound(n)
<1> DEFINE r == retros[i]
           s == r.creators \cup {c}
           n == Nominated(r, s)
<1>1. retros' = [retros EXCEPT ![i] = n] /\ wallet' = wallet
  BY DEF retro_nominate_creator, Nominated
<1>2. r \in RetroRound /\ VoteSound(r)
  BY RetroParts
<1>3. s \in SUBSET Party
  BY <1>2 DEF RetroRound
<1> HIDE DEF s
<1>4. IsRetro(n, r, r.votes, r.got, r.total, r.paid)
  BY <1>2, <1>3, RetroNominated
<1> HIDE DEF n
<1>5. VoteSound(n)
  BY <1>2, <1>4, SoundVotes
<1>6. n \in RetroRound /\ RetroWritten(i, n)
  BY <1>1, <1>4, RetroKept
<1> QED BY <1>5, <1>6

LEMMA RetroFinalizes ==
  ASSUME RetrosInv, wallet \in Wallets, NEW p, NEW i \in DOMAIN retros, retro_finalize_round(p, i)
  PROVE  \E n \in RetroRound : RetroWritten(i, n) /\ VoteSound(n)
<1> DEFINE r == retros[i]
           n == RetroEnded(r)
<1>1. retros' = [retros EXCEPT ![i] = n] /\ wallet' = wallet
  BY DEF retro_finalize_round, RetroEnded
<1>2. r \in RetroRound /\ VoteSound(r)
  BY RetroParts
<1>4. IsRetro(n, r, r.votes, r.got, r.total, r.paid)
  BY <1>2, RetroFinished
<1> HIDE DEF n
<1>5. VoteSound(n)
  BY <1>2, <1>4, SoundVotes
<1>6. n \in RetroRound /\ RetroWritten(i, n)
  BY <1>1, <1>4, RetroKept
<1> QED BY <1>5, <1>6

LEMMA RetroVotes ==
  ASSUME RetrosInv, wallet \in Wallets, books \in Books, NEW v \in Party, NEW i \in DOMAIN retros, NEW c \in Party,
         retro_cast_vote(v, i, c)
  PROVE  \E n \in RetroRound : RetroWritten(i, n) /\ VoteSound(n)
<1> DEFINE r == retros[i]
           w == Larger(isqrt(books.total[v][r.token]), 1)
           b == [creator |-> c, weight |-> w]
           x == r.got[c] + w
           y == r.total + w
           n == Voted(r, v, b, c, x, y)
<1>1. retros' = [retros EXCEPT ![i] = n] /\ wallet' = wallet /\ r.votes[v] = None
  BY DEF retro_cast_vote, Voted
<1>2. r \in RetroRound /\ VoteSound(r) /\ r.votes \in Votes /\ r.got \in [Party -> Nat] /\ r.total \in Nat
      /\ r.token \in Token
  BY RetroParts
<1> HIDE DEF r
<1>3. w \in Nat
  <2> DEFINE k == books.total[v][r.token]
  <2>1. k \in Int
    BY <1>2 DEF Books
  <2> HIDE DEF k
  <2>2. isqrt(k) \in Nat
    BY <2>1, RootType
  <2> DEFINE q == isqrt(k)
  <2> HIDE DEF q
  <2>3. Larger(q, 1) \in Nat
    BY <2>2 DEF Larger, q
  <2> QED BY <2>3 DEF q, k
<1> HIDE DEF w
<1>4. b \in Vote /\ b.creator = c /\ b.weight = w
  BY <1>3 DEF Vote
<1>5. x \in Nat /\ y \in Nat
  BY <1>2, <1>3
<1> HIDE DEF b, x, y
<1>6. IsRetro(n, r, [r.votes EXCEPT ![v] = b], [r.got EXCEPT ![c] = x], y, r.paid)
  BY <1>2, <1>4, <1>5, RetroVoted
<1> DEFINE new == [r.votes EXCEPT ![v] = b]
           got == [r.got EXCEPT ![c] = x]
           old == r.votes
<1> HIDE DEF n
<1>7. new \in Votes /\ TallyMoves(old, new, c, w)
  <2>1. old \in Votes /\ old[v] = None
    BY <1>1, <1>2
  <2>2. new = [old EXCEPT ![v] = b]
    OBVIOUS
  <2> HIDE DEF old, new
  <2>3. new \in Votes /\ TallyMoves(old, new, b.creator, b.weight)
    BY <1>4, <2>1, <2>2, VoteAdded
  <2> QED BY <1>4, <2>3
<1>8. SumFunction(Tally(new)) = SumFunction(Tally(old)) + w
  <2>1. old \in Votes /\ old[v] = None /\ b.creator \in Party
    BY <1>1, <1>2, <1>4
  <2>2. new = [old EXCEPT ![v] = b]
    OBVIOUS
  <2> HIDE DEF old, new
  <2>3. SumFunction(Tally(new)) = SumFunction(Tally(old)) + b.weight
    BY <1>4, <2>1, <2>2, TallyRaised
  <2> QED BY <1>4, <2>3
<1>9. n.votes = new /\ n.got = got /\ n.total = y
  BY <1>6 DEF IsRetro
<1>10. (\A d \in Party : r.got[d] = Tally(old)[d]) /\ r.total = SumFunction(Tally(old))
  BY <1>2 DEF VoteSound
<1>11. \A d \in Party : got[d] = IF d = c THEN r.got[c] + w ELSE r.got[d]
  BY <1>2 DEF x
<1> HIDE DEF new, got, old
<1>12. ASSUME NEW d \in Party PROVE got[d] = Tally(new)[d]
  <2>1. Tally(new)[d] = Tally(old)[d] + (IF d = c THEN w ELSE 0) /\ r.got[d] = Tally(old)[d] /\ r.got[d] \in Nat
    BY <1>2, <1>7, <1>10 DEF TallyMoves
  <2> QED BY <1>3, <1>11, <2>1
<1>13. VoteSound(n)
  <2>1. y = SumFunction(Tally(new))
    BY <1>8, <1>10 DEF y
  <2> QED BY <1>9, <1>12, <2>1 DEF VoteSound
<1>14. n \in RetroRound /\ RetroWritten(i, n)
  <2>1. IsRetro(n, retros[i], new, got, y, retros[i].paid)
    BY <1>6 DEF new, got, r
  <2> QED BY <1>1, <2>1, RetroKept
<1> QED BY <1>13, <1>14

LEMMA ScoreType ==
  ASSUME books \in Books, NEW r \in RetroRound, NEW c \in Party
  PROVE  compute_impact_score(r, c) \in Int
<1> DEFINE a == books.total[c][r.token]
           k == r.criteria
           g == r.got[c]
<1>1. a \in Int /\ k \in Weights /\ g \in Nat
  BY DEF RetroRound, Books
<1>2. k.tips \in Nat /\ k.votes \in Nat
  BY <1>1 DEF Weights
<1> DEFINE m == k.tips
           o == k.votes
           y == a * m
           z == g * VoteScale
           q == z * o
<1>3. compute_impact_score(r, c) = (y + q) \div Bps
  BY DEF compute_impact_score
<1> HIDE DEF a, k, g
<1>4. m \in Int /\ o \in Int
  BY <1>2
<1> HIDE DEF m, o
<1>5. y \in Int /\ z \in Int
  BY <1>1, <1>4, FundingAssumption, IntProduct
<1> HIDE DEF y, z
<1>6. q \in Int
  BY <1>4, <1>5, IntProduct
<1> HIDE DEF q
<1>7. y + q \in Int
  BY <1>5, <1>6
<1> DEFINE e == y + q
<1> HIDE DEF e
<1>8. e \div Bps \in Int
  BY <1>7, LedgerAssumption, Divided DEF e
<1> QED BY <1>3, <1>8 DEF e

LEMMA RetroClaims ==
  ASSUME RetrosInv, wallet \in Wallets, books \in Books, NEW c \in Party, NEW i \in DOMAIN retros,
         retro_claim_reward(c, i)
  PROVE  \E n \in RetroRound : RetroWritten(i, n) /\ VoteSound(n)
<1> DEFINE r == retros[i]
           scores == [d \in r.creators |-> compute_impact_score(r, d)]
           all == SumFunction(scores)
           x == (r.pool * compute_impact_score(r, c)) \div all
           s == r.claimed \cup {c}
           y == r.paid + x
           n == PaidTo(r, s, y)
<1>1. /\ retros' = [retros EXCEPT ![i] = n] /\ wallet' = Transfer(wallet, r.token, Jar, c, x)
      /\ all > 0
  BY DEF retro_claim_reward, PaidTo, Pay
<1>2. r \in RetroRound /\ VoteSound(r) /\ r.token \in Token /\ r.pool \in Nat /\ r.paid \in Int
  BY RetroParts
<1> HIDE DEF r
<1>3. r.creators \subseteq Party /\ r.claimed \in SUBSET Party
  BY <1>2 DEF RetroRound
<1>4. scores \in [r.creators -> Int]
  BY <1>2, <1>3, ScoreType
<1> HIDE DEF scores
<1>5. all \in Int
  <2>1. IsFiniteSet(r.creators)
    BY <1>3, LedgerAssumption, FS_Subset
  <2> QED BY <1>4, <2>1, SumType
<1> HIDE DEF all
<1>6. x \in Int
  <2> DEFINE k == compute_impact_score(r, c)
             z == r.pool * k
  <2>1. k \in Int
    BY <1>2, ScoreType
  <2> HIDE DEF k
  <2>2. z \in Int
    BY <1>2, <2>1, IntProduct
  <2> HIDE DEF z
  <2>3. all \in Nat \ {0}
    BY <1>1, <1>5
  <2>4. z \div all \in Int
    BY <2>2, <2>3, Divided
  <2> QED BY <2>4 DEF z, k
<1> HIDE DEF x
<1>7. s \in SUBSET Party /\ y \in Int
  BY <1>2, <1>3, <1>6
<1>8. IsRetro(n, r, r.votes, r.got, r.total, y)
  <2> HIDE DEF s, y
  <2> QED BY <1>2, <1>7, RetroRewarded
<1> HIDE DEF n
<1>9. VoteSound(n)
  <2> HIDE DEF y
  <2> QED BY <1>2, <1>8, SoundVotes
<1>10. n \in RetroRound /\ RetroWritten(i, n)
  <2> DEFINE e == -x
             votes == r.votes
             got == r.got
             total == r.total
  <2>1. /\ e \in Int /\ y = retros[i].paid - e /\ IsRetro(n, retros[i], votes, got, total, y)
        /\ Gets(wallet, wallet', retros[i].token, e)
    <3>1. Gets(wallet, wallet', r.token, -x)
      BY <1>1, <1>2, <1>6, PaidOutOf
    <3>2. -x \in Int /\ y = r.paid - (-x)
      BY <1>2, <1>6
    <3> QED BY <1>8, <3>1, <3>2 DEF r
  <2>2. retros \in Seq(RetroRound) /\ retros' = [retros EXCEPT ![i] = n]
    BY <1>1 DEF RetrosInv
  <2> HIDE DEF e, votes, got, total, y
  <2> QED BY <2>1, <2>2, RetroMoved
<1> QED BY <1>9, <1>10

LEMMA RetrosStep ==
  ASSUME RetrosInv, wallet \in Wallets, books \in Books, RetroNext
  PROVE  RetrosInv' /\ RetrosFollow
<1>a. Amounts \subseteq Nat /\ RetroTimes \subseteq Int \X Int /\ Criteria \subseteq Weights
  BY LedgerAssumption, FundingAssumption
<1> DEFINE G == {f \in RetroRound : VoteSound(f)}
<1>1. retros \in Seq(RetroRound) /\ G \in SUBSET RetroRound /\ \A j \in DOMAIN retros : retros[j] \in G
  BY VotesNow DEF RetrosInv
<1>2. CASE \E p \in Party, t \in Token, x \in Amounts, s \in RetroTimes, c \in Criteria :
             retro_create_round(p, t, x, s, c)
  <2>1. PICK n \in RetroRound : RetroOpened(n) /\ VoteSound(n)
    <3>1. PICK p \in Party, t \in Token, x \in Amounts, s \in RetroTimes, c \in Criteria :
             retro_create_round(p, t, x, s, c)
      BY <1>2, Zenon
    <3>2. x \in Nat /\ s \in Int \X Int /\ c \in Weights
      BY <1>a
    <3> QED BY <3>1, <3>2, RetroCreated
  <2>2. retros' \in Seq(RetroRound) /\ RetrosFollow
    BY <1>1, <2>1, RetrosChanged
  <2>3. n \in G /\ retros' = Append(retros, n)
    BY <2>1 DEF RetroOpened
  <2> HIDE DEF G
  <2>4. \A j \in DOMAIN retros' : retros'[j] \in G
    BY <1>1, <2>3, EachExtended
  <2> QED BY <2>2, <2>4, VotesNext DEF RetrosInv, G
<1>3. ASSUME NEW p \in Party, NEW i \in DOMAIN retros,
             \/ \E c \in Party : retro_nominate_creator(p, i, c) \/ retro_cast_vote(p, i, c)
             \/ retro_finalize_round(p, i) \/ retro_claim_reward(p, i)
      PROVE  RetrosInv' /\ RetrosFollow
  <2>1. PICK n \in RetroRound : RetroWritten(i, n) /\ VoteSound(n)
    <3>1. CASE \E c \in Party : retro_nominate_creator(p, i, c)
      BY <3>1, RetroNominates
    <3>2. CASE \E c \in Party : retro_cast_vote(p, i, c)
      BY <3>2, RetroVotes
    <3>3. CASE retro_finalize_round(p, i)
      BY <3>3, RetroFinalizes
    <3>4. CASE retro_claim_reward(p, i)
      BY <3>4, RetroClaims
    <3> QED BY <1>3, <3>1, <3>2, <3>3, <3>4, Zenon
  <2>2. retros' \in Seq(RetroRound) /\ RetrosFollow
    BY <1>1, <2>1, RetrosChanged
  <2>3. n \in G /\ retros' = [retros EXCEPT ![i] = n]
    BY <2>1 DEF RetroWritten
  <2> HIDE DEF G
  <2>4. \A j \in DOMAIN retros' : retros'[j] \in G
    BY <1>1, <2>3, EachWritten
  <2> QED BY <2>2, <2>4, VotesNext DEF RetrosInv, G
<1> QED BY <1>2, <1>3, Zenon DEF RetroNext

-----------------------------------------------------------------------------
(* Liquidity mining *)

\* What the jar holds for the programs follows what is paid.
ProgramBook(t) == [m \in Program |-> ProgramHolds(m, t)]
MiningFollow ==
  /\ wallet' \in Wallets
  /\ \A t \in Token : /\ MiningHoldings(t) \in Int /\ MiningHoldings(t)' \in Int
                      /\ wallet'[t][Jar] = wallet[t][Jar] + MiningHoldings(t)' - MiningHoldings(t)
ProgramPaid(m, n) ==
  \A t \in Token : wallet'[t][Jar] = wallet[t][Jar] + ProgramHolds(n, t) - ProgramHolds(m, t)
ProgramWritten(i, n) ==
  /\ programs' = [programs EXCEPT ![i] = n]
  /\ wallet' \in Wallets /\ n \in Program /\ ProgramPaid(programs[i], n)
ProgramOpened(n) ==
  /\ programs' = Append(programs, n)
  /\ wallet' \in Wallets /\ n \in Program
  /\ \A t \in Token : wallet'[t][Jar] = wallet[t][Jar] + ProgramHolds(n, t)

LEMMA ProgramFields ==
  ASSUME NEW m \in Program
  PROVE  /\ m.lp \in Token /\ m.reward \in Token /\ m.rewards \in Nat /\ m.paid \in Nat /\ m.staked \in Nat
BY DEF Program
LEMMA ProgramBookType ==
  ASSUME NEW t \in Token
  PROVE  ProgramBook(t) \in [Program -> Int]
<1>1. ASSUME NEW m \in Program PROVE ProgramHolds(m, t) \in Int
  BY ProgramFields DEF ProgramHolds
<1> QED BY <1>1 DEF ProgramBook
LEMMA MiningWorth ==
  ASSUME programs \in Seq(Program), NEW t \in Token
  PROVE  MiningHoldings(t) = Worth(programs, ProgramBook(t))
<1>1. \A i \in DOMAIN programs : ProgramBook(t)[programs[i]] = ProgramHolds(programs[i], t)
  BY DEF ProgramBook
<1>2. [i \in DOMAIN programs |-> ProgramHolds(programs[i], t)] = [i \in DOMAIN programs |-> ProgramBook(t)[programs[i]]]
  BY <1>1
<1> QED BY <1>2 DEF MiningHoldings, Worth
LEMMA MiningWorthNext ==
  ASSUME programs' \in Seq(Program), NEW t \in Token
  PROVE  MiningHoldings(t)' = Worth(programs', ProgramBook(t))
<1>1. \A i \in DOMAIN programs' : ProgramBook(t)[programs'[i]] = ProgramHolds(programs'[i], t)
  BY DEF ProgramBook
<1>2. [i \in DOMAIN programs' |-> ProgramHolds(programs'[i], t)]
        = [i \in DOMAIN programs' |-> ProgramBook(t)[programs'[i]]]
  BY <1>1
<1> QED BY <1>2 DEF MiningHoldings, ProgramHolds, Worth

LEMMA MiningChanged ==
  ASSUME programs \in Seq(Program), wallet \in Wallets, NEW n \in Program, NEW i,
         (i \in DOMAIN programs /\ ProgramWritten(i, n)) \/ ProgramOpened(n)
  PROVE  programs' \in Seq(Program) /\ MiningFollow
<1>1. programs' \in Seq(Program)
  BY SeqUpdated, SeqAppended DEF ProgramWritten, ProgramOpened
<1>2. ASSUME NEW t \in Token
      PROVE  /\ MiningHoldings(t) \in Int /\ MiningHoldings(t)' \in Int
             /\ wallet'[t][Jar] = wallet[t][Jar] + MiningHoldings(t)' - MiningHoldings(t)
  <2> DEFINE H == ProgramBook(t)
  <2>1. MiningHoldings(t) = Worth(programs, H) /\ MiningHoldings(t)' = Worth(programs', H)
    BY <1>1, MiningWorth, MiningWorthNext
  <2>2. /\ H \in [Program -> Int] /\ H[n] = ProgramHolds(n, t)
        /\ \A j \in DOMAIN programs : H[programs[j]] = ProgramHolds(programs[j], t)
    BY ProgramBookType DEF ProgramBook
  <2>3. wallet[t][Jar] \in Int
    BY JarsAccount
  <2> HIDE DEF H
  <2>4. Earns(wallet[t][Jar], wallet'[t][Jar], programs, programs', H)
    <3>1. CASE i \in DOMAIN programs /\ ProgramWritten(i, n)
      <4>1. /\ i \in DOMAIN programs /\ programs' = [programs EXCEPT ![i] = n]
            /\ wallet'[t][Jar] = wallet[t][Jar] + H[n] - H[programs[i]]
        BY <2>2, <3>1 DEF ProgramWritten, ProgramPaid
      <4> QED BY <2>2, <2>3, <4>1, ListWritten
    <3>2. CASE ProgramOpened(n)
      <4>1. programs' = Append(programs, n) /\ wallet'[t][Jar] = wallet[t][Jar] + H[n]
        BY <2>2, <3>2 DEF ProgramOpened
      <4> QED BY <2>2, <2>3, <4>1, ListExtended
    <3> QED BY <3>1, <3>2
  <2> QED BY <2>1, <2>4 DEF Earns
<1>3. wallet' \in Wallets
  BY DEF ProgramWritten, ProgramOpened
<1> QED BY <1>1, <1>2, <1>3 DEF MiningFollow

\* Programs and positions after a call.
IsProgram(n, g, staked, paid) ==
  /\ n \in Program /\ n.terms = g.terms /\ n.lp = g.lp /\ n.reward = g.reward /\ n.rewards = g.rewards
  /\ n.staked = staked /\ n.paid = paid
WithStaked(g, x) == [g EXCEPT !.staked = x]
WithPaid(g, x) == [g EXCEPT !.paid = x]
Inactive(g) == [g EXCEPT !.active = FALSE]
LEMMA ProgramStaked ==
  ASSUME NEW g \in Program, NEW x \in Nat
  PROVE  IsProgram(WithStaked(g, x), g, x, g.paid)
BY DEF Program, WithStaked, IsProgram
LEMMA ProgramRewarded ==
  ASSUME NEW g \in Program, NEW x \in Nat
  PROVE  IsProgram(WithPaid(g, x), g, g.staked, x)
BY DEF Program, WithPaid, IsProgram
LEMMA ProgramInactive ==
  ASSUME NEW g \in Program
  PROVE  IsProgram(Inactive(g), g, g.staked, g.paid)
BY DEF Program, Inactive, IsProgram
IsPosition(n, s, staked, claimed, earned) ==
  /\ n \in Position /\ n.entry = s.entry /\ n.staked = staked /\ n.claimed = claimed /\ n.earned = earned
Earned(s, x, y) == [s EXCEPT !.earned = x, !.updated = y]
Restaked(s, x) == [s EXCEPT !.staked = x]
Reclaimed(s, x) == [s EXCEPT !.claimed = x]
Boosted(s, x, y) == [s EXCEPT !.boost = x, !.locked = y]
LEMMA PositionEarned ==
  ASSUME NEW s \in Position, NEW x \in Nat, NEW y \in Int
  PROVE  IsPosition(Earned(s, x, y), s, s.staked, s.claimed, x)
BY DEF Position, Earned, IsPosition
LEMMA PositionRestaked ==
  ASSUME NEW s \in Position, NEW x \in Nat
  PROVE  IsPosition(Restaked(s, x), s, x, s.claimed, s.earned)
BY DEF Position, Restaked, IsPosition
LEMMA PositionReclaimed ==
  ASSUME NEW s \in Position, NEW x \in Nat
  PROVE  IsPosition(Reclaimed(s, x), s, s.staked, x, s.earned)
BY DEF Position, Reclaimed, IsPosition
LEMMA PositionBoosted ==
  ASSUME NEW s \in Position, NEW x \in Nat, NEW y \in Int
  PROVE  IsPosition(Boosted(s, x, y), s, s.staked, s.claimed, s.earned)
BY DEF Position, Boosted, IsPosition
LEMMA PositionSame ==
  ASSUME NEW s \in Position
  PROVE  IsPosition(s, s, s.staked, s.claimed, s.earned)
BY DEF IsPosition

-----------------------------------------------------------------------------
\* What has vested of an amount after some time only grows with both.
LEMMA QuotientOrder ==
  ASSUME NEW a \in Nat, NEW b \in Nat, NEW u \in Nat \ {0}, a <= b
  PROVE  a \div u <= b \div u
<1> DEFINE q == a \div u
           r == b \div u
<1>1. q \in Nat /\ r \in Nat /\ u * q <= a /\ b < u * r + u
  OBVIOUS
<1> HIDE DEF q, r
<1> SUFFICES ASSUME q > r PROVE FALSE
  BY <1>1 DEF q, r
<1>2. q - r - 1 \in Nat
  BY <1>1
<1> DEFINE d == q - r - 1
<1>3. q = r + 1 + d /\ d \in Nat
  BY <1>1, <1>2
<1> HIDE DEF d
<1>4. u * q = u * r + u + u * d /\ u * d \in Nat /\ u * r \in Nat
  BY <1>1, <1>3
<1> QED BY <1>1, <1>4
PartVested(passed, span) == IF passed >= span THEN BoostUnit ELSE (passed * BoostUnit) \div span
LEMMA PartType ==
  ASSUME NEW a \in Nat, NEW span \in Nat
  PROVE  PartVested(a, span) \in Nat /\ PartVested(a, span) <= BoostUnit
<1>b. BoostUnit \in Nat
  BY MiningAssumption
<1>1. CASE a >= span
  BY <1>1, <1>b DEF PartVested
<1>2. CASE a < span
  <2> DEFINE x == a * BoostUnit
             y == span * BoostUnit
             q == x \div span
  <2>1. x \in Nat /\ span \in Nat \ {0}
    BY <1>2, <1>b, Product
  <2>2. q \in Nat /\ span * q <= x
    <3> HIDE DEF x
    <3> QED BY <2>1, Portion
  <2>3. x <= y /\ y \in Nat
    BY <1>2, <1>b, ProductOrder, Product
  <2>4. PartVested(a, span) = q
    BY <1>2 DEF PartVested
  <2> HIDE DEF x, q
  <2>5. span * q <= y
    <3> HIDE DEF y
    <3>1. span * q \in Int
      BY <2>1, <2>2
    <3> QED BY <2>1, <2>2, <2>3, <3>1
  <2>6. q <= BoostUnit
    BY <1>b, <2>1, <2>2, <2>5, CancelFactor
  <2> QED BY <2>2, <2>4, <2>6
<1> QED BY <1>1, <1>2
LEMMA PartOrder ==
  ASSUME NEW a \in Nat, NEW b \in Nat, NEW span \in Nat, a <= b
  PROVE  PartVested(a, span) <= PartVested(b, span)
<1>b. BoostUnit \in Nat
  BY MiningAssumption
<1>1. CASE b >= span
  BY <1>1, <1>b, PartType DEF PartVested
<1>2. CASE b < span
  <2> DEFINE x == a * BoostUnit
             y == b * BoostUnit
  <2>1. x \in Nat /\ y \in Nat /\ x <= y /\ span \in Nat \ {0}
    BY <1>2, <1>b, ProductOrder, Product
  <2>2. PartVested(a, span) = x \div span /\ PartVested(b, span) = y \div span
    BY <1>2 DEF PartVested
  <2> HIDE DEF x, y
  <2> QED BY <2>1, <2>2, QuotientOrder
<1> QED BY <1>1, <1>2
VestedOf(passed, span, earned) ==
  IF passed < 0 THEN 0 ELSE (earned * PartVested(passed, span)) \div BoostUnit
LEMMA VestedOrder ==
  ASSUME NEW a \in Int, NEW b \in Int, NEW span \in Nat, NEW e \in Nat, NEW f \in Nat, a <= b, e <= f
  PROVE  VestedOf(a, span, e) \in Nat /\ VestedOf(b, span, f) \in Nat
         /\ VestedOf(a, span, e) <= VestedOf(b, span, f)
<1>b. BoostUnit \in Nat \ {0}
  BY MiningAssumption
<1> DEFINE P == PartVested(a, span)
           Q == PartVested(b, span)
           x == e * P
           y == f * Q
<1>1. a >= 0 => P \in Nat /\ x \in Nat
  BY PartType, Product
<1>2. b >= 0 => Q \in Nat /\ y \in Nat
  BY PartType, Product
<1>3. a >= 0 => x <= y
  <2> SUFFICES ASSUME a >= 0 PROVE x <= y
    OBVIOUS
  <2>0. a \in Nat /\ b \in Nat
    OBVIOUS
  <2>1. P \in Nat /\ Q \in Nat /\ P <= Q
    BY <2>0, PartType, PartOrder
  <2> HIDE DEF P, Q
  <2> QED BY <2>1, ProductOrder
<1>4. /\ VestedOf(a, span, e) = IF a < 0 THEN 0 ELSE x \div BoostUnit
      /\ VestedOf(b, span, f) = IF b < 0 THEN 0 ELSE y \div BoostUnit
  BY DEF VestedOf
<1> HIDE DEF P, Q, x, y
<1>5. CASE a >= 0
  <2>1. x \in Nat /\ y \in Nat /\ x <= y
    BY <1>1, <1>2, <1>3, <1>5
  <2>2. x \div BoostUnit \in Nat /\ y \div BoostUnit \in Nat /\ x \div BoostUnit <= y \div BoostUnit
    BY <1>b, <2>1, Portion, QuotientOrder
  <2> QED BY <1>4, <1>5, <2>2
<1>6. CASE a < 0 /\ b >= 0
  <2>1. y \div BoostUnit \in Nat
    BY <1>b, <1>2, <1>6, Portion
  <2> QED BY <1>4, <1>6, <2>1
<1>7. CASE a < 0 /\ b < 0
  BY <1>4, <1>7
<1> QED BY <1>5, <1>6, <1>7

\* The same of a position, at a time.
VestedAt(k, g, s) == VestedOf(k - s.entry - g.terms.cliff, g.terms.duration - g.terms.cliff, s.earned)
LEMMA VestedNow ==
  ASSUME NEW g, NEW s
  PROVE  Vested(g, s) = VestedAt(now, g, s)
BY DEF Vested, VestedAt, VestedOf, PartVested
ProgramTimed(g) == g \in Program /\ g.terms.cliff <= g.terms.duration
LEMMA TermsOf ==
  ASSUME NEW g, ProgramTimed(g)
  PROVE  /\ g.terms.cliff \in Nat /\ g.terms.duration \in Nat /\ g.terms.duration - g.terms.cliff \in Nat
         /\ g.terms.rate \in Nat /\ g.terms.end \in Nat
<1> DEFINE k == g.terms
<1>1. k \in ProgramTerms /\ k.cliff <= k.duration
  BY DEF Program, ProgramTimed
<1> HIDE DEF k
<1>2. k.cliff \in Nat /\ k.duration \in Nat /\ k.rate \in Nat /\ k.end \in Nat
  BY <1>1 DEF ProgramTerms
<1>3. k.duration - k.cliff \in Nat
  BY <1>1, <1>2
<1> QED BY <1>2, <1>3 DEF k
\* What a position may have vested grows with time and with what it earned.
LEMMA VestingGrows ==
  ASSUME NEW g, ProgramTimed(g), NEW j \in Int, NEW k \in Int, j <= k, NEW s \in Position, NEW n \in Position,
         n.entry = s.entry, s.earned <= n.earned
  PROVE  VestedAt(j, g, s) \in Nat /\ VestedAt(k, g, n) \in Nat /\ VestedAt(j, g, s) <= VestedAt(k, g, n)
<1> DEFINE c == g.terms.cliff
           d == g.terms.duration - g.terms.cliff
           e == s.entry
           a == j - e - c
           b == k - e - c
<1>1. c \in Nat /\ d \in Nat
  BY TermsOf
<1>2. e \in Int /\ s.earned \in Nat /\ n.earned \in Nat
  BY DEF Position
<1>3. VestedAt(j, g, s) = VestedOf(a, d, s.earned) /\ VestedAt(k, g, n) = VestedOf(b, d, n.earned)
  BY DEF VestedAt
<1> HIDE DEF c, d, e
<1>4. a \in Int /\ b \in Int /\ a <= b
  BY <1>1, <1>2
<1> HIDE DEF a, b
<1> DEFINE x == s.earned
           y == n.earned
<1>5. x \in Nat /\ y \in Nat /\ x <= y
  BY <1>2
<1> HIDE DEF x, y
<1>6. VestedOf(a, d, x) \in Nat /\ VestedOf(b, d, y) \in Nat /\ VestedOf(a, d, x) <= VestedOf(b, d, y)
  BY <1>1, <1>4, <1>5, VestedOrder
<1> QED BY <1>3, <1>6 DEF x, y

LEMMA Accrued ==
  ASSUME NEW g, ProgramTimed(g), now \in Int, NEW s \in Position
  PROVE  \E x \in Nat : IsPosition(accrue(g, s), s, s.staked, s.claimed, x) /\ s.earned <= x
<1> DEFINE end == g.terms.end
           rate == g.terms.rate
           until == IF end > 0 /\ now > end THEN end ELSE now
           t == until - s.updated
           a == s.staked * rate
           b == a * t
           v == Bps * Year
           r == b \div v
           c == r * s.boost
           q == c \div BoostUnit
           x == s.earned + q
<1>1. s.staked \in Nat /\ s.updated \in Int /\ s.boost \in Nat /\ s.earned \in Nat
  BY DEF Position
<1>2. end \in Nat /\ rate \in Nat
  BY TermsOf
<1>3. accrue(g, s) = IF until <= s.updated THEN s ELSE Earned(s, x, until)
  BY DEF accrue, compute_rewards, Earned
<1> HIDE DEF end, rate
<1>4. until \in Int
  BY <1>2
<1> HIDE DEF until
<1>5. CASE until <= s.updated
  BY <1>1, <1>3, <1>5, PositionSame
<1>6. CASE until > s.updated
  <2>1. t \in Nat
    BY <1>1, <1>4, <1>6
  <2> HIDE DEF t
  <2>2. a \in Nat /\ v \in Nat \ {0}
    <3>1. a \in Nat
      BY <1>1, <1>2, Product
    <3>2. Bps \in Nat \ {0} /\ Year \in Nat \ {0}
      BY LedgerAssumption, MiningAssumption
    <3>3. v \in Nat \ {0}
      BY <3>2
    <3> QED BY <3>1, <3>3
  <2> HIDE DEF a, v
  <2>3. b \in Nat
    BY <2>1, <2>2, Product
  <2> HIDE DEF b
  <2>4. r \in Nat
    BY <2>2, <2>3, Portion
  <2> HIDE DEF r
  <2>5. c \in Nat
    BY <1>1, <2>4, Product
  <2> HIDE DEF c
  <2>6. q \in Nat
    BY <2>5, MiningAssumption, Portion
  <2> HIDE DEF q
  <2>7. x \in Nat /\ s.earned <= x
    BY <1>1, <2>6
  <2> HIDE DEF x
  <2>8. accrue(g, s) = Earned(s, x, until)
    BY <1>1, <1>3, <1>4, <1>6
  <2>9. IsPosition(Earned(s, x, until), s, s.staked, s.claimed, x)
    BY <1>4, <2>7, PositionEarned
  <2> QED BY <2>7, <2>8, <2>9
<1> QED BY <1>1, <1>4, <1>5, <1>6

-----------------------------------------------------------------------------
\* The books of a program are those of its positions.
Places == [Party -> Position \cup {None}]
Staking(s) == [p \in Party |-> StakeOf(s[p])]
Claiming(s) == [p \in Party |-> ClaimOf(s[p])]
SoundAt(k, g, s) ==
  /\ \A p \in Party : s[p] # None => s[p].claimed <= VestedAt(k, g, s[p])
  /\ g.staked = SumFunction(Staking(s))
  /\ g.paid = SumFunction(Claiming(s))
  /\ g.paid <= g.rewards
  /\ g.terms.cliff <= g.terms.duration
LEMMA SoundNow ==
  ASSUME NEW g, NEW s
  PROVE  ProgramSound(g, s) <=> SoundAt(now, g, s)
BY VestedNow DEF ProgramSound, SoundAt, Staking, Claiming
LEMMA MiningNow ==
  MiningInv <=> /\ programs \in Seq(Program) /\ positions \in Seq(Places) /\ Len(programs) = Len(positions)
                /\ \A i \in DOMAIN programs : SoundAt(now, programs[i], positions[i])
BY SoundNow DEF MiningInv, Places
LEMMA MiningLater ==
  MiningInv' <=> /\ programs' \in Seq(Program) /\ positions' \in Seq(Places) /\ Len(programs') = Len(positions')
                 /\ \A i \in DOMAIN programs' : SoundAt(now', programs'[i], positions'[i])
<1>1. ASSUME NEW i PROVE ProgramSound(programs[i], positions[i])' <=> SoundAt(now', programs'[i], positions'[i])
  <2>1. \A p \in Party : Vested(programs[i], positions[i][p])' = VestedAt(now', programs'[i], positions'[i][p])
    BY DEF Vested, VestedAt, VestedOf, PartVested
  <2> QED BY <2>1 DEF ProgramSound, SoundAt, Staking, Claiming, StakeOf, ClaimOf
<1> QED BY <1>1 DEF MiningInv, Places

LEMMA PlaceOf ==
  ASSUME NEW s \in Places, NEW p \in Party
  PROVE  /\ StakeOf(s[p]) \in Nat /\ ClaimOf(s[p]) \in Nat
         /\ s[p] # None => s[p] \in Position /\ StakeOf(s[p]) = s[p].staked /\ ClaimOf(s[p]) = s[p].claimed
<1>1. CASE s[p] = None
  BY <1>1 DEF StakeOf, ClaimOf
<1>2. CASE s[p] # None
  <2>1. s[p] \in Position
    BY <1>2 DEF Places
  <2>2. s[p].staked \in Nat /\ s[p].claimed \in Nat
    BY <2>1 DEF Position
  <2> QED BY <1>2, <2>1, <2>2 DEF StakeOf, ClaimOf
<1> QED BY <1>1, <1>2
LEMMA PlacesType ==
  ASSUME NEW s \in Places
  PROVE  /\ Staking(s) \in [Party -> Nat] /\ Staking(s) \in [Party -> Int]
         /\ Claiming(s) \in [Party -> Nat] /\ Claiming(s) \in [Party -> Int]
         /\ IsFiniteSet(Party)
BY PlaceOf, LedgerAssumption DEF Staking, Claiming
PositionSums(s, z, a, b) ==
  /\ z \in Places
  /\ SumFunction(Staking(z)) \in Nat /\ SumFunction(Claiming(z)) \in Nat
  /\ SumFunction(Staking(z)) = SumFunction(Staking(s)) + a
  /\ SumFunction(Claiming(z)) = SumFunction(Claiming(s)) + b
LEMMA PositionChanged ==
  ASSUME NEW s \in Places, NEW p \in Party, NEW e \in Position, NEW z, z = [s EXCEPT ![p] = e],
         NEW a \in Int, NEW b \in Int, e.staked = StakeOf(s[p]) + a, e.claimed = ClaimOf(s[p]) + b
  PROVE  PositionSums(s, z, a, b)
<1>e. e # None
  BY MiningAssumption
<1>1. z \in Places /\ \A q \in Party : z[q] = IF q = p THEN e ELSE s[q]
  BY DEF Places
<1>2. StakeOf(z[p]) = StakeOf(s[p]) + a /\ ClaimOf(z[p]) = ClaimOf(s[p]) + b
  BY <1>1, <1>e DEF StakeOf, ClaimOf
<1>3. StakeOf(s[p]) \in Nat /\ ClaimOf(s[p]) \in Nat
  BY PlaceOf
<1> DEFINE f == Staking(s)
           g == Staking(z)
           h == Claiming(s)
           k == Claiming(z)
<1>4. /\ f \in [Party -> Int] /\ g \in [Party -> Int] /\ h \in [Party -> Int] /\ k \in [Party -> Int]
      /\ g \in [Party -> Nat] /\ k \in [Party -> Nat] /\ IsFiniteSet(Party)
  BY <1>1, PlacesType
<1>5. \A q \in Party \ {p} : g[q] = f[q] /\ k[q] = h[q]
  BY <1>1 DEF Staking, Claiming
<1>6. g[p] = f[p] + a /\ k[p] = h[p] + b /\ f[p] \in Nat /\ h[p] \in Nat
  BY <1>2, <1>3 DEF Staking, Claiming
<1> HIDE DEF f, g, h, k
<1>7. SumFunction(g) = SumFunction(f) + g[p] - f[p] /\ SumFunction(f) \in Int /\ SumFunction(g) \in Nat
  BY <1>4, <1>5, SumUpdate, SumType, SumNat
<1>8. SumFunction(k) = SumFunction(h) + k[p] - h[p] /\ SumFunction(h) \in Int /\ SumFunction(k) \in Nat
  BY <1>4, <1>5, SumUpdate, SumType, SumNat
<1>9. SumFunction(g) = SumFunction(f) + a /\ SumFunction(k) = SumFunction(h) + b
  BY <1>6, <1>7, <1>8
<1> QED BY <1>1, <1>7, <1>8, <1>9 DEF PositionSums, f, g, h, k

\* The program and one of its positions change together.
LEMMA SoundAfter ==
  ASSUME NEW t, NEW g \in Program, NEW s \in Places, SoundAt(t, g, s), NEW p \in Party, NEW e \in Position,
         NEW z, z = [s EXCEPT ![p] = e], NEW a \in Int, NEW b \in Int, PositionSums(s, z, a, b),
         NEW n, NEW staked, NEW paid, IsProgram(n, g, staked, paid), staked = g.staked + a, paid = g.paid + b,
         paid <= g.rewards, e.claimed <= VestedAt(t, g, e)
  PROVE  SoundAt(t, n, z) /\ z \in Places
<1>1. z \in Places /\ \A q \in Party : z[q] = IF q = p THEN e ELSE s[q]
  BY DEF Places
<1>2. n.terms = g.terms /\ n.staked = g.staked + a /\ n.paid = g.paid + b /\ n.rewards = g.rewards
  BY DEF IsProgram
<1>3. ASSUME NEW q \in Party, z[q] # None PROVE z[q].claimed <= VestedAt(t, n, z[q])
  <2>1. VestedAt(t, n, z[q]) = VestedAt(t, g, z[q])
    BY <1>2 DEF VestedAt
  <2>2. CASE q = p
    BY <1>1, <2>1, <2>2
  <2>3. CASE q # p
    BY <1>1, <1>3, <2>1, <2>3 DEF SoundAt
  <2> QED BY <2>2, <2>3
<1>4. n.staked = SumFunction(Staking(z)) /\ n.paid = SumFunction(Claiming(z))
  BY <1>2 DEF SoundAt, PositionSums
<1>5. n.paid <= n.rewards /\ n.terms.cliff <= n.terms.duration
  BY <1>2 DEF SoundAt
<1> QED BY <1>1, <1>3, <1>4, <1>5 DEF SoundAt

\* What a call leaves of a program and its positions.
MineStays(i, n, z) ==
  /\ positions' = [positions EXCEPT ![i] = z] /\ z \in Places /\ SoundAt(now, n, z)
IsMine(i, n, z) == n \in Program /\ ProgramWritten(i, n) /\ MineStays(i, n, z)
LEMMA MineParts ==
  ASSUME MiningInv, NEW i \in DOMAIN programs
  PROVE  /\ programs \in Seq(Program) /\ positions \in Seq(Places) /\ i \in DOMAIN positions
         /\ programs[i] \in Program /\ positions[i] \in Places /\ SoundAt(now, programs[i], positions[i])
         /\ ProgramTimed(programs[i])
<1>1. /\ programs \in Seq(Program) /\ positions \in Seq(Places) /\ Len(programs) = Len(positions)
      /\ SoundAt(now, programs[i], positions[i])
  BY MiningNow
<1>2. i \in DOMAIN positions
  BY <1>1
<1>3. programs[i] \in Program /\ positions[i] \in Places
  BY <1>1, <1>2
<1> QED BY <1>1, <1>2, <1>3 DEF SoundAt, ProgramTimed

LEMMA ProgramMoved ==
  ASSUME wallet \in Wallets, NEW g \in Program, NEW n, NEW a \in Int, NEW b \in Int, NEW staked, NEW paid,
         IsProgram(n, g, staked, paid), staked = g.staked + a, paid = g.paid + b,
         \/ b = 0 /\ Gets(wallet, wallet', g.lp, a)
         \/ a = 0 /\ Gets(wallet, wallet', g.reward, -b)
  PROVE  ProgramPaid(g, n) /\ wallet' \in Wallets
<1> DEFINE x == g.staked
           y == g.rewards - g.paid
<1>1. x \in Int /\ y \in Int /\ g.rewards \in Nat /\ g.paid \in Nat
  BY ProgramFields
<1>2. n.lp = g.lp /\ n.reward = g.reward /\ n.staked = x + a /\ n.rewards - n.paid = y - b
  BY <1>1 DEF IsProgram
<1>3. ASSUME NEW t \in Token
      PROVE  wallet'[t][Jar] = wallet[t][Jar] + ProgramHolds(n, t) - ProgramHolds(g, t)
  <2>1. /\ ProgramHolds(n, t) = (IF g.lp = t THEN x + a ELSE 0) + (IF g.reward = t THEN y - b ELSE 0)
        /\ ProgramHolds(g, t) = (IF g.lp = t THEN x ELSE 0) + (IF g.reward = t THEN y ELSE 0)
    BY <1>2 DEF ProgramHolds
  <2>2. \/ b = 0 /\ wallet'[t][Jar] = wallet[t][Jar] + (IF t = g.lp THEN a ELSE 0)
        \/ a = 0 /\ wallet'[t][Jar] = wallet[t][Jar] + (IF t = g.reward THEN -b ELSE 0)
    BY DEF Gets
  <2>3. wallet[t][Jar] \in Int
    BY JarsAccount
  <2> DEFINE w == wallet[t][Jar]
             v == wallet'[t][Jar]
  <2> HIDE DEF x, y, w, v
  <2>4. v = w + ProgramHolds(n, t) - ProgramHolds(g, t)
    BY <1>1, <2>1, <2>2, <2>3 DEF w, v
  <2> QED BY <2>4 DEF w, v
<1> QED BY <1>3 DEF ProgramPaid, Gets

-----------------------------------------------------------------------------
\* A program and one of its positions are written together.
LEMMA MineWritten ==
  ASSUME MiningInv, wallet \in Wallets, NEW i \in DOMAIN programs, NEW p \in Party, NEW e \in Position,
         NEW a \in Int, NEW b \in Int, NEW n, NEW staked, NEW paid, IsProgram(n, programs[i], staked, paid),
         staked = programs[i].staked + a, paid = programs[i].paid + b, paid <= programs[i].rewards,
         PositionSums(positions[i], [positions[i] EXCEPT ![p] = e], a, b),
         e.claimed <= VestedAt(now, programs[i], e),
         programs' = [programs EXCEPT ![i] = n],
         positions' = [positions EXCEPT ![i] = [positions[i] EXCEPT ![p] = e]],
         \/ b = 0 /\ Gets(wallet, wallet', programs[i].lp, a)
         \/ a = 0 /\ Gets(wallet, wallet', programs[i].reward, -b)
  PROVE  \E z : IsMine(i, n, z)
<1> DEFINE g == programs[i]
           s == positions[i]
           z == [s EXCEPT ![p] = e]
<1>1. g \in Program /\ s \in Places /\ SoundAt(now, g, s)
  BY MineParts
<1>2. PositionSums(s, z, a, b) /\ z = [s EXCEPT ![p] = e]
  OBVIOUS
<1>3. positions' = [positions EXCEPT ![i] = z]
  OBVIOUS
<1>4. /\ IsProgram(n, g, staked, paid) /\ staked = g.staked + a /\ paid = g.paid + b /\ paid <= g.rewards
      /\ e.claimed <= VestedAt(now, g, e)
      /\ \/ b = 0 /\ Gets(wallet, wallet', g.lp, a)
         \/ a = 0 /\ Gets(wallet, wallet', g.reward, -b)
  OBVIOUS
<1> HIDE DEF z, s
<1>5. SoundAt(now, n, z) /\ z \in Places
  <2> HIDE DEF g
  <2> QED BY <1>1, <1>2, <1>4, SoundAfter
<1>6. ProgramPaid(g, n) /\ wallet' \in Wallets
  <2> HIDE DEF g
  <2> QED BY <1>1, <1>4, ProgramMoved
<1>7. n \in Program
  BY <1>4 DEF IsProgram
<1> QED BY <1>3, <1>5, <1>6, <1>7 DEF IsMine, MineStays, ProgramWritten, g

LEMMA SumsOf ==
  ASSUME MiningInv, NEW i \in DOMAIN programs
  PROVE  /\ programs[i].staked = SumFunction(Staking(positions[i])) /\ programs[i].paid = SumFunction(Claiming(positions[i]))
         /\ programs[i].staked \in Nat /\ programs[i].paid \in Nat /\ programs[i].rewards \in Nat
         /\ programs[i].paid <= programs[i].rewards
         /\ programs[i].lp \in Token /\ programs[i].reward \in Token
BY MineParts, ProgramFields DEF SoundAt

LEMMA StakeMoved ==
  ASSUME MiningInv, wallet \in Wallets, NEW i \in DOMAIN programs, NEW p \in Party, NEW e \in Position,
         NEW a \in Int, e.staked = StakeOf(positions[i][p]) + a, e.claimed = ClaimOf(positions[i][p]),
         e.claimed <= VestedAt(now, programs[i], e),
         programs' = [programs EXCEPT ![i] = WithStaked(programs[i], programs[i].staked + a)],
         positions' = [positions EXCEPT ![i] = [positions[i] EXCEPT ![p] = e]],
         Gets(wallet, wallet', programs[i].lp, a)
  PROVE  \E n, z : IsMine(i, n, z)
<1> DEFINE g == programs[i]
           s == positions[i]
           z == [s EXCEPT ![p] = e]
           b == 0
           staked == g.staked + a
           paid == g.paid
           n == WithStaked(g, staked)
<1>1. g \in Program /\ s \in Places
  BY MineParts
<1>2. ClaimOf(s[p]) \in Nat
  BY <1>1, PlaceOf
<1>3. e.staked = StakeOf(s[p]) + a /\ e.claimed = ClaimOf(s[p]) + b /\ b \in Int
  BY <1>2
<1>4. PositionSums(s, z, a, b)
  <2> HIDE DEF b, s
  <2>1. z = [s EXCEPT ![p] = e]
    OBVIOUS
  <2> HIDE DEF z
  <2> QED BY <1>1, <1>3, <2>1, PositionChanged
<1>5. staked \in Nat
  <2>1. g.staked = SumFunction(Staking(s))
    BY SumsOf
  <2> QED BY <1>4, <2>1 DEF PositionSums
<1>6. IsProgram(n, g, staked, paid)
  <2> HIDE DEF staked, g
  <2> QED BY <1>1, <1>5, ProgramStaked
<1>7. paid = g.paid + b /\ paid <= g.rewards /\ staked = g.staked + a
  BY SumsOf
<1>8. programs' = [programs EXCEPT ![i] = n]
  OBVIOUS
<1>9. b = 0 /\ Gets(wallet, wallet', programs[i].lp, a)
  OBVIOUS
<1>10. /\ IsProgram(n, programs[i], staked, paid) /\ staked = programs[i].staked + a
       /\ paid = programs[i].paid + b /\ paid <= programs[i].rewards
       /\ PositionSums(positions[i], [positions[i] EXCEPT ![p] = e], a, b)
  BY <1>4, <1>6, <1>7
<1> HIDE DEF n, staked, paid, b, z, s, g
<1> QED BY <1>3, <1>8, <1>9, <1>10, MineWritten

LEMMA ClaimMoved ==
  ASSUME MiningInv, wallet \in Wallets, NEW i \in DOMAIN programs, NEW p \in Party, NEW e \in Position,
         NEW b \in Nat, e.staked = StakeOf(positions[i][p]), e.claimed = ClaimOf(positions[i][p]) + b,
         e.claimed <= VestedAt(now, programs[i], e), programs[i].paid + b <= programs[i].rewards,
         programs' = [programs EXCEPT ![i] = WithPaid(programs[i], programs[i].paid + b)],
         positions' = [positions EXCEPT ![i] = [positions[i] EXCEPT ![p] = e]],
         Gets(wallet, wallet', programs[i].reward, -b)
  PROVE  \E n, z : IsMine(i, n, z)
<1> DEFINE g == programs[i]
           s == positions[i]
           z == [s EXCEPT ![p] = e]
           a == 0
           staked == g.staked
           paid == g.paid + b
           n == WithPaid(g, paid)
<1>1. g \in Program /\ s \in Places
  BY MineParts
<1>2. StakeOf(s[p]) \in Nat
  BY <1>1, PlaceOf
<1>3. e.staked = StakeOf(s[p]) + a /\ e.claimed = ClaimOf(s[p]) + b /\ a \in Int /\ b \in Int
  BY <1>2
<1>4. PositionSums(s, z, a, b)
  <2> HIDE DEF a, s
  <2>1. z = [s EXCEPT ![p] = e]
    OBVIOUS
  <2> HIDE DEF z
  <2> QED BY <1>1, <1>3, <2>1, PositionChanged
<1>5. paid \in Nat
  <2>1. g.paid \in Nat
    BY SumsOf
  <2> QED BY <2>1
<1>6. IsProgram(n, g, staked, paid)
  <2> HIDE DEF paid, g
  <2> QED BY <1>1, <1>5, ProgramRewarded
<1>7. paid = g.paid + b /\ paid <= g.rewards /\ staked = g.staked + a
  BY SumsOf
<1>8. programs' = [programs EXCEPT ![i] = n]
  OBVIOUS
<1>9. a = 0 /\ Gets(wallet, wallet', programs[i].reward, -b)
  OBVIOUS
<1>10. /\ IsProgram(n, programs[i], staked, paid) /\ staked = programs[i].staked + a
       /\ paid = programs[i].paid + b /\ paid <= programs[i].rewards
       /\ PositionSums(positions[i], [positions[i] EXCEPT ![p] = e], a, b)
  BY <1>4, <1>6, <1>7
<1> HIDE DEF n, staked, paid, a, z, s, g
<1> QED BY <1>3, <1>8, <1>9, <1>10, MineWritten

\* A position with what it earned so far still has its claims vested.
LEMMA StillVested ==
  ASSUME NEW g, ProgramTimed(g), now \in Int, NEW s \in Position, NEW e \in Position, NEW staked, NEW x \in Nat,
         IsPosition(e, s, staked, s.claimed, x), s.earned <= x, s.claimed <= VestedAt(now, g, s)
  PROVE  e.claimed <= VestedAt(now, g, e)
<1>1. e.entry = s.entry /\ e.earned = x /\ e.claimed = s.claimed
  BY DEF IsPosition
<1>2. VestedAt(now, g, s) \in Nat /\ VestedAt(now, g, e) \in Nat /\ VestedAt(now, g, s) <= VestedAt(now, g, e)
  BY <1>1, VestingGrows
<1>3. s.claimed \in Nat
  BY DEF Position
<1> QED BY <1>1, <1>2, <1>3

LEMMA HeldPosition ==
  ASSUME MiningInv, now \in Int, NEW i \in DOMAIN programs, NEW p \in Party, positions[i][p] # None
  PROVE  /\ positions[i][p] \in Position /\ StakeOf(positions[i][p]) = positions[i][p].staked
         /\ ClaimOf(positions[i][p]) = positions[i][p].claimed
         /\ positions[i][p].claimed <= VestedAt(now, programs[i], positions[i][p])
BY MineParts, PlaceOf DEF SoundAt

\* What a call writes of a position that has earned what it should.
LEMMA AccruedPosition ==
  ASSUME NEW g, ProgramTimed(g), now \in Int, NEW s \in Position, s.claimed <= VestedAt(now, g, s)
  PROVE  /\ accrue(g, s) \in Position /\ accrue(g, s).entry = s.entry /\ accrue(g, s).staked = s.staked
         /\ accrue(g, s).claimed = s.claimed /\ accrue(g, s).claimed <= VestedAt(now, g, accrue(g, s))
<1> DEFINE e == accrue(g, s)
           staked == s.staked
<1>1. PICK x \in Nat : IsPosition(e, s, staked, s.claimed, x) /\ s.earned <= x
  BY Accrued
<1> HIDE DEF e, staked
<1>2. e \in Position /\ e.entry = s.entry /\ e.staked = staked /\ e.claimed = s.claimed
  BY <1>1 DEF IsPosition
<1>3. e.claimed <= VestedAt(now, g, e)
  BY <1>1, <1>2, StillVested
<1> QED BY <1>2, <1>3 DEF e, staked

\* Once earned is up to date, the other fields of a position may change.
LEMMA SameVesting ==
  ASSUME NEW g, NEW t, NEW s, NEW e, NEW staked, NEW claimed, IsPosition(e, s, staked, claimed, s.earned)
  PROVE  VestedAt(t, g, e) = VestedAt(t, g, s)
BY DEF IsPosition, VestedAt

LEMMA ProgramStakes ==
  ASSUME MiningInv, wallet \in Wallets, now \in Int, NEW p \in Party, NEW i \in DOMAIN programs, NEW x \in Nat,
         lm_stake(p, i, x)
  PROVE  \E n, z : IsMine(i, n, z)
<1> DEFINE g == programs[i]
           new == [staked |-> 0, entry |-> now, updated |-> now, claimed |-> 0, earned |-> 0,
                   boost |-> MinBoost, locked |-> 0]
           old == IF positions[i][p] = None THEN new ELSE positions[i][p]
           s == accrue(g, old)
           e == Restaked(s, s.staked + x)
<1>1. /\ programs' = [programs EXCEPT ![i] = WithStaked(g, g.staked + x)]
      /\ positions' = [positions EXCEPT ![i] = [positions[i] EXCEPT ![p] = e]]
      /\ wallet' = Transfer(wallet, g.lp, p, Jar, x)
  BY DEF lm_stake, WithStaked, Restaked, Pay
<1>2. g \in Program /\ ProgramTimed(g) /\ g.lp \in Token
  BY MineParts, SumsOf
<1>3. new \in Position /\ new.claimed = 0 /\ new.staked = 0
  BY MiningAssumption DEF Position
<1> HIDE DEF new, g
<1>4. VestedAt(now, g, new) \in Nat
  <2>1. new.entry = new.entry /\ new.earned <= new.earned /\ now <= now
    BY <1>3 DEF Position
  <2> QED BY <1>2, <1>3, <2>1, VestingGrows
<1>5. /\ old \in Position /\ old.claimed <= VestedAt(now, g, old)
      /\ old.staked = StakeOf(positions[i][p]) /\ old.claimed = ClaimOf(positions[i][p])
  <2>1. CASE positions[i][p] = None
    <3>1. old = new /\ StakeOf(positions[i][p]) = 0 /\ ClaimOf(positions[i][p]) = 0
      BY <2>1 DEF StakeOf, ClaimOf
    <3> HIDE DEF old
    <3> QED BY <1>3, <1>4, <3>1
  <2>2. CASE positions[i][p] # None
    BY <2>2, HeldPosition DEF g
  <2> QED BY <2>1, <2>2
<1> HIDE DEF old
<1>6. /\ s \in Position /\ s.staked = old.staked /\ s.claimed = old.claimed
      /\ s.claimed <= VestedAt(now, g, s)
  BY <1>2, <1>5, AccruedPosition
<1> HIDE DEF s
<1>7. s.staked \in Nat
  BY <1>6 DEF Position
<1> DEFINE y == s.staked + x
           c == s.claimed
<1>8. IsPosition(e, s, y, c, s.earned)
  <2>1. y \in Nat
    BY <1>7
  <2>2. e = Restaked(s, y)
    OBVIOUS
  <2> HIDE DEF y, e
  <2> QED BY <1>6, <2>1, <2>2, PositionRestaked
<1> HIDE DEF e
<1>9. e \in Position /\ e.staked = y /\ e.claimed = c /\ VestedAt(now, g, e) = VestedAt(now, g, s)
  <2> HIDE DEF y, c
  <2> QED BY <1>8, SameVesting DEF IsPosition
<1>10. /\ e.staked = StakeOf(positions[i][p]) + x /\ e.claimed = ClaimOf(positions[i][p])
       /\ e.claimed <= VestedAt(now, g, e)
  BY <1>5, <1>6, <1>9
<1>11. Gets(wallet, wallet', g.lp, x) /\ x \in Int
  BY <1>1, <1>2, PaidIn
<1> QED BY <1>1, <1>9, <1>10, <1>11, StakeMoved DEF g

LEMMA ProgramUnstakes ==
  ASSUME MiningInv, wallet \in Wallets, now \in Int, NEW p \in Party, NEW i \in DOMAIN programs, NEW x \in Nat,
         lm_unstake(p, i, x)
  PROVE  \E n, z : IsMine(i, n, z)
<1> DEFINE g == programs[i]
           old == positions[i][p]
           s == accrue(g, old)
           e == Restaked(s, s.staked - x)
           a == -x
<1>1. /\ programs' = [programs EXCEPT ![i] = WithStaked(g, g.staked - x)]
      /\ positions' = [positions EXCEPT ![i] = [positions[i] EXCEPT ![p] = e]]
      /\ wallet' = Transfer(wallet, g.lp, Jar, p, x)
      /\ old # None /\ x <= old.staked
  BY DEF lm_unstake, WithStaked, Restaked, Pay
<1>2. g \in Program /\ ProgramTimed(g) /\ g.lp \in Token /\ g.staked \in Nat
  BY MineParts, SumsOf
<1>5. /\ old \in Position /\ old.claimed <= VestedAt(now, g, old)
      /\ old.staked = StakeOf(positions[i][p]) /\ old.claimed = ClaimOf(positions[i][p])
  BY <1>1, HeldPosition
<1> HIDE DEF old, g
<1>6. /\ s \in Position /\ s.staked = old.staked /\ s.claimed = old.claimed
      /\ s.claimed <= VestedAt(now, g, s)
  BY <1>2, <1>5, AccruedPosition
<1> HIDE DEF s
<1>7. s.staked \in Nat
  BY <1>6 DEF Position
<1> DEFINE y == s.staked - x
           c == s.claimed
<1>8. IsPosition(e, s, y, c, s.earned)
  <2>1. y \in Nat
    BY <1>1, <1>6, <1>7
  <2>2. e = Restaked(s, y)
    OBVIOUS
  <2> HIDE DEF y, e
  <2> QED BY <1>6, <2>1, <2>2, PositionRestaked
<1> HIDE DEF e
<1>9. e \in Position /\ e.staked = y /\ e.claimed = c /\ VestedAt(now, g, e) = VestedAt(now, g, s)
  <2> HIDE DEF y, c
  <2> QED BY <1>8, SameVesting DEF IsPosition
<1>10. /\ e.staked = StakeOf(positions[i][p]) + a /\ e.claimed = ClaimOf(positions[i][p])
       /\ e.claimed <= VestedAt(now, g, e)
  BY <1>5, <1>6, <1>7, <1>9
<1>11. Gets(wallet, wallet', g.lp, a) /\ a \in Int /\ g.staked - x = g.staked + a
  BY <1>1, <1>2, PaidOutOf
<1>12. programs' = [programs EXCEPT ![i] = WithStaked(g, g.staked + a)]
  BY <1>1, <1>11
<1> HIDE DEF a
<1> QED BY <1>1, <1>9, <1>10, <1>11, <1>12, StakeMoved DEF g

LEMMA ProgramRewards ==
  ASSUME MiningInv, wallet \in Wallets, now \in Int, NEW p \in Party, NEW i \in DOMAIN programs,
         lm_claim_rewards(p, i)
  PROVE  \E n, z : IsMine(i, n, z)
<1> DEFINE g == programs[i]
           old == positions[i][p]
           s == accrue(g, old)
           v == VestedAt(now, g, s)
           c == s.claimed
           left == g.rewards - g.paid
           x == Smaller(Larger(v - c, 0), left)
           e == Reclaimed(s, c + x)
<1>1. /\ programs' = [programs EXCEPT ![i] = WithPaid(g, g.paid + x)]
      /\ positions' = [positions EXCEPT ![i] = [positions[i] EXCEPT ![p] = e]]
      /\ wallet' = Transfer(wallet, g.reward, Jar, p, x)
      /\ old # None /\ x > 0
  BY VestedNow DEF lm_claim_rewards, compute_vested, WithPaid, Reclaimed, Pay
<1>2. g \in Program /\ ProgramTimed(g) /\ g.reward \in Token /\ g.paid \in Nat /\ g.rewards \in Nat /\ g.paid <= g.rewards
  BY MineParts, SumsOf
<1>5. /\ old \in Position /\ old.claimed <= VestedAt(now, g, old)
      /\ old.staked = StakeOf(positions[i][p]) /\ old.claimed = ClaimOf(positions[i][p])
  BY <1>1, HeldPosition
<1> HIDE DEF old, g
<1>6. /\ s \in Position /\ s.staked = old.staked /\ s.claimed = old.claimed
      /\ s.claimed <= VestedAt(now, g, s)
  BY <1>2, <1>5, AccruedPosition
<1> HIDE DEF s
<1>7. s.staked \in Nat /\ c \in Nat /\ c <= v
  BY <1>6 DEF Position
<1>v. v \in Nat
  <2>1. s.entry = s.entry /\ s.earned <= s.earned /\ now <= now
    BY <1>6 DEF Position
  <2> QED BY <1>2, <1>6, <2>1, VestingGrows
<1> HIDE DEF v
<1>8. x \in Nat /\ c + x <= v /\ g.paid + x <= g.rewards /\ c + x \in Nat
  <2>1. left \in Nat
    BY <1>2
  <2>2. x \in Nat /\ x <= left /\ (x <= v - c \/ x <= 0)
    <3> HIDE DEF left, c
    <3> QED BY <1>7, <1>v, <2>1 DEF Smaller, Larger
  <2> DEFINE q == g.paid
             r == g.rewards
  <2>3. left = r - q /\ q \in Nat /\ r \in Nat
    BY <1>2
  <2> HIDE DEF x, left, c, q, r
  <2> QED BY <1>7, <1>v, <2>1, <2>2, <2>3 DEF q, r
<1> HIDE DEF x
<1> DEFINE d == c + x
           y == s.staked
<1>9. IsPosition(e, s, y, d, s.earned)
  <2>1. d \in Nat
    BY <1>8
  <2>2. e = Reclaimed(s, d)
    OBVIOUS
  <2> HIDE DEF d, e
  <2> QED BY <1>6, <2>1, <2>2, PositionReclaimed
<1> HIDE DEF e
<1>10. e \in Position /\ e.staked = y /\ e.claimed = d /\ VestedAt(now, g, e) = VestedAt(now, g, s)
  <2> HIDE DEF y, d
  <2> QED BY <1>9, SameVesting DEF IsPosition
<1>11. /\ e.staked = StakeOf(positions[i][p]) /\ e.claimed = ClaimOf(positions[i][p]) + x
       /\ e.claimed <= VestedAt(now, g, e)
  BY <1>5, <1>6, <1>8, <1>10 DEF v
<1>12. Gets(wallet, wallet', g.reward, -x)
  BY <1>1, <1>2, <1>8, PaidOutOf
<1> QED BY <1>1, <1>8, <1>10, <1>11, <1>12, ClaimMoved DEF g

LEMMA IntegerBoost ==
  ASSUME NEW n \in Nat
  PROVE  Smaller(MinBoost + ((MaxBoost - MinBoost) * Smaller(n, Year)) \div Year, MaxBoost) \in Nat
<1> DEFINE y == Smaller(n, Year)
           d == MaxBoost - MinBoost
           m == d * y
           q == m \div Year
<1>1. y \in Nat /\ d \in Nat /\ Year \in Nat \ {0} /\ MinBoost \in Nat /\ MaxBoost \in Nat
  BY MiningAssumption DEF Smaller
<1> HIDE DEF y, d
<1>2. m \in Nat
  BY <1>1, Product
<1> HIDE DEF m
<1>3. q \in Nat
  BY <1>1, <1>2, Portion
<1> HIDE DEF q
<1>4. Smaller(MinBoost + q, MaxBoost) \in Nat
  BY <1>1, <1>3 DEF Smaller
<1> QED BY <1>4 DEF q, m, d, y

LEMMA ProgramBoosts ==
  ASSUME MiningInv, wallet \in Wallets, now \in Int, NEW p \in Party, NEW i \in DOMAIN programs, NEW x \in Nat,
         lm_apply_boost(p, i, x)
  PROVE  \E n, z : IsMine(i, n, z)
<1> DEFINE g == programs[i]
           old == positions[i][p]
           s == accrue(g, old)
           boost == Smaller(MinBoost + ((MaxBoost - MinBoost) * Smaller(x, Year)) \div Year, MaxBoost)
           until == now + x
           e == Boosted(s, boost, until)
           a == 0
<1>1. /\ positions' = [positions EXCEPT ![i] = [positions[i] EXCEPT ![p] = e]]
      /\ wallet' = wallet /\ programs' = programs
      /\ old # None
  BY DEF lm_apply_boost, Boosted
<1>2. /\ programs \in Seq(Program) /\ g \in Program /\ ProgramTimed(g) /\ g.lp \in Token /\ g.staked \in Nat
  BY MineParts, SumsOf
<1>3. boost \in Nat /\ until \in Int
  BY IntegerBoost
<1>4. programs' = [programs EXCEPT ![i] = WithStaked(g, g.staked + a)]
  <2>1. g.staked + a = g.staked
    BY <1>2
  <2>2. WithStaked(g, g.staked) = g
    BY <1>2 DEF Program, WithStaked
  <2>3. [programs EXCEPT ![i] = g] = programs
    BY <1>2
  <2> QED BY <1>1, <2>1, <2>2, <2>3
<1>5. /\ old \in Position /\ old.claimed <= VestedAt(now, g, old)
      /\ old.staked = StakeOf(positions[i][p]) /\ old.claimed = ClaimOf(positions[i][p])
  BY <1>1, HeldPosition
<1> HIDE DEF old, g, boost, until
<1>6. /\ s \in Position /\ s.staked = old.staked /\ s.claimed = old.claimed
      /\ s.claimed <= VestedAt(now, g, s)
  BY <1>2, <1>5, AccruedPosition
<1> HIDE DEF s
<1>7. s.staked \in Nat
  BY <1>6 DEF Position
<1> DEFINE y == s.staked
           c == s.claimed
<1>8. IsPosition(e, s, y, c, s.earned)
  BY <1>3, <1>6, PositionBoosted
<1> HIDE DEF e
<1>9. e \in Position /\ e.staked = y /\ e.claimed = c /\ VestedAt(now, g, e) = VestedAt(now, g, s)
  <2> HIDE DEF y, c
  <2> QED BY <1>8, SameVesting DEF IsPosition
<1>10. /\ e.staked = StakeOf(positions[i][p]) + a /\ e.claimed = ClaimOf(positions[i][p])
       /\ e.claimed <= VestedAt(now, g, e)
  BY <1>5, <1>6, <1>7, <1>9
<1>11. Gets(wallet, wallet', g.lp, a) /\ a \in Int
  BY <1>1, <1>2, NothingPaid
<1> HIDE DEF a
<1> QED BY <1>1, <1>4, <1>9, <1>10, <1>11, StakeMoved DEF g

LEMMA ProgramDeactivates ==
  ASSUME MiningInv, wallet \in Wallets, NEW i \in DOMAIN programs, lm_deactivate_program(i)
  PROVE  \E n, z : IsMine(i, n, z)
<1> DEFINE g == programs[i]
           n == Inactive(g)
           a == 0
           b == 0
           staked == g.staked
           paid == g.paid
           z == positions[i]
<1>1. /\ programs' = [programs EXCEPT ![i] = n] /\ positions' = positions /\ wallet' = wallet
  BY DEF lm_deactivate_program, Inactive
<1>2. /\ positions \in Seq(Places) /\ i \in DOMAIN positions /\ z \in Places /\ SoundAt(now, g, z)
      /\ g \in Program /\ g.lp \in Token /\ staked \in Nat /\ paid \in Nat
  BY MineParts, SumsOf
<1>3. positions' = [positions EXCEPT ![i] = z]
  <2>1. [positions EXCEPT ![i] = positions[i]] = positions
    BY <1>2
  <2> QED BY <1>1, <2>1
<1>4. staked = g.staked + a /\ paid = g.paid + b /\ a \in Int /\ b \in Int /\ b = 0 /\ Gets(wallet, wallet', g.lp, a)
  BY <1>1, <1>2, NothingPaid
<1>5. IsProgram(n, g, staked, paid)
  BY <1>2, ProgramInactive
<1> HIDE DEF n
<1>6. n \in Program /\ SoundAt(now, n, z)
  <2>1. /\ n.terms = g.terms /\ n.staked = g.staked /\ n.paid = g.paid /\ n.rewards = g.rewards /\ n \in Program
    BY <1>5 DEF IsProgram
  <2>2. \A q : VestedAt(now, n, q) = VestedAt(now, g, q)
    BY <2>1 DEF VestedAt
  <2> QED BY <1>2, <2>1, <2>2 DEF SoundAt
<1> HIDE DEF a, b, staked, paid
<1>7. ProgramPaid(g, n) /\ wallet' \in Wallets
  <2> HIDE DEF g
  <2> QED BY <1>2, <1>4, <1>5, ProgramMoved
<1> QED BY <1>1, <1>2, <1>3, <1>6, <1>7 DEF IsMine, MineStays, ProgramWritten

MineOpened(n, z) ==
  n \in Program /\ ProgramOpened(n) /\ positions' = Append(positions, z) /\ z \in Places /\ SoundAt(now, n, z)
LEMMA ProgramCreated ==
  ASSUME MiningInv, wallet \in Wallets, NEW p \in Party, NEW lp \in Token, NEW reward \in Token, NEW x \in Nat,
         NEW k \in ProgramTerms, lm_create_program(p, lp, reward, x, k)
  PROVE  \E n, z : MineOpened(n, z)
<1> DEFINE n == [terms |-> k, lp |-> lp, reward |-> reward, rewards |-> x, paid |-> 0, staked |-> 0, active |-> TRUE]
           z == [q \in Party |-> None]
<1>1. /\ programs' = Append(programs, n) /\ positions' = Append(positions, z)
      /\ wallet' = Transfer(wallet, reward, p, Jar, x) /\ k.cliff <= k.duration
  BY DEF lm_create_program, PerParty, Pay
<1>2. /\ n \in Program /\ n.terms = k /\ n.lp = lp /\ n.reward = reward /\ n.rewards = x /\ n.paid = 0 /\ n.staked = 0
  BY DEF Program
<1>3. z \in Places /\ \A q \in Party : z[q] = None
  BY DEF Places
<1> HIDE DEF n, z
<1>4. SumFunction(Staking(z)) = 0 /\ SumFunction(Claiming(z)) = 0
  <2> DEFINE f == Staking(z)
             g == Claiming(z)
  <2>1. f \in [Party -> Int] /\ g \in [Party -> Int] /\ IsFiniteSet(Party) /\ \A q \in Party : f[q] = 0 /\ g[q] = 0
    BY <1>3, PlacesType DEF Staking, Claiming, StakeOf, ClaimOf
  <2> HIDE DEF f, g
  <2>2. SumFunction(f) = 0 /\ SumFunction(g) = 0
    BY <2>1, SumZero
  <2> QED BY <2>2 DEF f, g
<1>5. SoundAt(now, n, z)
  BY <1>1, <1>2, <1>3, <1>4 DEF SoundAt
<1>6. Gets(wallet, wallet', reward, x)
  BY <1>1, PaidIn
<1>7. ASSUME NEW t \in Token PROVE wallet'[t][Jar] = wallet[t][Jar] + ProgramHolds(n, t)
  <2>1. wallet'[t][Jar] = wallet[t][Jar] + (IF t = reward THEN x ELSE 0)
    BY <1>6 DEF Gets
  <2>2. ProgramHolds(n, t) = (IF t = lp THEN 0 ELSE 0) + (IF t = reward THEN x - 0 ELSE 0)
    BY <1>2 DEF ProgramHolds
  <2> QED BY <2>1, <2>2
<1>8. ProgramOpened(n)
  BY <1>1, <1>2, <1>6, <1>7 DEF ProgramOpened, Gets
<1> QED BY <1>1, <1>2, <1>3, <1>5, <1>8 DEF MineOpened

LEMMA MineChanges ==
  ASSUME MiningInv, wallet \in Wallets, now' = now, NEW i \in DOMAIN programs, NEW n, NEW z, IsMine(i, n, z)
  PROVE  MiningInv' /\ MiningFollow
<1>1. /\ n \in Program /\ ProgramWritten(i, n) /\ z \in Places /\ SoundAt(now, n, z)
      /\ positions' = [positions EXCEPT ![i] = z] /\ programs' = [programs EXCEPT ![i] = n]
  BY DEF IsMine, MineStays, ProgramWritten
<1>2. /\ programs \in Seq(Program) /\ positions \in Seq(Places) /\ Len(programs) = Len(positions)
      /\ \A j \in DOMAIN programs : SoundAt(now, programs[j], positions[j])
  BY MiningNow
<1>3. i \in DOMAIN positions
  BY MineParts
<1>4. programs' \in Seq(Program) /\ MiningFollow
  BY <1>1, <1>2, MiningChanged
<1>5. /\ positions' \in Seq(Places) /\ Len(positions') = Len(positions)
      /\ DOMAIN positions' = DOMAIN positions /\ DOMAIN positions = 1 .. Len(positions)
      /\ \A j \in DOMAIN positions : positions'[j] = IF j = i THEN z ELSE positions[j]
  BY <1>1, <1>2, <1>3, SeqUpdated
<1>6. /\ Len(programs') = Len(programs)
      /\ DOMAIN programs' = DOMAIN programs /\ DOMAIN programs = 1 .. Len(programs)
      /\ \A j \in DOMAIN programs : programs'[j] = IF j = i THEN n ELSE programs[j]
  BY <1>1, <1>2, SeqUpdated
<1>7. ASSUME NEW j \in DOMAIN programs' PROVE SoundAt(now', programs'[j], positions'[j])
  <2>1. j \in DOMAIN programs /\ j \in DOMAIN positions
    BY <1>2, <1>5, <1>6
  <2>2. /\ programs'[j] = IF j = i THEN n ELSE programs[j]
        /\ positions'[j] = IF j = i THEN z ELSE positions[j]
        /\ SoundAt(now, programs[j], positions[j])
    BY <1>2, <1>5, <1>6, <2>1
  <2> QED BY <1>1, <2>2, Zenon
<1> QED BY <1>2, <1>4, <1>5, <1>6, <1>7, MiningLater

LEMMA MineAdded ==
  ASSUME MiningInv, wallet \in Wallets, now' = now, NEW n, NEW z, MineOpened(n, z)
  PROVE  MiningInv' /\ MiningFollow
<1>1. /\ n \in Program /\ ProgramOpened(n) /\ z \in Places /\ SoundAt(now, n, z)
      /\ positions' = Append(positions, z) /\ programs' = Append(programs, n)
  BY DEF MineOpened, ProgramOpened
<1>2. /\ programs \in Seq(Program) /\ positions \in Seq(Places) /\ Len(programs) = Len(positions)
      /\ \A j \in DOMAIN programs : SoundAt(now, programs[j], positions[j])
  BY MiningNow
<1>3. programs' \in Seq(Program) /\ MiningFollow
  BY <1>1, <1>2, MiningChanged
<1> DEFINE m == Len(programs)
<1>4. /\ positions' \in Seq(Places) /\ Len(positions') = m + 1 /\ m \in Nat
      /\ DOMAIN positions = 1 .. m
      /\ \A j \in DOMAIN positions : positions'[j] = positions[j]
      /\ positions'[m + 1] = z
  BY <1>1, <1>2, SeqAppended
<1>5. /\ Len(programs') = m + 1
      /\ DOMAIN programs' = 1 .. m + 1 /\ DOMAIN programs = 1 .. m
      /\ \A j \in DOMAIN programs : programs'[j] = programs[j]
      /\ programs'[m + 1] = n
  BY <1>1, <1>2, SeqAppended
<1> HIDE DEF m
<1>6. ASSUME NEW j \in DOMAIN programs' PROVE SoundAt(now', programs'[j], positions'[j])
  <2>1. j = m + 1 \/ j \in 1 .. m
    BY <1>4, <1>5
  <2>2. CASE j = m + 1
    BY <1>1, <1>4, <1>5, <2>2
  <2>3. CASE j \in 1 .. m
    <3>1. programs'[j] = programs[j] /\ positions'[j] = positions[j] /\ SoundAt(now, programs[j], positions[j])
      BY <1>2, <1>4, <1>5, <2>3
    <3> QED BY <3>1
  <2> QED BY <2>1, <2>2, <2>3
<1> QED BY <1>3, <1>4, <1>5, <1>6, MiningLater

LEMMA MiningStep ==
  ASSUME MiningInv, wallet \in Wallets, now \in Int, now' = now, MiningNext
  PROVE  MiningInv' /\ MiningFollow
<1>a. Amounts \subseteq Nat /\ Programs \subseteq ProgramTerms /\ BoostLocks \subseteq Nat
  BY LedgerAssumption, MiningAssumption
<1>1. ASSUME NEW p \in Party, NEW a \in Token, NEW b \in Token, NEW x \in Amounts, NEW k \in Programs,
             lm_create_program(p, a, b, x, k)
      PROVE  MiningInv' /\ MiningFollow
  <2>1. x \in Nat /\ k \in ProgramTerms
    BY <1>a
  <2>2. \E n, z : MineOpened(n, z)
    BY <1>1, <2>1, ProgramCreated
  <2> QED BY <2>2, MineAdded
<1>2. ASSUME NEW p \in Party, NEW i \in DOMAIN programs,
             \/ \E x \in Amounts : lm_stake(p, i, x) \/ lm_unstake(p, i, x)
             \/ lm_claim_rewards(p, i)
             \/ \E x \in BoostLocks : lm_apply_boost(p, i, x)
             \/ lm_deactivate_program(i)
      PROVE  MiningInv' /\ MiningFollow
  <2>1. ASSUME NEW x \in Amounts, lm_stake(p, i, x) PROVE \E n, z : IsMine(i, n, z)
    BY <1>a, <2>1, ProgramStakes
  <2>2. ASSUME NEW x \in Amounts, lm_unstake(p, i, x) PROVE \E n, z : IsMine(i, n, z)
    BY <1>a, <2>2, ProgramUnstakes
  <2>3. ASSUME lm_claim_rewards(p, i) PROVE \E n, z : IsMine(i, n, z)
    BY <2>3, ProgramRewards
  <2>4. ASSUME NEW x \in BoostLocks, lm_apply_boost(p, i, x) PROVE \E n, z : IsMine(i, n, z)
    BY <1>a, <2>4, ProgramBoosts
  <2>5. ASSUME lm_deactivate_program(i) PROVE \E n, z : IsMine(i, n, z)
    BY <2>5, ProgramDeactivates
  <2>6. \E n, z : IsMine(i, n, z)
    BY <1>2, <2>1, <2>2, <2>3, <2>4, <2>5, Zenon
  <2> QED BY <2>6, MineChanges
<1> QED BY <1>1, <1>2, Zenon DEF MiningNext

\* Time only adds to what has vested.
LEMMA MiningTicks ==
  ASSUME MiningInv, now \in Int, now' \in Int, now <= now', UNCHANGED miningVars
  PROVE  MiningInv'
<1>1. /\ programs \in Seq(Program) /\ positions \in Seq(Places) /\ Len(programs) = Len(positions)
      /\ programs' = programs /\ positions' = positions
  BY MiningNow DEF miningVars
<1>2. ASSUME NEW i \in DOMAIN programs PROVE SoundAt(now', programs[i], positions[i])
  <2> DEFINE g == programs[i]
             s == positions[i]
  <2>1. g \in Program /\ s \in Places /\ SoundAt(now, g, s) /\ ProgramTimed(g)
    BY MineParts
  <2> HIDE DEF g, s
  <2>2. ASSUME NEW p \in Party, s[p] # None PROVE s[p].claimed <= VestedAt(now', g, s[p])
    <3> DEFINE e == s[p]
    <3>1. e \in Position /\ e.claimed <= VestedAt(now, g, e)
      BY <2>1, <2>2, PlaceOf DEF SoundAt
    <3> HIDE DEF e
    <3>2. e.claimed \in Nat /\ e.earned <= e.earned /\ e.entry = e.entry
      BY <3>1 DEF Position
    <3>3. VestedAt(now, g, e) \in Nat /\ VestedAt(now', g, e) \in Nat /\ VestedAt(now, g, e) <= VestedAt(now', g, e)
      BY <2>1, <3>1, <3>2, VestingGrows
    <3>4. e.claimed <= VestedAt(now', g, e)
      BY <3>1, <3>2, <3>3
    <3> QED BY <3>4 DEF e
  <2> QED BY <2>1, <2>2 DEF SoundAt, g, s
<1> QED BY <1>1, <1>2, MiningLater

LEMMA RewardsBacked ==
  ASSUME MiningInv, now \in Int
  PROVE  RewardsVested
<1> SUFFICES ASSUME NEW i \in DOMAIN programs
             PROVE  /\ \A p \in Party : positions[i][p] # None =>
                         positions[i][p].claimed <= Vested(programs[i], accrue(programs[i], positions[i][p]))
                    /\ programs[i].staked = SumFunction([p \in Party |-> StakeOf(positions[i][p])])
                    /\ programs[i].paid = SumFunction([p \in Party |-> ClaimOf(positions[i][p])])
                    /\ programs[i].paid <= programs[i].rewards
  BY DEF RewardsVested
<1>1. ASSUME NEW p \in Party, positions[i][p] # None
      PROVE  positions[i][p].claimed <= Vested(programs[i], accrue(programs[i], positions[i][p]))
  <2> DEFINE g == programs[i]
             s == positions[i][p]
  <2>1. s \in Position /\ s.claimed <= VestedAt(now, g, s) /\ ProgramTimed(g)
    BY <1>1, HeldPosition, MineParts
  <2> HIDE DEF g, s
  <2>2. accrue(g, s).claimed = s.claimed /\ accrue(g, s).claimed <= VestedAt(now, g, accrue(g, s))
    BY <2>1, AccruedPosition
  <2> QED BY <2>2, VestedNow DEF g, s
<1>2. /\ programs[i].staked = SumFunction(Staking(positions[i])) /\ programs[i].paid = SumFunction(Claiming(positions[i]))
      /\ programs[i].paid <= programs[i].rewards
  BY SumsOf
<1> QED BY <1>1, <1>2 DEF Staking, Claiming

-----------------------------------------------------------------------------
(* Quadratic rounds *)

RoundsHeld(t) == SumFunction([i \in DOMAIN rounds |-> RoundHolds(rounds[i], t)])

\* What the jar holds for quadratic rounds follows what is paid.
RoundBook(t) == [m \in QFRound |-> RoundHolds(m, t)]
RoundsFollow ==
  /\ wallet' \in Wallets
  /\ \A t \in Token : /\ RoundsHeld(t) \in Int /\ RoundsHeld(t)' \in Int
                      /\ wallet'[t][Jar] = wallet[t][Jar] + RoundsHeld(t)' - RoundsHeld(t)
RoundPaid(m, n) ==
  \A t \in Token : wallet'[t][Jar] = wallet[t][Jar] + RoundHolds(n, t) - RoundHolds(m, t)
RoundWritten(i, n) ==
  /\ rounds' = [rounds EXCEPT ![i] = n]
  /\ wallet' \in Wallets /\ n \in QFRound /\ RoundPaid(rounds[i], n)
RoundOpened(n) ==
  /\ rounds' = Append(rounds, n)
  /\ wallet' \in Wallets /\ n \in QFRound
  /\ \A t \in Token : wallet'[t][Jar] = wallet[t][Jar] + RoundHolds(n, t)

LEMMA RoundFields ==
  ASSUME NEW m \in QFRound
  PROVE  /\ m.token \in Token /\ m.pool \in Nat /\ m.held \in Int
BY DEF QFRound
LEMMA RoundBookType ==
  ASSUME NEW t \in Token
  PROVE  RoundBook(t) \in [QFRound -> Int]
<1>1. ASSUME NEW m \in QFRound PROVE RoundHolds(m, t) \in Int
  BY RoundFields DEF RoundHolds
<1> QED BY <1>1 DEF RoundBook
LEMMA RoundsWorth ==
  ASSUME rounds \in Seq(QFRound), NEW t \in Token
  PROVE  RoundsHeld(t) = Worth(rounds, RoundBook(t))
<1>1. \A i \in DOMAIN rounds : RoundBook(t)[rounds[i]] = RoundHolds(rounds[i], t)
  BY DEF RoundBook
<1>2. [i \in DOMAIN rounds |-> RoundHolds(rounds[i], t)] = [i \in DOMAIN rounds |-> RoundBook(t)[rounds[i]]]
  BY <1>1
<1> QED BY <1>2 DEF RoundsHeld, Worth
LEMMA RoundsWorthNext ==
  ASSUME rounds' \in Seq(QFRound), NEW t \in Token
  PROVE  RoundsHeld(t)' = Worth(rounds', RoundBook(t))
<1>1. \A i \in DOMAIN rounds' : RoundBook(t)[rounds'[i]] = RoundHolds(rounds'[i], t)
  BY DEF RoundBook
<1>2. [i \in DOMAIN rounds' |-> RoundHolds(rounds'[i], t)]
        = [i \in DOMAIN rounds' |-> RoundBook(t)[rounds'[i]]]
  BY <1>1
<1> QED BY <1>2 DEF RoundsHeld, RoundHolds, Worth

LEMMA RoundsChanged ==
  ASSUME rounds \in Seq(QFRound), wallet \in Wallets, NEW n \in QFRound, NEW i,
         (i \in DOMAIN rounds /\ RoundWritten(i, n)) \/ RoundOpened(n)
  PROVE  rounds' \in Seq(QFRound) /\ RoundsFollow
<1>1. rounds' \in Seq(QFRound)
  BY SeqUpdated, SeqAppended DEF RoundWritten, RoundOpened
<1>2. ASSUME NEW t \in Token
      PROVE  /\ RoundsHeld(t) \in Int /\ RoundsHeld(t)' \in Int
             /\ wallet'[t][Jar] = wallet[t][Jar] + RoundsHeld(t)' - RoundsHeld(t)
  <2> DEFINE H == RoundBook(t)
  <2>1. RoundsHeld(t) = Worth(rounds, H) /\ RoundsHeld(t)' = Worth(rounds', H)
    BY <1>1, RoundsWorth, RoundsWorthNext
  <2>2. /\ H \in [QFRound -> Int] /\ H[n] = RoundHolds(n, t)
        /\ \A j \in DOMAIN rounds : H[rounds[j]] = RoundHolds(rounds[j], t)
    BY RoundBookType DEF RoundBook
  <2>3. wallet[t][Jar] \in Int
    BY JarsAccount
  <2> HIDE DEF H
  <2>4. Earns(wallet[t][Jar], wallet'[t][Jar], rounds, rounds', H)
    <3>1. CASE i \in DOMAIN rounds /\ RoundWritten(i, n)
      <4>1. /\ i \in DOMAIN rounds /\ rounds' = [rounds EXCEPT ![i] = n]
            /\ wallet'[t][Jar] = wallet[t][Jar] + H[n] - H[rounds[i]]
        BY <2>2, <3>1 DEF RoundWritten, RoundPaid
      <4> QED BY <2>2, <2>3, <4>1, ListWritten
    <3>2. CASE RoundOpened(n)
      <4>1. rounds' = Append(rounds, n) /\ wallet'[t][Jar] = wallet[t][Jar] + H[n]
        BY <2>2, <3>2 DEF RoundOpened
      <4> QED BY <2>2, <2>3, <4>1, ListExtended
    <3> QED BY <3>1, <3>2
  <2> QED BY <2>1, <2>4 DEF Earns
<1>3. wallet' \in Wallets
  BY DEF RoundWritten, RoundOpened
<1> QED BY <1>1, <1>2, <1>3 DEF RoundsFollow

\* Rounds after a contribution, their end or their distribution.
Contributed(r, projects, q, p, y, x, h) ==
  [r EXCEPT !.projects = projects, !.roots[q] = y, !.given[q][p] = x, !.held = h]
RoundEnded(r) == [r EXCEPT !.status = "Finalized"]
RoundShared(r, h) == [r EXCEPT !.status = "Distributed", !.held = h]
Given == [Party -> [Party -> Nat \cup {None}]]
IsRound(n, r, status, projects, given, held) ==
  /\ n \in QFRound /\ n.token = r.token /\ n.pool = r.pool /\ n.status = status /\ n.projects = projects
  /\ n.given = given /\ n.held = held
GivenAs(new, given, q, p, x) ==
  /\ new \in Given
  /\ \A u, v \in Party : new[u][v] = IF u = q /\ v = p THEN x ELSE given[u][v]
LEMMA GivenPut ==
  ASSUME NEW given \in Given, NEW q \in Party, NEW p \in Party, NEW x \in Nat,
         NEW new, new = [given EXCEPT ![q][p] = x]
  PROVE  GivenAs(new, given, q, p, x)
<1> DEFINE row == [given[q] EXCEPT ![p] = x]
<1>1. given[q] \in [Party -> Nat \cup {None}]
  BY DEF Given
<1>2. row \in [Party -> Nat \cup {None}] /\ \A v \in Party : row[v] = IF v = p THEN x ELSE given[q][v]
  BY <1>1
<1>3. new = [given EXCEPT ![q] = row]
  OBVIOUS
<1> HIDE DEF row
<1>4. /\ [given EXCEPT ![q] = row] \in Given
      /\ \A u \in Party : [given EXCEPT ![q] = row][u] = IF u = q THEN row ELSE given[u]
  BY <1>2 DEF Given
<1> QED BY <1>2, <1>3, <1>4 DEF GivenAs
LEMMA RoundContributed ==
  ASSUME NEW r \in QFRound, NEW projects \in Seq(Party), NEW q \in Party, NEW p \in Party, NEW y \in Nat,
         NEW x \in Nat, NEW h \in Int
  PROVE  IsRound(Contributed(r, projects, q, p, y, x, h), r, r.status, projects, [r.given EXCEPT ![q][p] = x], h)
<1> DEFINE given == [r.given EXCEPT ![q][p] = x]
           roots == [r.roots EXCEPT ![q] = y]
           n == [r EXCEPT !.projects = projects, !.roots = roots, !.given = given, !.held = h]
           P == Seq(Party)
<1>1. r.given \in Given /\ r.roots \in [Party -> Nat]
  BY DEF QFRound, Given
<1>2. given \in Given
  BY <1>1, GivenPut DEF GivenAs
<1>3. roots \in [Party -> Nat]
  BY <1>1
<1>4. Contributed(r, projects, q, p, y, x, h) = n
  BY DEF Contributed, QFRound
<1>5. projects \in P
  OBVIOUS
<1> HIDE DEF given, roots
<1>6. n \in QFRound /\ n.token = r.token /\ n.pool = r.pool /\ n.status = r.status /\ n.projects = projects
      /\ n.given = given /\ n.held = h
  BY <1>2, <1>3, <1>5 DEF QFRound, Given
<1> QED BY <1>4, <1>6 DEF IsRound, given
LEMMA RoundFinished ==
  ASSUME NEW r \in QFRound
  PROVE  IsRound(RoundEnded(r), r, "Finalized", r.projects, r.given, r.held)
BY DEF QFRound, RoundEnded, IsRound
LEMMA RoundDistributed ==
  ASSUME NEW r \in QFRound, NEW h \in Int
  PROVE  IsRound(RoundShared(r, h), r, "Distributed", r.projects, r.given, h)
BY DEF QFRound, RoundShared, IsRound

\* The gifts of a round, by who gave them.
GiftIn(given, q, a) == IF given[q][a] = None THEN 0 ELSE given[q][a]
GiftsOf(given, a) == [q \in Party |-> GiftIn(given, q, a)]
AllGifts(given) == [a \in Party |-> SumFunction(GiftsOf(given, a))]
LEMMA GiftsSum ==
  ASSUME NEW r
  PROVE  Gifts(r) = SumFunction(AllGifts(r.given))
BY DEF Gifts, Gift, AllGifts, GiftsOf, GiftIn
LEMMA GiftType ==
  ASSUME NEW given \in Given, NEW q \in Party, NEW a \in Party
  PROVE  GiftIn(given, q, a) \in Nat
<1>1. given[q][a] \in Nat \cup {None}
  BY DEF Given
<1> QED BY <1>1 DEF GiftIn
LEMMA GiftsType ==
  ASSUME NEW given \in Given
  PROVE  /\ \A a \in Party : GiftsOf(given, a) \in [Party -> Nat] /\ GiftsOf(given, a) \in [Party -> Int]
         /\ AllGifts(given) \in [Party -> Nat] /\ AllGifts(given) \in [Party -> Int]
         /\ SumFunction(AllGifts(given)) \in Nat
         /\ IsFiniteSet(Party)
<1>0. IsFiniteSet(Party)
  BY LedgerAssumption
<1>1. ASSUME NEW a \in Party PROVE GiftsOf(given, a) \in [Party -> Nat] /\ SumFunction(GiftsOf(given, a)) \in Nat
  <2> DEFINE f == GiftsOf(given, a)
  <2>1. f \in [Party -> Nat]
    BY GiftType DEF GiftsOf
  <2> HIDE DEF f
  <2>2. SumFunction(f) \in Nat
    BY <1>0, <2>1, SumNat
  <2> QED BY <2>1, <2>2 DEF f
<1>2. AllGifts(given) \in [Party -> Nat]
  BY <1>1 DEF AllGifts
<1>3. SumFunction(AllGifts(given)) \in Nat
  <2> DEFINE f == AllGifts(given)
  <2> HIDE DEF f
  <2>1. f \in [Party -> Nat]
    BY <1>2 DEF f
  <2>2. SumFunction(f) \in Nat
    BY <1>0, <2>1, SumNat
  <2> QED BY <2>2 DEF f
<1> QED BY <1>0, <1>1, <1>2, <1>3
LEMMA GiftAdded ==
  ASSUME NEW given \in Given, NEW q \in Party, NEW p \in Party, given[q][p] = None, NEW x \in Nat,
         NEW new, GivenAs(new, given, q, p, x)
  PROVE  new \in Given /\ SumFunction(AllGifts(new)) = SumFunction(AllGifts(given)) + x
<1>1. new \in Given /\ \A u, v \in Party : new[u][v] = IF u = q /\ v = p THEN x ELSE given[u][v]
  BY DEF GivenAs
<1>n. x # None
  BY LedgerAssumption
<1>2. SumFunction(GiftsOf(new, p)) = SumFunction(GiftsOf(given, p)) + x
  <2> DEFINE f == GiftsOf(given, p)
             g == GiftsOf(new, p)
  <2>1. f \in [Party -> Int] /\ g \in [Party -> Int] /\ IsFiniteSet(Party)
    BY <1>1, GiftsType
  <2>2. (\A u \in Party \ {q} : g[u] = f[u]) /\ f[q] = 0 /\ g[q] = x
    BY <1>1, <1>n DEF GiftsOf, GiftIn
  <2> HIDE DEF f, g
  <2>3. SumFunction(g) = SumFunction(f) + g[q] - f[q] /\ SumFunction(f) \in Int
    BY <2>1, <2>2, SumUpdate, SumType
  <2>4. SumFunction(g) = SumFunction(f) + x
    BY <2>2, <2>3
  <2> QED BY <2>4 DEF f, g
<1>3. ASSUME NEW a \in Party, a # p PROVE GiftsOf(new, a) = GiftsOf(given, a)
  BY <1>1, <1>3 DEF GiftsOf, GiftIn
<1> DEFINE f == AllGifts(given)
           g == AllGifts(new)
<1>4. f \in [Party -> Int] /\ g \in [Party -> Int] /\ IsFiniteSet(Party)
  BY <1>1, GiftsType
<1>5. (\A a \in Party \ {p} : g[a] = f[a]) /\ g[p] = f[p] + x
  BY <1>2, <1>3 DEF AllGifts
<1> HIDE DEF f, g
<1>6. SumFunction(g) = SumFunction(f) + g[p] - f[p] /\ SumFunction(f) \in Int /\ f[p] \in Int
  BY <1>4, <1>5, SumUpdate, SumType
<1>7. SumFunction(g) = SumFunction(f) + x
  BY <1>5, <1>6
<1> QED BY <1>1, <1>7 DEF f, g

-----------------------------------------------------------------------------
\* What a round holds, and that its gifts are to its projects.
Awaited(r, g) ==
  IF r.status = "Distributed" THEN (IF r.projects = <<>> THEN r.pool ELSE 0) ELSE r.pool + g
RoundSound(r) == Listed(r) /\ r.held = Awaited(r, SumFunction(AllGifts(r.given)))
HoldsRight(r) ==
  IF r.status = "Distributed"
  THEN r.held = IF r.projects = <<>> THEN r.pool ELSE 0
  ELSE r.held = r.pool + Gifts(r)
LEMMA RightIsSound ==
  ASSUME NEW r
  PROVE  Listed(r) /\ HoldsRight(r) <=> RoundSound(r)
BY GiftsSum DEF HoldsRight, RoundSound, Awaited
LEMMA RoundsNow == RoundsInv <=> rounds \in Seq(QFRound) /\ \A i \in DOMAIN rounds : RoundSound(rounds[i])
<1>1. RoundsPaidOut <=> \A i \in DOMAIN rounds : HoldsRight(rounds[i])
  BY DEF RoundsPaidOut, HoldsRight
<1> QED BY <1>1, RightIsSound, Zenon DEF RoundsInv
LEMMA RoundsLater == RoundsInv' <=> rounds' \in Seq(QFRound) /\ \A i \in DOMAIN rounds' : RoundSound(rounds'[i])
<1>1. RoundsPaidOut' <=> \A i \in DOMAIN rounds' : HoldsRight(rounds'[i])
  BY DEF RoundsPaidOut, HoldsRight, Gifts, Gift
<1>2. RoundsInv' <=> /\ rounds' \in Seq(QFRound) /\ \A i \in DOMAIN rounds' : Listed(rounds'[i])
                     /\ RoundsPaidOut'
  BY DEF RoundsInv, Listed
<1> QED BY <1>1, <1>2, RightIsSound, Zenon
LEMMA RoundParts ==
  ASSUME RoundsInv, NEW i \in DOMAIN rounds
  PROVE  /\ rounds \in Seq(QFRound) /\ rounds[i] \in QFRound /\ RoundSound(rounds[i])
         /\ rounds[i].token \in Token /\ rounds[i].pool \in Nat /\ rounds[i].held \in Int
BY RoundsNow, RoundFields
LEMMA RoundLists ==
  ASSUME NEW r \in QFRound
  PROVE  r.projects \in Seq(Party) /\ r.given \in Given /\ r.roots \in [Party -> Nat]
<1> DEFINE P == Seq(Party)
<1>1. QFRound = [admin : Party, token : Token, pool : Nat, end : Int,
                 status : {"Active", "Finalized", "Distributed"}, projects : P,
                 roots : [Party -> Nat], given : Given, held : Int]
  BY DEF QFRound, Given
<1> HIDE DEF P
<1>2. r.projects \in P /\ r.given \in Given /\ r.roots \in [Party -> Nat]
  BY <1>1
<1> QED BY <1>2 DEF P

\* A round changes, and the jar gets x for it.
LEMMA RoundMoved ==
  ASSUME rounds \in Seq(QFRound), wallet \in Wallets, NEW i \in DOMAIN rounds, NEW n, NEW x \in Int,
         NEW status, NEW projects, NEW given, NEW held, held = rounds[i].held + x,
         IsRound(n, rounds[i], status, projects, given, held),
         rounds' = [rounds EXCEPT ![i] = n], Gets(wallet, wallet', rounds[i].token, x)
  PROVE  n \in QFRound /\ RoundWritten(i, n)
<1> DEFINE r == rounds[i]
           v == r.held
<1>1. r \in QFRound /\ v \in Int
  BY RoundFields
<1>2. n \in QFRound /\ n.token = r.token /\ n.held = v + x
  BY DEF IsRound
<1>3. ASSUME NEW t \in Token PROVE wallet'[t][Jar] = wallet[t][Jar] + RoundHolds(n, t) - RoundHolds(r, t)
  <2>1. wallet'[t][Jar] = wallet[t][Jar] + (IF t = r.token THEN x ELSE 0) /\ wallet[t][Jar] \in Int
    BY JarsAccount DEF Gets
  <2>2. /\ RoundHolds(n, t) = IF t = r.token THEN v + x ELSE 0
        /\ RoundHolds(r, t) = IF t = r.token THEN v ELSE 0
    BY <1>2 DEF RoundHolds
  <2> HIDE DEF v
  <2> QED BY <1>1, <2>1, <2>2
<1> QED BY <1>2, <1>3 DEF RoundWritten, RoundPaid, Gets

LEMMA RoundCreated ==
  ASSUME RoundsInv, wallet \in Wallets, now \in Int, NEW p \in Party, NEW t \in Token, NEW x \in Nat, NEW m \in Nat,
         qf_create_round(p, t, x, m)
  PROVE  \E n \in QFRound : RoundOpened(n) /\ RoundSound(n)
<1> DEFINE roots == [q \in Party |-> 0]
           given == [q \in Party |-> [a \in Party |-> None]]
           end == now + m
           projects == <<>>
           n == [admin |-> p, token |-> t, pool |-> x, end |-> end, status |-> "Active", projects |-> projects,
                 roots |-> roots, given |-> given, held |-> x]
           P == Seq(Party)
<1>1. rounds' = Append(rounds, n) /\ wallet' = Transfer(wallet, t, p, Jar, x)
  BY DEF qf_create_round, PerParty, Pay
<1>2. /\ roots \in [Party -> Nat] /\ given \in Given /\ (\A q, a \in Party : given[q][a] = None)
      /\ end \in Int /\ projects \in P
  BY DEF Given
<1>3. QFRound = [admin : Party, token : Token, pool : Nat, end : Int,
                 status : {"Active", "Finalized", "Distributed"}, projects : P,
                 roots : [Party -> Nat], given : Given, held : Int]
  BY DEF QFRound, Given
<1> HIDE DEF roots, given, end, projects, P
<1>4. n \in QFRound /\ n.given = given /\ n.status = "Active" /\ n.pool = x /\ n.held = x /\ n.token = t
  BY <1>2, <1>3
<1> HIDE DEF n
<1>5. SumFunction(AllGifts(given)) = 0
  <2>1. ASSUME NEW a \in Party PROVE SumFunction(GiftsOf(given, a)) = 0
    <3> DEFINE f == GiftsOf(given, a)
    <3>1. f \in [Party -> Int] /\ IsFiniteSet(Party) /\ \A q \in Party : f[q] = 0
      BY <1>2, GiftsType DEF GiftsOf, GiftIn
    <3> HIDE DEF f
    <3>2. SumFunction(f) = 0
      BY <3>1, SumZero
    <3> QED BY <3>2 DEF f
  <2> DEFINE f == AllGifts(given)
  <2>2. f \in [Party -> Int] /\ IsFiniteSet(Party) /\ \A a \in Party : f[a] = 0
    BY <1>2, <2>1, GiftsType DEF AllGifts
  <2> HIDE DEF f
  <2>3. SumFunction(f) = 0
    BY <2>2, SumZero
  <2> QED BY <2>3 DEF f
<1>6. RoundSound(n)
  <2>1. Listed(n)
    BY <1>2, <1>4 DEF Listed
  <2>2. n.held = n.pool + 0
    BY <1>4
  <2> QED BY <1>4, <1>5, <2>1, <2>2 DEF RoundSound, Awaited
<1>7. Gets(wallet, wallet', t, x)
  BY <1>1, PaidIn
<1>8. ASSUME NEW u \in Token PROVE wallet'[u][Jar] = wallet[u][Jar] + RoundHolds(n, u)
  <2>1. wallet'[u][Jar] = wallet[u][Jar] + (IF u = t THEN x ELSE 0)
    BY <1>7 DEF Gets
  <2>2. RoundHolds(n, u) = IF u = t THEN x ELSE 0
    BY <1>4 DEF RoundHolds
  <2> QED BY <2>1, <2>2
<1>9. RoundOpened(n)
  BY <1>1, <1>4, <1>7, <1>8 DEF RoundOpened, Gets
<1> QED BY <1>4, <1>6, <1>9

LEMMA ProjectListed ==
  ASSUME NEW s \in Seq(Party), NEW q \in Party, NEW z, z = IF q \in ToSet(s) THEN s ELSE Append(s, q)
  PROVE  z \in Seq(Party) /\ q \in ToSet(z) /\ ToSet(s) \subseteq ToSet(z)
<1>1. CASE q \in ToSet(s)
  BY <1>1
<1>2. CASE q \notin ToSet(s)
  <2>1. z = Append(s, q)
    BY <1>2
  <2>2. /\ z \in Seq(Party) /\ DOMAIN s = 1 .. Len(s) /\ DOMAIN z = 1 .. Len(s) + 1 /\ Len(s) \in Nat
        /\ (\A j \in DOMAIN s : z[j] = s[j]) /\ z[Len(s) + 1] = q
    BY <2>1, SeqAppended
  <2>3. Len(s) + 1 \in DOMAIN z /\ DOMAIN s \subseteq DOMAIN z
    BY <2>2
  <2>4. q \in ToSet(z)
    BY <2>2, <2>3 DEF ToSet
  <2>5. ASSUME NEW a \in ToSet(s) PROVE a \in ToSet(z)
    BY <2>2, <2>3 DEF ToSet
  <2> QED BY <2>2, <2>4, <2>5
<1> QED BY <1>1, <1>2

LEMMA RoundContributes ==
  ASSUME RoundsInv, wallet \in Wallets, NEW p \in Party, NEW i \in DOMAIN rounds, NEW q \in Party, NEW x \in Nat,
         qf_contribute(p, i, q, x)
  PROVE  \E n \in QFRound : RoundWritten(i, n) /\ RoundSound(n)
<1> DEFINE r == rounds[i]
           projects == IF q \in ToSet(r.projects) THEN r.projects ELSE Append(r.projects, q)
           y == r.roots[q] + isqrt_scaled(x)
           h == r.held + x
           given == r.given
           new == [given EXCEPT ![q][p] = x]
           n == Contributed(r, projects, q, p, y, x, h)
           status == r.status
<1>1. /\ rounds' = [rounds EXCEPT ![i] = n] /\ wallet' = Transfer(wallet, r.token, p, Jar, x)
      /\ r.status = "Active" /\ given[q][p] = None
  BY DEF qf_contribute, Contributed, Pay
<1>2. /\ rounds \in Seq(QFRound) /\ r \in QFRound /\ RoundSound(r) /\ r.token \in Token /\ r.pool \in Nat /\ r.held \in Int
      /\ r.projects \in Seq(Party) /\ given \in Given /\ r.roots \in [Party -> Nat]
  BY RoundParts, RoundLists
<1>g. Gets(wallet, wallet', rounds[i].token, x) /\ x \in Int
  BY <1>1, <1>2, PaidIn
<1> HIDE DEF r
<1>3. projects \in Seq(Party) /\ q \in ToSet(projects) /\ ToSet(r.projects) \subseteq ToSet(projects)
  BY <1>2, ProjectListed
<1> HIDE DEF projects
<1>4. y \in Nat
  <2>1. isqrt_scaled(x) \in Nat
    <3> DEFINE a == x * RootUnit
               b == a * RootUnit
    <3>1. a \in Nat
      BY FundingAssumption, Product
    <3> HIDE DEF a
    <3>2. b \in Nat
      BY <3>1, FundingAssumption, Product
    <3> HIDE DEF b
    <3>3. isqrt(b) \in Nat
      BY <3>2, RootType
    <3> QED BY <3>3 DEF isqrt_scaled, a, b
  <2>2. r.roots[q] \in Nat
    BY <1>2
  <2> QED BY <2>1, <2>2
<1>5. h \in Int
  BY <1>2
<1>6. IsRound(n, r, status, projects, new, h)
  <2> HIDE DEF y, h
  <2> QED BY <1>2, <1>3, <1>4, <1>5, RoundContributed
<1> HIDE DEF n
<1>7. new \in Given /\ SumFunction(AllGifts(new)) = SumFunction(AllGifts(given)) + x
  <2>1. new = [given EXCEPT ![q][p] = x]
    OBVIOUS
  <2>2. given \in Given /\ given[q][p] = None
    BY <1>1, <1>2
  <2> HIDE DEF new, given
  <2>3. GivenAs(new, given, q, p, x)
    BY <2>1, <2>2, GivenPut
  <2> QED BY <2>2, <2>3, GiftAdded
<1>8. GivenAs(new, given, q, p, x)
  <2>1. new = [given EXCEPT ![q][p] = x]
    OBVIOUS
  <2> HIDE DEF new, given
  <2> QED BY <1>2, <2>1, GivenPut
<1> DEFINE g == SumFunction(AllGifts(given))
<1>9. g \in Nat /\ r.held = r.pool + g
  <2>1. g \in Nat
    <3> HIDE DEF given
    <3> QED BY <1>2, GiftsType
  <2> QED BY <1>1, <1>2, <2>1 DEF RoundSound, Awaited
<1>10. n.given = new /\ n.status = "Active" /\ n.pool = r.pool /\ n.held = h /\ n.projects = projects
  BY <1>1, <1>6 DEF IsRound
<1>11. Listed(n)
  <2> SUFFICES ASSUME NEW u \in Party, NEW a \in Party, new[u][a] # None PROVE u \in ToSet(projects)
    BY <1>10 DEF Listed
  <2>1. CASE u = q
    BY <1>3, <2>1
  <2>2. CASE u # q
    <3>1. given[u][a] # None
      <4> HIDE DEF new, given
      <4> QED BY <1>8, <2>2 DEF GivenAs
    <3>2. u \in ToSet(r.projects)
      BY <1>2, <3>1 DEF RoundSound, Listed
    <3> QED BY <1>3, <3>2
  <2> QED BY <2>1, <2>2
<1> HIDE DEF new
<1>12. n.held = n.pool + SumFunction(AllGifts(n.given))
  <2>1. SumFunction(AllGifts(new)) = g + x
    BY <1>7
  <2> HIDE DEF g
  <2> QED BY <1>2, <1>9, <1>10, <2>1
<1>13. RoundSound(n)
  BY <1>10, <1>11, <1>12 DEF RoundSound, Awaited
<1>14. n \in QFRound /\ RoundWritten(i, n)
  <2>1. h = rounds[i].held + x /\ IsRound(n, rounds[i], status, projects, new, h)
    BY <1>6 DEF r
  <2> HIDE DEF h, status
  <2> QED BY <1>1, <1>2, <1>g, <2>1, RoundMoved
<1> QED BY <1>13, <1>14

LEMMA RoundFinalizes ==
  ASSUME RoundsInv, wallet \in Wallets, NEW p, NEW i \in DOMAIN rounds, qf_finalize_round(p, i)
  PROVE  \E n \in QFRound : RoundWritten(i, n) /\ RoundSound(n)
<1> DEFINE r == rounds[i]
           n == RoundEnded(r)
           x == 0
           status == "Finalized"
           projects == r.projects
           given == r.given
           held == r.held
<1>1. rounds' = [rounds EXCEPT ![i] = n] /\ wallet' = wallet /\ r.status = "Active"
  BY DEF qf_finalize_round, RoundEnded
<1>2. rounds \in Seq(QFRound) /\ r \in QFRound /\ RoundSound(r) /\ r.token \in Token /\ r.held \in Int
  BY RoundParts
<1>3. IsRound(n, r, status, projects, given, held)
  BY <1>2, RoundFinished
<1> HIDE DEF n
<1>4. RoundSound(n)
  <2>1. n.projects = r.projects /\ n.given = r.given /\ n.held = r.held /\ n.pool = r.pool /\ n.status = "Finalized"
    BY <1>3 DEF IsRound
  <2> QED BY <1>1, <1>2, <2>1 DEF RoundSound, Awaited, Listed
<1>5. held = rounds[i].held + x /\ x \in Int /\ Gets(wallet, wallet', rounds[i].token, x)
  BY <1>1, <1>2, NothingPaid
<1>6. n \in QFRound /\ RoundWritten(i, n)
  <2>1. IsRound(n, rounds[i], status, projects, given, held)
    BY <1>3
  <2> HIDE DEF status, projects, given, held, x
  <2> QED BY <1>1, <1>2, <1>5, <2>1, RoundMoved
<1> QED BY <1>4, <1>6

-----------------------------------------------------------------------------
\* The distribution: the matches of the projects add up to the pool.
ShareOf(r, k) ==
  IF TotalWeight(r) = 0 THEN 0 ELSE (r.pool * Weight(r, r.projects[k])) \div TotalWeight(r)
SharesUpTo(r, n) == [k \in 1 .. n |-> ShareOf(r, k)]
Matches(r) == [k \in 1 .. Len(r.projects) |-> Match(r, k)]
LEMMA MatchIs ==
  ASSUME NEW r, NEW n
  PROVE  Match(r, n) = IF n < Len(r.projects) THEN ShareOf(r, n) ELSE r.pool - SumFunction(SharesUpTo(r, n - 1))
BY DEF Match, ShareOf, SharesUpTo

LEMMA WeightType ==
  ASSUME NEW r \in QFRound, NEW q \in Party
  PROVE  Weight(r, q) \in Nat
<1> DEFINE a == r.roots[q]
           b == a \div RootUnit
<1>1. a \in Nat
  BY RoundLists
<1> HIDE DEF a
<1>2. b \in Nat
  BY <1>1, FundingAssumption, Portion
<1> HIDE DEF b
<1>3. b * b \in Nat
  BY <1>2, Product
<1> QED BY <1>3 DEF Weight, a, b
LEMMA ProjectsIn ==
  ASSUME NEW r \in QFRound
  PROVE  /\ r.projects \in Seq(Party) /\ ToSet(r.projects) \subseteq Party /\ IsFiniteSet(ToSet(r.projects))
         /\ DOMAIN r.projects = 1 .. Len(r.projects) /\ Len(r.projects) \in Nat
         /\ \A k \in 1 .. Len(r.projects) : r.projects[k] \in Party /\ r.projects[k] \in ToSet(r.projects)
<1> DEFINE s == r.projects
<1>1. s \in Seq(Party)
  BY RoundLists
<1> HIDE DEF s
<1>2. DOMAIN s = 1 .. Len(s) /\ Len(s) \in Nat /\ \A k \in 1 .. Len(s) : s[k] \in Party /\ s[k] \in ToSet(s)
  BY <1>1 DEF ToSet
<1>3. ToSet(s) \subseteq Party
  BY <1>2 DEF ToSet
<1>4. IsFiniteSet(ToSet(s))
  BY <1>3, LedgerAssumption, FS_Subset
<1> QED BY <1>1, <1>2, <1>3, <1>4 DEF s
LEMMA ShareType ==
  ASSUME NEW r \in QFRound, NEW k \in 1 .. Len(r.projects)
  PROVE  ShareOf(r, k) \in Int
<1> DEFINE S == ToSet(r.projects)
           f == [q \in S |-> Weight(r, q)]
           total == TotalWeight(r)
           w == Weight(r, r.projects[k])
           m == r.pool * w
<1>1. S \subseteq Party /\ IsFiniteSet(S) /\ r.projects[k] \in Party
  BY ProjectsIn
<1>2. f \in [S -> Nat]
  BY <1>1, WeightType
<1>3. total = SumFunction(f)
  BY DEF TotalWeight
<1> HIDE DEF S, f
<1>4. total \in Nat
  BY <1>1, <1>2, <1>3, SumNat
<1> HIDE DEF total
<1>5. w \in Nat /\ r.pool \in Nat
  BY <1>1, WeightType, RoundFields
<1> HIDE DEF w
<1>6. m \in Nat
  BY <1>5, Product
<1> HIDE DEF m
<1>7. total # 0 => m \div total \in Nat
  BY <1>4, <1>6, Portion
<1>8. ShareOf(r, k) = IF total = 0 THEN 0 ELSE m \div total
  BY DEF ShareOf, total, m, w
<1> QED BY <1>7, <1>8
LEMMA SharesType ==
  ASSUME NEW r \in QFRound, NEW n \in 0 .. Len(r.projects)
  PROVE  SharesUpTo(r, n) \in [1 .. n -> Int] /\ SumFunction(SharesUpTo(r, n)) \in Int
<1> DEFINE f == SharesUpTo(r, n)
           l == Len(r.projects)
<1>1. l \in Nat
  BY ProjectsIn
<1>2. n \in 0 .. l
  OBVIOUS
<1>3. \A k \in 1 .. n : k \in 1 .. Len(r.projects)
  <2> HIDE DEF l
  <2>1. \A k \in 1 .. n : k \in 1 .. l
    BY <1>1, <1>2
  <2> QED BY <2>1 DEF l
<1>4. f \in [1 .. n -> Int]
  BY <1>3, ShareType DEF SharesUpTo
<1>5. IsFiniteSet(1 .. n)
  <2>1. n \in Int
    BY <1>1, <1>2
  <2> QED BY <2>1, FS_Interval
<1> HIDE DEF f
<1>6. SumFunction(f) \in Int
  BY <1>4, <1>5, SumType
<1> QED BY <1>4, <1>6 DEF f
LEMMA MatchesType ==
  ASSUME NEW r \in QFRound
  PROVE  Matches(r) \in [1 .. Len(r.projects) -> Int]
<1> DEFINE l == Len(r.projects)
<1>1. l \in Nat /\ r.pool \in Nat
  BY ProjectsIn, RoundFields
<1>2. ASSUME NEW k \in 1 .. l PROVE Match(r, k) \in Int
  <2>1. ShareOf(r, k) \in Int
    BY ShareType
  <2> DEFINE m == k - 1
             s == SumFunction(SharesUpTo(r, m))
  <2>2. m \in 0 .. Len(r.projects)
    <3> HIDE DEF l
    <3>1. m \in 0 .. l
      BY <1>1
    <3> QED BY <3>1 DEF l
  <2>3. s \in Int
    <3> HIDE DEF m
    <3> QED BY <2>2, SharesType
  <2>4. Match(r, k) = IF k < l THEN ShareOf(r, k) ELSE r.pool - s
    BY MatchIs
  <2> HIDE DEF s
  <2> QED BY <1>1, <2>1, <2>3, <2>4
<1> QED BY <1>2 DEF Matches
LEMMA MatchesSum ==
  ASSUME NEW r \in QFRound
  PROVE  SumFunction(Matches(r)) = IF Len(r.projects) = 0 THEN 0 ELSE r.pool
<1> DEFINE l == Len(r.projects)
           g == Matches(r)
<1>1. l \in Nat /\ r.pool \in Nat /\ g \in [1 .. l -> Int]
  BY ProjectsIn, RoundFields, MatchesType
<1>2. CASE l = 0
  <2>1. g \in [{} -> Int]
    <3> HIDE DEF g, l
    <3>1. 1 .. l = {}
      BY <1>2
    <3> QED BY <1>1, <3>1
  <2> HIDE DEF g
  <2>2. SumFunction(g) = 0
    BY <2>1, SumEmpty
  <2> QED BY <1>2, <2>2 DEF g
<1>3. CASE l # 0
  <2> DEFINE m == l - 1
             f == SharesUpTo(r, m)
  <2>1. m \in Nat /\ m + 1 = l /\ m \in 0 .. Len(r.projects)
    <3> HIDE DEF l
    <3>1. m \in Nat /\ m + 1 = l /\ m \in 0 .. l
      BY <1>1, <1>3
    <3> QED BY <3>1 DEF l
  <2>2. f \in [1 .. m -> Int] /\ SumFunction(f) \in Int
    <3> HIDE DEF m
    <3> QED BY <2>1, SharesType
  <2>3. \A k \in 1 .. m : k \in 1 .. l /\ k < l
    <3> HIDE DEF l
    <3> QED BY <1>1
  <2>4. ASSUME NEW k \in 1 .. m PROVE g[k] = f[k]
    <3>1. g[k] = Match(r, k) /\ Match(r, k) = ShareOf(r, k)
      BY <2>3, MatchIs DEF Matches
    <3>2. f[k] = ShareOf(r, k)
      BY DEF SharesUpTo
    <3> QED BY <3>1, <3>2
  <2>5. g[l] = r.pool - SumFunction(f)
    <3>1. l \in 1 .. l /\ ~(l < l)
      <4> HIDE DEF l
      <4> QED BY <1>1, <1>3
    <3> QED BY <3>1, MatchIs DEF Matches
  <2>6. g \in [1 .. m + 1 -> Int] /\ g[m + 1] = r.pool - SumFunction(f)
    <3> HIDE DEF g, f, m, l
    <3> QED BY <1>1, <2>1, <2>5
  <2> HIDE DEF g, f, m
  <2>7. SumFunction(g) = SumFunction(f) + g[m + 1]
    BY <2>1, <2>2, <2>4, <2>6, SumAppend
  <2>8. SumFunction(g) = r.pool
    BY <1>1, <2>2, <2>6, <2>7
  <2> QED BY <1>3, <2>8 DEF g
<1> QED BY <1>2, <1>3

\* What everybody has back is the matches and the gifts.
MatchedBy(r) == [a \in Party |-> MatchedTo(r, a)]
LEMMA MatchedSum ==
  ASSUME NEW r \in QFRound
  PROVE  /\ MatchedBy(r) \in [Party -> Int]
         /\ SumFunction(MatchedBy(r)) = IF Len(r.projects) = 0 THEN 0 ELSE r.pool
<1> DEFINE l == Len(r.projects)
           h == r.projects
           g == Matches(r)
<1>1. /\ l \in Nat /\ DOMAIN h = 1 .. l /\ g \in [1 .. l -> Int] /\ h \in [1 .. l -> Party] /\ IsFiniteSet(Party)
  <2>1. l \in Nat /\ DOMAIN h = 1 .. l /\ g \in [1 .. l -> Int] /\ IsFiniteSet(Party) /\ h \in Seq(Party)
    BY ProjectsIn, MatchesType, LedgerAssumption
  <2>2. h \in [1 .. Len(h) -> Party]
    BY <2>1
  <2> QED BY <2>1, <2>2
<1>2. ASSUME NEW a \in Party PROVE MatchedTo(r, a) = Group(h, g, l, a)
  <2>1. \A k \in 1 .. l : g[k] = Match(r, k)
    BY DEF Matches
  <2>2. [k \in DOMAIN h |-> IF h[k] = a THEN Match(r, k) ELSE 0] = [k \in 1 .. l |-> IF h[k] = a THEN g[k] ELSE 0]
    <3> HIDE DEF g, h, l
    <3> QED BY <1>1, <2>1
  <2> QED BY <2>2 DEF MatchedTo, Group
<1>3. MatchedBy(r) = [a \in Party |-> Group(h, g, l, a)]
  BY <1>2 DEF MatchedBy
<1>4. SumFunction(g) = IF l = 0 THEN 0 ELSE r.pool
  BY MatchesSum
<1> HIDE DEF g, h, l
<1>5. SumFunction([a \in Party |-> Group(h, g, l, a)]) = SumFunction(g)
  BY <1>1, SumGrouped
<1>6. ASSUME NEW a \in Party PROVE Group(h, g, l, a) \in Int
  <2> DEFINE f == [k \in 1 .. l |-> IF h[k] = a THEN g[k] ELSE 0]
  <2>1. f \in [1 .. l -> Int] /\ IsFiniteSet(1 .. l)
    BY <1>1, FS_Interval
  <2> HIDE DEF f
  <2>2. SumFunction(f) \in Int
    BY <2>1, SumType
  <2> QED BY <2>2 DEF f, Group
<1>7. MatchedBy(r) \in [Party -> Int]
  BY <1>3, <1>6
<1> QED BY <1>3, <1>4, <1>5, <1>7 DEF l
ReturnedBy(r) == [a \in Party |-> Returned(r, a)]
LEMMA ReturnedSum ==
  ASSUME NEW r \in QFRound, Listed(r)
  PROVE  /\ ReturnedBy(r) \in [Party -> Int]
         /\ SumFunction(ReturnedBy(r)) = (IF Len(r.projects) = 0 THEN 0 ELSE r.pool) + SumFunction(AllGifts(r.given))
<1> DEFINE given == r.given
           S == ToSet(r.projects)
<1>1. given \in Given /\ S \subseteq Party /\ IsFiniteSet(Party)
  BY RoundLists, ProjectsIn, LedgerAssumption
<1>2. ASSUME NEW a \in Party
      PROVE  SumFunction([q \in S |-> Gift(r, q, a)]) = AllGifts(given)[a]
  <2> DEFINE f == GiftsOf(given, a)
             g == [q \in S |-> Gift(r, q, a)]
  <2>1. \A q \in S : g[q] = f[q]
    BY <1>1 DEF Gift, GiftsOf, GiftIn
  <2>2. \A q \in Party \ S : f[q] = 0
    BY DEF Listed, GiftsOf, GiftIn
  <2>3. f \in [Party -> Int]
    BY <1>1, GiftsType
  <2>4. g \in [S -> Int]
    <3>1. DOMAIN g = S /\ \A q \in S : g[q] \in Int
      <4> HIDE DEF f
      <4> QED BY <1>1, <2>1, <2>3
    <3> QED BY <3>1
  <2>5. AllGifts(given)[a] = SumFunction(f)
    BY DEF AllGifts
  <2> HIDE DEF f, g, S
  <2>6. S \in SUBSET Party
    BY <1>1
  <2>7. SumFunction(f) = SumFunction(g)
    BY <1>1, <2>1, <2>2, <2>3, <2>4, <2>6, SumSupported
  <2> QED BY <2>5, <2>7 DEF g
<1> DEFINE f == MatchedBy(r)
           g == AllGifts(given)
           h == ReturnedBy(r)
<1>3. f \in [Party -> Int] /\ g \in [Party -> Int]
  BY <1>1, MatchedSum, GiftsType
<1>4. \A a \in Party : h[a] = f[a] + g[a]
  BY <1>2 DEF ReturnedBy, MatchedBy, Returned
<1>5. DOMAIN h = Party /\ h = [a \in Party |-> h[a]]
  BY DEF ReturnedBy
<1>6. SumFunction(f) = IF Len(r.projects) = 0 THEN 0 ELSE r.pool
  BY MatchedSum
<1> HIDE DEF f, g, h
<1>7. h \in [Party -> Int]
  BY <1>3, <1>4, <1>5
<1>8. SumFunction(h) = SumFunction(f) + SumFunction(g)
  BY <1>1, <1>3, <1>4, <1>7, SumPlus
<1> QED BY <1>6, <1>7, <1>8 DEF g, h
\* Without a project there is no gift.
LEMMA NoProjects ==
  ASSUME NEW r \in QFRound, Listed(r), Len(r.projects) = 0
  PROVE  SumFunction(AllGifts(r.given)) = 0
<1> DEFINE given == r.given
<1>1. given \in Given /\ IsFiniteSet(Party)
  BY RoundLists, LedgerAssumption
<1>2. ToSet(r.projects) = {}
  <2>1. DOMAIN r.projects = 1 .. 0
    BY ProjectsIn
  <2> QED BY <2>1 DEF ToSet
<1>3. \A q, a \in Party : given[q][a] = None
  BY <1>2 DEF Listed
<1> HIDE DEF given
<1>4. ASSUME NEW a \in Party PROVE AllGifts(given)[a] = 0
  <2> DEFINE f == GiftsOf(given, a)
  <2>1. f \in [Party -> Int] /\ \A q \in Party : f[q] = 0
    BY <1>1, <1>3, GiftsType DEF GiftsOf, GiftIn
  <2>2. AllGifts(given)[a] = SumFunction(f)
    BY DEF AllGifts
  <2> HIDE DEF f
  <2> QED BY <1>1, <2>1, <2>2, SumZero
<1> DEFINE g == AllGifts(given)
<1>5. g \in [Party -> Int] /\ \A a \in Party : g[a] = 0
  BY <1>1, <1>4, GiftsType
<1> HIDE DEF g
<1>6. SumFunction(g) = 0
  BY <1>1, <1>5, SumZero
<1> QED BY <1>6 DEF g, given

PaidAll(w, t, f, x) ==
  [w EXCEPT ![t] = [a \in Account |-> IF a = Jar THEN w[t][a] - x ELSE w[t][a] + f[a]]]
LEMMA PaidToAll ==
  ASSUME NEW w \in Wallets, NEW t \in Token, NEW f \in [Party -> Int], NEW x \in Int, NEW v,
         v = PaidAll(w, t, f, x)
  PROVE  Gets(w, v, t, -x)
<1> DEFINE row == [a \in Account |-> IF a = Jar THEN w[t][a] - x ELSE w[t][a] + f[a]]
<1>1. w[t] \in [Account -> Int] /\ Jar \in Account /\ \A a \in Account : a # Jar => a \in Party
  BY DEF Wallets, Account
<1>2. row \in [Account -> Int] /\ row[Jar] = w[t][Jar] - x
  BY <1>1
<1>3. v = [w EXCEPT ![t] = row]
  BY DEF PaidAll
<1> HIDE DEF row
<1>4. v \in Wallets /\ \A u \in Token : v[u] = IF u = t THEN row ELSE w[u]
  BY <1>2, <1>3 DEF Wallets
<1>5. ASSUME NEW u \in Token PROVE v[u][Jar] \in Int /\ v[u][Jar] = w[u][Jar] + (IF u = t THEN -x ELSE 0)
  BY <1>2, <1>4, JarsAccount
<1> QED BY <1>4, <1>5 DEF Gets

LEMMA RoundDistributes ==
  ASSUME RoundsInv, wallet \in Wallets, NEW p, NEW i \in DOMAIN rounds, qf_distribute_matching(p, i)
  PROVE  \E n \in QFRound : RoundWritten(i, n) /\ RoundSound(n)
<1> DEFINE r == rounds[i]
           f == ReturnedBy(r)
           sum == SumFunction(f)
           held == r.held - sum
           n == RoundShared(r, held)
           status == "Distributed"
           projects == r.projects
           given == r.given
           x == -sum
           g == SumFunction(AllGifts(r.given))
<1>1. /\ rounds' = [rounds EXCEPT ![i] = n] /\ r.status = "Finalized"
      /\ wallet' = [wallet EXCEPT ![r.token] =
           [a \in DOMAIN wallet[r.token] |->
              IF a = Jar THEN wallet[r.token][a] - sum ELSE wallet[r.token][a] + Returned(r, a)]]
  BY DEF qf_distribute_matching, RoundShared, ReturnedBy
<1>2. /\ rounds \in Seq(QFRound) /\ r \in QFRound /\ RoundSound(r) /\ r.token \in Token /\ r.held \in Int
      /\ r.pool \in Nat
  BY RoundParts
<1>3. f \in [Party -> Int] /\ sum = (IF Len(r.projects) = 0 THEN 0 ELSE r.pool) + g
  BY <1>2, ReturnedSum DEF RoundSound
<1>4. sum \in Int /\ g \in Nat
  BY <1>2, <1>3, LedgerAssumption, SumType, RoundLists, GiftsType
<1>5. wallet' = PaidAll(wallet, r.token, f, sum)
  <2>1. DOMAIN wallet[r.token] = Account /\ \A a \in Account : a # Jar => Returned(r, a) = f[a]
    BY <1>2 DEF Wallets, Account, ReturnedBy
  <2>2. [a \in DOMAIN wallet[r.token] |->
              IF a = Jar THEN wallet[r.token][a] - sum ELSE wallet[r.token][a] + Returned(r, a)]
        = [a \in Account |-> IF a = Jar THEN wallet[r.token][a] - sum ELSE wallet[r.token][a] + f[a]]
    <3> HIDE DEF f, sum, r
    <3> QED BY <2>1
  <2> HIDE DEF f, sum
  <2> QED BY <1>1, <2>2 DEF PaidAll
<1> HIDE DEF f, sum
<1>6. Gets(wallet, wallet', rounds[i].token, x) /\ x \in Int
  BY <1>2, <1>3, <1>4, <1>5, PaidToAll
<1>7. held \in Int /\ held = rounds[i].held + x
  BY <1>2, <1>4
<1>8. IsRound(n, r, status, projects, given, held)
  <2> HIDE DEF held
  <2> QED BY <1>2, <1>7, RoundDistributed
<1> HIDE DEF n
<1>9. held = IF r.projects = <<>> THEN r.pool ELSE 0
  <2>1. r.held = r.pool + g
    BY <1>1, <1>2 DEF RoundSound, Awaited
  <2>2. r.projects = <<>> <=> Len(r.projects) = 0
    <3> DEFINE s == r.projects
    <3>1. s \in Seq(Party)
      BY <1>2, RoundLists
    <3> HIDE DEF s
    <3>2. s = <<>> <=> Len(s) = 0
      BY <3>1
    <3> QED BY <3>2 DEF s
  <2>3. Len(r.projects) = 0 => g = 0
    BY <1>2, NoProjects DEF RoundSound
  <2> HIDE DEF g
  <2> QED BY <1>2, <1>3, <1>4, <2>1, <2>2, <2>3
<1>10. RoundSound(n)
  <2>1. n.projects = r.projects /\ n.given = r.given /\ n.held = held /\ n.pool = r.pool /\ n.status = "Distributed"
    BY <1>8 DEF IsRound
  <2> HIDE DEF held
  <2> QED BY <1>2, <1>9, <2>1 DEF RoundSound, Awaited, Listed
<1>11. n \in QFRound /\ RoundWritten(i, n)
  <2>1. IsRound(n, rounds[i], status, projects, given, held)
    BY <1>8
  <2> HIDE DEF status, projects, given, held, x
  <2> QED BY <1>1, <1>2, <1>6, <1>7, <2>1, RoundMoved
<1> QED BY <1>10, <1>11

LEMMA RoundsStep ==
  ASSUME RoundsInv, wallet \in Wallets, now \in Int, QuadraticNext
  PROVE  RoundsInv' /\ RoundsFollow
<1>a. Amounts \subseteq Nat /\ RoundTimes \subseteq Nat
  BY LedgerAssumption, FundingAssumption
<1> DEFINE G == {f \in QFRound : RoundSound(f)}
<1>1. rounds \in Seq(QFRound) /\ G \in SUBSET QFRound /\ \A j \in DOMAIN rounds : rounds[j] \in G
  BY RoundsNow
<1>2. CASE \E p \in Party, t \in Token, x \in Amounts, m \in RoundTimes : qf_create_round(p, t, x, m)
  <2>1. PICK n \in QFRound : RoundOpened(n) /\ RoundSound(n)
    <3>1. PICK p \in Party, t \in Token, x \in Amounts, m \in RoundTimes : qf_create_round(p, t, x, m)
      BY <1>2, Zenon
    <3>2. x \in Nat /\ m \in Nat
      BY <1>a
    <3> QED BY <3>1, <3>2, RoundCreated
  <2>2. rounds' \in Seq(QFRound) /\ RoundsFollow
    BY <1>1, <2>1, RoundsChanged
  <2>3. n \in G /\ rounds' = Append(rounds, n)
    BY <2>1 DEF RoundOpened
  <2> HIDE DEF G
  <2>4. \A j \in DOMAIN rounds' : rounds'[j] \in G
    BY <1>1, <2>3, EachExtended
  <2> QED BY <2>2, <2>4, RoundsLater DEF G
<1>3. ASSUME NEW p \in Party, NEW i \in DOMAIN rounds,
             \/ \E q \in Party, x \in Amounts : qf_contribute(p, i, q, x)
             \/ qf_finalize_round(p, i) \/ qf_distribute_matching(p, i)
      PROVE  RoundsInv' /\ RoundsFollow
  <2>1. PICK n \in QFRound : RoundWritten(i, n) /\ RoundSound(n)
    <3>1. ASSUME NEW q \in Party, NEW x \in Amounts, qf_contribute(p, i, q, x)
          PROVE  \E n \in QFRound : RoundWritten(i, n) /\ RoundSound(n)
      BY <1>a, <3>1, RoundContributes
    <3>2. CASE qf_finalize_round(p, i)
      BY <3>2, RoundFinalizes
    <3>3. CASE qf_distribute_matching(p, i)
      BY <3>3, RoundDistributes
    <3> QED BY <1>3, <3>1, <3>2, <3>3, Zenon
  <2>2. rounds' \in Seq(QFRound) /\ RoundsFollow
    BY <1>1, <2>1, RoundsChanged
  <2>3. n \in G /\ rounds' = [rounds EXCEPT ![i] = n]
    BY <2>1 DEF RoundWritten
  <2> HIDE DEF G
  <2>4. \A j \in DOMAIN rounds' : rounds'[j] \in G
    BY <1>1, <2>3, EachWritten
  <2> QED BY <2>2, <2>4, RoundsLater DEF G
<1> QED BY <1>2, <1>3, Zenon DEF QuadraticNext

-----------------------------------------------------------------------------
(* All of them together *)

\* A tip: without a credit account nothing is held back, and the balance of the creator
\* grows by all of it.
NoCredit == PerParty(PerToken(None))
Balances == [Party -> [Token -> Int]]
Tipped(b, c, t, x) ==
  [b EXCEPT !.balance[c][t] = b.balance[c][t] + x, !.total[c][t] = b.total[c][t] + x,
            !.fees[t] = b.fees[t], !.reserves[t] = b.reserves[t], !.credit = b.credit]
TippedAs(b, n, t, x) ==
  /\ n \in Books /\ n.credit = b.credit
  /\ \A u \in Token : /\ RecordedIn(b, u) \in Int /\ RecordedIn(n, u) \in Int
                      /\ RecordedIn(n, u) = RecordedIn(b, u) + (IF u = t THEN x ELSE 0)
RaisedAt(g, h, c, t, x) ==
  \A d \in Party, u \in Token : h[d][u] = g[d][u] + (IF d = c /\ u = t THEN x ELSE 0)
LEMMA BalanceRaised ==
  ASSUME NEW g \in Balances, NEW c \in Party, NEW t \in Token, NEW x \in Int,
         NEW h, h = [g EXCEPT ![c][t] = g[c][t] + x]
  PROVE  h \in Balances /\ RaisedAt(g, h, c, t, x)
BY DEF Balances, RaisedAt
LEMMA BooksRecord ==
  ASSUME NEW b \in Books, NEW u \in Token
  PROVE  /\ RecordedIn(b, u) = SumFunction([c \in Party |-> b.balance[c][u]]) + b.fees[u] + b.reserves[u]
         /\ SumFunction([c \in Party |-> b.balance[c][u]]) \in Int
         /\ b.balance \in Balances /\ b.total \in Balances
         /\ b.fees \in [Token -> Int] /\ b.reserves \in [Token -> Int]
         /\ RecordedIn(b, u) \in Int
<1> DEFINE f == [c \in Party |-> b.balance[c][u]]
<1>1. /\ b.balance \in Balances /\ b.total \in Balances
      /\ b.fees \in [Token -> Int] /\ b.reserves \in [Token -> Int]
  BY DEF Books, Balances
<1>2. f \in [Party -> Int]
  BY <1>1 DEF Balances
<1>3. RecordedIn(b, u) = SumFunction(f) + b.fees[u] + b.reserves[u]
  BY DEF RecordedIn
<1> HIDE DEF f
<1>4. SumFunction(f) \in Int
  BY <1>2, LedgerAssumption, SumType
<1>5. b.fees[u] \in Int /\ b.reserves[u] \in Int
  BY <1>1
<1>6. RecordedIn(b, u) \in Int
  BY <1>3, <1>4, <1>5
<1> QED BY <1>1, <1>3, <1>4, <1>6 DEF f
LEMMA TipRecorded ==
  ASSUME NEW b \in Books, NEW c \in Party, NEW t \in Token, NEW x \in Int
  PROVE  TippedAs(b, Tipped(b, c, t, x), t, x)
<1> DEFINE bal == [b.balance EXCEPT ![c][t] = b.balance[c][t] + x]
           tot == [b.total EXCEPT ![c][t] = b.total[c][t] + x]
           fee == [b.fees EXCEPT ![t] = b.fees[t]]
           res == [b.reserves EXCEPT ![t] = b.reserves[t]]
           n == [b EXCEPT !.balance = bal, !.total = tot, !.fees = fee, !.reserves = res, !.credit = b.credit]
<1>1. /\ b.balance \in Balances /\ b.total \in Balances
      /\ b.fees \in [Token -> Int] /\ b.reserves \in [Token -> Int]
  BY BooksRecord
<1>2. bal \in Balances /\ RaisedAt(b.balance, bal, c, t, x) /\ tot \in Balances
  <2> DEFINE g == b.balance
             k == b.total
  <2>1. g \in Balances /\ k \in Balances /\ bal = [g EXCEPT ![c][t] = g[c][t] + x] /\ tot = [k EXCEPT ![c][t] = k[c][t] + x]
    BY <1>1
  <2> HIDE DEF g, k, bal, tot
  <2>2. bal \in Balances /\ RaisedAt(g, bal, c, t, x) /\ tot \in Balances
    BY <2>1, BalanceRaised
  <2> QED BY <2>2 DEF g
<1>3. fee = b.fees /\ res = b.reserves
  BY <1>1
<1>4. Tipped(b, c, t, x) = n
  BY DEF Tipped
<1> HIDE DEF bal, tot, fee, res
<1>5. n \in Books /\ n.balance = bal /\ n.fees = b.fees /\ n.reserves = b.reserves /\ n.credit = b.credit
  BY <1>1, <1>2, <1>3 DEF Books, Balances
<1> HIDE DEF n
<1>6. ASSUME NEW u \in Token
      PROVE  /\ RecordedIn(b, u) \in Int /\ RecordedIn(n, u) \in Int
             /\ RecordedIn(n, u) = RecordedIn(b, u) + (IF u = t THEN x ELSE 0)
  <2> DEFINE f == [d \in Party |-> b.balance[d][u]]
             g == [d \in Party |-> n.balance[d][u]]
             v == b.fees[u]
             w == b.reserves[u]
             e == IF u = t THEN x ELSE 0
  <2>1. /\ RecordedIn(b, u) = SumFunction(f) + v + w /\ SumFunction(f) \in Int
        /\ RecordedIn(n, u) = SumFunction(g) + v + w /\ v \in Int /\ w \in Int
        /\ RecordedIn(b, u) \in Int /\ RecordedIn(n, u) \in Int
    BY <1>1, <1>5, BooksRecord
  <2>2. f \in [Party -> Int] /\ g \in [Party -> Int] /\ IsFiniteSet(Party)
    BY <1>1, <1>2, <1>5, LedgerAssumption DEF Balances
  <2>3. (\A d \in Party \ {c} : g[d] = f[d]) /\ g[c] = f[c] + e
    <3>1. \A d \in Party : bal[d][u] = b.balance[d][u] + (IF d = c /\ u = t THEN x ELSE 0) /\ b.balance[d][u] \in Int
      BY <1>1, <1>2 DEF RaisedAt, Balances
    <3>2. \A d \in Party : g[d] = bal[d][u] /\ f[d] = b.balance[d][u]
      BY <1>5
    <3> HIDE DEF f, g
    <3> QED BY <3>1, <3>2
  <2>e. e \in Int
    OBVIOUS
  <2> HIDE DEF f, g, v, w, e
  <2>4. SumFunction(g) = SumFunction(f) + g[c] - f[c] /\ f[c] \in Int
    BY <2>2, <2>3, SumUpdate
  <2>5. RecordedIn(n, u) = RecordedIn(b, u) + e
    BY <2>1, <2>3, <2>4, <2>e
  <2> QED BY <2>1, <2>5 DEF e
<1> QED BY <1>4, <1>5, <1>6 DEF TippedAs
LEMMA CreditIsTip ==
  ASSUME books \in Books, books.credit = NoCredit, NEW c \in Party, NEW t \in Token, NEW x \in Int
  PROVE  CreditTo(books, c, t, x, x, 0, 0) = Tipped(books, c, t, x)
<1> DEFINE b == books
<1>1. Repayment(b.credit, c, t, x) = 0
  <2>1. b.credit[c][t] = None
    BY DEF NoCredit, PerParty, PerToken
  <2> QED BY <2>1 DEF Repayment
<1>2. AfterRepayment(b.credit, c, t, x) = b.credit
  BY <1>1 DEF AfterRepayment
<1>3. b.balance[c][t] \in Int /\ b.fees[t] \in Int /\ b.reserves[t] \in Int
  BY DEF Books
<1>4. b.balance[c][t] + x - 0 = b.balance[c][t] + x /\ b.fees[t] + 0 + 0 = b.fees[t] /\ b.reserves[t] + 0 = b.reserves[t]
  BY <1>3
<1> HIDE DEF b
<1>5. CreditTo(b, c, t, x, x, 0, 0) =
        [b EXCEPT !.balance[c][t] = b.balance[c][t] + x - 0, !.total[c][t] = b.total[c][t] + x,
                  !.fees[t] = b.fees[t] + 0 + 0, !.reserves[t] = b.reserves[t] + 0, !.credit = b.credit]
  BY <1>1, <1>2 DEF CreditTo
<1>6. CreditTo(b, c, t, x, x, 0, 0) = Tipped(b, c, t, x)
  BY <1>4, <1>5 DEF Tipped
<1> QED BY <1>6 DEF b

-----------------------------------------------------------------------------
\* What each of them holds is a number.
HoldingsTyped(t) ==
  /\ Recorded(t) \in Int
  /\ PoolHoldings(t) \in Int
  /\ MarketEscrow(t) \in Int
  /\ FuturesEscrow(t) \in Int
  /\ StopEscrow(t) \in Int
  /\ MakerInventory(t) \in Int
  /\ CurveHoldings(t) \in Int
  /\ MiningHoldings(t) \in Int
  /\ RoundsHeld(t) \in Int
  /\ RetrosHeld(t) \in Int
  /\ FundHoldings(t) \in Int
LEMMA PoolHoldingsType ==
  ASSUME pools \in Seq(Pool), NEW t \in Token
  PROVE  PoolHoldings(t) \in Int
<1>1. PoolHoldings(t) = Worth(pools, PoolBook(t)) /\ PoolBook(t) \in [Pool -> Int]
  BY PoolsWorth, PoolBookType
<1> QED BY <1>1, WorthType
LEMMA BetHoldingsType ==
  ASSUME markets \in Seq(PredMarket), NEW t \in Token
  PROVE  MarketEscrow(t) \in Int
<1>1. MarketEscrow(t) = Worth(markets, BetBook(t)) /\ BetBook(t) \in [PredMarket -> Int]
  BY BetsWorth, BetBookType
<1> QED BY <1>1, WorthType
LEMMA FutureHoldingsType ==
  ASSUME futures \in Seq(Contract), NEW t \in Token
  PROVE  FuturesEscrow(t) \in Int
<1>1. FuturesEscrow(t) = Worth(futures, FutureBook(t)) /\ FutureBook(t) \in [Contract -> Int]
  BY FuturesWorth, FutureBookType
<1> QED BY <1>1, WorthType
LEMMA OrderHoldingsType ==
  ASSUME orders \in Seq(StopOrder), NEW t \in Token
  PROVE  StopEscrow(t) \in Int
<1>1. StopEscrow(t) = Worth(orders, OrderBook(t)) /\ OrderBook(t) \in [StopOrder -> Int]
  BY OrdersWorth, OrderBookType
<1> QED BY <1>1, WorthType
LEMMA MakerHoldingsType ==
  ASSUME makers \in Seq(MarketMaker), NEW t \in Token
  PROVE  MakerInventory(t) \in Int
<1>1. MakerInventory(t) = Worth(makers, MakerBook(t)) /\ MakerBook(t) \in [MarketMaker -> Int]
  BY MakersWorth, MakerBookType
<1> QED BY <1>1, WorthType
LEMMA CurveHoldingsType ==
  ASSUME curves \in Seq(Curve), NEW t \in Token
  PROVE  CurveHoldings(t) \in Int
<1>1. CurveHoldings(t) = Worth(curves, CurveBook(t)) /\ CurveBook(t) \in [Curve -> Int]
  BY CurvesWorth, CurveBookType
<1> QED BY <1>1, WorthType
LEMMA ProgramHoldingsType ==
  ASSUME programs \in Seq(Program), NEW t \in Token
  PROVE  MiningHoldings(t) \in Int
<1>1. MiningHoldings(t) = Worth(programs, ProgramBook(t)) /\ ProgramBook(t) \in [Program -> Int]
  BY MiningWorth, ProgramBookType
<1> QED BY <1>1, WorthType
LEMMA RoundHoldingsType ==
  ASSUME rounds \in Seq(QFRound), NEW t \in Token
  PROVE  RoundsHeld(t) \in Int
<1>1. RoundsHeld(t) = Worth(rounds, RoundBook(t)) /\ RoundBook(t) \in [QFRound -> Int]
  BY RoundsWorth, RoundBookType
<1> QED BY <1>1, WorthType
LEMMA RetroHoldingsType ==
  ASSUME retros \in Seq(RetroRound), NEW t \in Token
  PROVE  RetrosHeld(t) \in Int
<1>1. RetrosHeld(t) = Worth(retros, RetroBook(t)) /\ RetroBook(t) \in [RetroRound -> Int]
  BY RetrosWorth, RetroBookType
<1> QED BY <1>1, WorthType
LEMMA FundHoldingsType ==
  ASSUME funds \in Seq(IndexFund), NEW t \in Token
  PROVE  FundHoldings(t) \in Int
<1>1. FundHoldings(t) = Worth(funds, FundBook(t)) /\ FundBook(t) \in [IndexFund -> Int]
  BY FundsWorth, FundBookType
<1> QED BY <1>1, WorthType
LEMMA ListsTyped ==
  ASSUME MarketsInv
  PROVE  /\ pools \in Seq(Pool) /\ markets \in Seq(PredMarket) /\ futures \in Seq(Contract)
         /\ orders \in Seq(StopOrder) /\ makers \in Seq(MarketMaker) /\ curves \in Seq(Curve)
         /\ programs \in Seq(Program) /\ rounds \in Seq(QFRound) /\ retros \in Seq(RetroRound)
         /\ funds \in Seq(IndexFund) /\ books \in Books /\ wallet \in Wallets /\ now \in Int
         /\ books.credit = NoCredit
BY DEF MarketsInv, LedgerTypeOK, AmmInv, PredictionInv, FuturesInv, StopsInv, MakersInv, MiningInv, RoundsInv,
       RetrosInv, FundsInv, NoCredit
LEMMA AllTyped ==
  ASSUME MarketsInv, NEW t \in Token
  PROVE  HoldingsTyped(t)
<1>1. Recorded(t) \in Int
  BY ListsTyped, BooksRecord DEF Recorded
<1> QED BY <1>1, ListsTyped, PoolHoldingsType, BetHoldingsType, FutureHoldingsType, OrderHoldingsType, MakerHoldingsType, CurveHoldingsType, ProgramHoldingsType, RoundHoldingsType, RetroHoldingsType, FundHoldingsType DEF HoldingsTyped

\* What the jar owes to all of them.
Owed(t) ==
  Recorded(t) + PoolHoldings(t) + MarketEscrow(t) + FuturesEscrow(t) + StopEscrow(t) + MakerInventory(t)
    + CurveHoldings(t) + MiningHoldings(t) + (RoundsHeld(t) + RetrosHeld(t)) + FundHoldings(t)
LEMMA AccountedNow == MarketsAccounted <=> \A t \in Token : wallet[t][Jar] = Owed(t)
BY DEF MarketsAccounted, Owed, RoundEscrow, RoundsHeld, RetrosHeld
LEMMA AccountedNext == MarketsAccounted' <=> \A t \in Token : wallet'[t][Jar] = Owed(t)'
BY DEF MarketsAccounted, Owed, RoundEscrow, RoundsHeld, RetrosHeld

\* A list that stays has the same worth.
LEMMA PoolFixed ==
  ASSUME pools' = pools, NEW t
  PROVE  PoolHoldings(t)' = PoolHoldings(t)
BY DEF PoolHoldings, PoolHolds
LEMMA BetFixed ==
  ASSUME markets' = markets, NEW t
  PROVE  MarketEscrow(t)' = MarketEscrow(t)
BY DEF MarketEscrow, BetsHeld
LEMMA FutureFixed ==
  ASSUME futures' = futures, NEW t
  PROVE  FuturesEscrow(t)' = FuturesEscrow(t)
BY DEF FuturesEscrow, MarginHeld
LEMMA OrderFixed ==
  ASSUME orders' = orders, NEW t
  PROVE  StopEscrow(t)' = StopEscrow(t)
BY DEF StopEscrow, OrderHolds
LEMMA MakerFixed ==
  ASSUME makers' = makers, NEW t
  PROVE  MakerInventory(t)' = MakerInventory(t)
BY DEF MakerInventory, MakerHolds
LEMMA CurveFixed ==
  ASSUME curves' = curves, NEW t
  PROVE  CurveHoldings(t)' = CurveHoldings(t)
BY DEF CurveHoldings, CurveHolds
LEMMA ProgramFixed ==
  ASSUME programs' = programs, NEW t
  PROVE  MiningHoldings(t)' = MiningHoldings(t)
BY DEF MiningHoldings, ProgramHolds
LEMMA RoundFixed ==
  ASSUME rounds' = rounds, NEW t
  PROVE  RoundsHeld(t)' = RoundsHeld(t)
BY DEF RoundsHeld, RoundHolds
LEMMA RetroFixed ==
  ASSUME retros' = retros, NEW t
  PROVE  RetrosHeld(t)' = RetrosHeld(t)
BY DEF RetrosHeld, RetroHolds
LEMMA FundFixed ==
  ASSUME funds' = funds, NEW t
  PROVE  FundHoldings(t)' = FundHoldings(t)
BY DEF FundHoldings, FundHolds
LEMMA BooksFixed ==
  ASSUME books' = books, NEW t
  PROVE  Recorded(t)' = Recorded(t)
BY DEF Recorded, RecordedIn
LEMMA PoolAccounted ==
  ASSUME MarketsInv, PoolsFollow, books' = books, markets' = markets, futures' = futures, orders' = orders, makers' = makers, curves' = curves, programs' = programs, rounds' = rounds, retros' = retros, funds' = funds
  PROVE  MarketsAccounted'
<1> SUFFICES ASSUME NEW t \in Token PROVE wallet'[t][Jar] = Owed(t)'
  BY AccountedNext
<1>1. wallet[t][Jar] = Owed(t) /\ HoldingsTyped(t)
  BY AccountedNow, AllTyped DEF MarketsInv
<1>2. PoolHoldings(t)' \in Int /\ wallet'[t][Jar] = wallet[t][Jar] + PoolHoldings(t)' - PoolHoldings(t)
  BY DEF PoolsFollow
<1>3. /\ Recorded(t)' = Recorded(t)
      /\ MarketEscrow(t)' = MarketEscrow(t)
      /\ FuturesEscrow(t)' = FuturesEscrow(t)
      /\ StopEscrow(t)' = StopEscrow(t)
      /\ MakerInventory(t)' = MakerInventory(t)
      /\ CurveHoldings(t)' = CurveHoldings(t)
      /\ MiningHoldings(t)' = MiningHoldings(t)
      /\ RoundsHeld(t)' = RoundsHeld(t)
      /\ RetrosHeld(t)' = RetrosHeld(t)
      /\ FundHoldings(t)' = FundHoldings(t)
  BY BooksFixed, BetFixed, FutureFixed, OrderFixed, MakerFixed, CurveFixed, ProgramFixed, RoundFixed, RetroFixed, FundFixed
<1> QED BY <1>1, <1>2, <1>3 DEF Owed, HoldingsTyped
LEMMA BetAccounted ==
  ASSUME MarketsInv, BetsFollow, books' = books, pools' = pools, futures' = futures, orders' = orders, makers' = makers, curves' = curves, programs' = programs, rounds' = rounds, retros' = retros, funds' = funds
  PROVE  MarketsAccounted'
<1> SUFFICES ASSUME NEW t \in Token PROVE wallet'[t][Jar] = Owed(t)'
  BY AccountedNext
<1>1. wallet[t][Jar] = Owed(t) /\ HoldingsTyped(t)
  BY AccountedNow, AllTyped DEF MarketsInv
<1>2. MarketEscrow(t)' \in Int /\ wallet'[t][Jar] = wallet[t][Jar] + MarketEscrow(t)' - MarketEscrow(t)
  BY DEF BetsFollow
<1>3. /\ Recorded(t)' = Recorded(t)
      /\ PoolHoldings(t)' = PoolHoldings(t)
      /\ FuturesEscrow(t)' = FuturesEscrow(t)
      /\ StopEscrow(t)' = StopEscrow(t)
      /\ MakerInventory(t)' = MakerInventory(t)
      /\ CurveHoldings(t)' = CurveHoldings(t)
      /\ MiningHoldings(t)' = MiningHoldings(t)
      /\ RoundsHeld(t)' = RoundsHeld(t)
      /\ RetrosHeld(t)' = RetrosHeld(t)
      /\ FundHoldings(t)' = FundHoldings(t)
  BY BooksFixed, PoolFixed, FutureFixed, OrderFixed, MakerFixed, CurveFixed, ProgramFixed, RoundFixed, RetroFixed, FundFixed
<1> QED BY <1>1, <1>2, <1>3 DEF Owed, HoldingsTyped
LEMMA FutureAccounted ==
  ASSUME MarketsInv, FuturesFollow, books' = books, pools' = pools, markets' = markets, orders' = orders, makers' = makers, curves' = curves, programs' = programs, rounds' = rounds, retros' = retros, funds' = funds
  PROVE  MarketsAccounted'
<1> SUFFICES ASSUME NEW t \in Token PROVE wallet'[t][Jar] = Owed(t)'
  BY AccountedNext
<1>1. wallet[t][Jar] = Owed(t) /\ HoldingsTyped(t)
  BY AccountedNow, AllTyped DEF MarketsInv
<1>2. FuturesEscrow(t)' \in Int /\ wallet'[t][Jar] = wallet[t][Jar] + FuturesEscrow(t)' - FuturesEscrow(t)
  BY DEF FuturesFollow
<1>3. /\ Recorded(t)' = Recorded(t)
      /\ PoolHoldings(t)' = PoolHoldings(t)
      /\ MarketEscrow(t)' = MarketEscrow(t)
      /\ StopEscrow(t)' = StopEscrow(t)
      /\ MakerInventory(t)' = MakerInventory(t)
      /\ CurveHoldings(t)' = CurveHoldings(t)
      /\ MiningHoldings(t)' = MiningHoldings(t)
      /\ RoundsHeld(t)' = RoundsHeld(t)
      /\ RetrosHeld(t)' = RetrosHeld(t)
      /\ FundHoldings(t)' = FundHoldings(t)
  BY BooksFixed, PoolFixed, BetFixed, OrderFixed, MakerFixed, CurveFixed, ProgramFixed, RoundFixed, RetroFixed, FundFixed
<1> QED BY <1>1, <1>2, <1>3 DEF Owed, HoldingsTyped
LEMMA OrderAccounted ==
  ASSUME MarketsInv, OrdersFollow, books' = books, pools' = pools, markets' = markets, futures' = futures, makers' = makers, curves' = curves, programs' = programs, rounds' = rounds, retros' = retros, funds' = funds
  PROVE  MarketsAccounted'
<1> SUFFICES ASSUME NEW t \in Token PROVE wallet'[t][Jar] = Owed(t)'
  BY AccountedNext
<1>1. wallet[t][Jar] = Owed(t) /\ HoldingsTyped(t)
  BY AccountedNow, AllTyped DEF MarketsInv
<1>2. StopEscrow(t)' \in Int /\ wallet'[t][Jar] = wallet[t][Jar] + StopEscrow(t)' - StopEscrow(t)
  BY DEF OrdersFollow
<1>3. /\ Recorded(t)' = Recorded(t)
      /\ PoolHoldings(t)' = PoolHoldings(t)
      /\ MarketEscrow(t)' = MarketEscrow(t)
      /\ FuturesEscrow(t)' = FuturesEscrow(t)
      /\ MakerInventory(t)' = MakerInventory(t)
      /\ CurveHoldings(t)' = CurveHoldings(t)
      /\ MiningHoldings(t)' = MiningHoldings(t)
      /\ RoundsHeld(t)' = RoundsHeld(t)
      /\ RetrosHeld(t)' = RetrosHeld(t)
      /\ FundHoldings(t)' = FundHoldings(t)
  BY BooksFixed, PoolFixed, BetFixed, FutureFixed, MakerFixed, CurveFixed, ProgramFixed, RoundFixed, RetroFixed, FundFixed
<1> QED BY <1>1, <1>2, <1>3 DEF Owed, HoldingsTyped
LEMMA MakerAccounted ==
  ASSUME MarketsInv, MakersFollow, books' = books, pools' = pools, markets' = markets, futures' = futures, orders' = orders, curves' = curves, programs' = programs, rounds' = rounds, retros' = retros, funds' = funds
  PROVE  MarketsAccounted'
<1> SUFFICES ASSUME NEW t \in Token PROVE wallet'[t][Jar] = Owed(t)'
  BY AccountedNext
<1>1. wallet[t][Jar] = Owed(t) /\ HoldingsTyped(t)
  BY AccountedNow, AllTyped DEF MarketsInv
<1>2. MakerInventory(t)' \in Int /\ wallet'[t][Jar] = wallet[t][Jar] + MakerInventory(t)' - MakerInventory(t)
  BY DEF MakersFollow
<1>3. /\ Recorded(t)' = Recorded(t)
      /\ PoolHoldings(t)' = PoolHoldings(t)
      /\ MarketEscrow(t)' = MarketEscrow(t)
      /\ FuturesEscrow(t)' = FuturesEscrow(t)
      /\ StopEscrow(t)' = StopEscrow(t)
      /\ CurveHoldings(t)' = CurveHoldings(t)
      /\ MiningHoldings(t)' = MiningHoldings(t)
      /\ RoundsHeld(t)' = RoundsHeld(t)
      /\ RetrosHeld(t)' = RetrosHeld(t)
      /\ FundHoldings(t)' = FundHoldings(t)
  BY BooksFixed, PoolFixed, BetFixed, FutureFixed, OrderFixed, CurveFixed, ProgramFixed, RoundFixed, RetroFixed, FundFixed
<1> QED BY <1>1, <1>2, <1>3 DEF Owed, HoldingsTyped
LEMMA CurveAccounted ==
  ASSUME MarketsInv, CurvesFollow, books' = books, pools' = pools, markets' = markets, futures' = futures, orders' = orders, makers' = makers, programs' = programs, rounds' = rounds, retros' = retros, funds' = funds
  PROVE  MarketsAccounted'
<1> SUFFICES ASSUME NEW t \in Token PROVE wallet'[t][Jar] = Owed(t)'
  BY AccountedNext
<1>1. wallet[t][Jar] = Owed(t) /\ HoldingsTyped(t)
  BY AccountedNow, AllTyped DEF MarketsInv
<1>2. CurveHoldings(t)' \in Int /\ wallet'[t][Jar] = wallet[t][Jar] + CurveHoldings(t)' - CurveHoldings(t)
  BY DEF CurvesFollow
<1>3. /\ Recorded(t)' = Recorded(t)
      /\ PoolHoldings(t)' = PoolHoldings(t)
      /\ MarketEscrow(t)' = MarketEscrow(t)
      /\ FuturesEscrow(t)' = FuturesEscrow(t)
      /\ StopEscrow(t)' = StopEscrow(t)
      /\ MakerInventory(t)' = MakerInventory(t)
      /\ MiningHoldings(t)' = MiningHoldings(t)
      /\ RoundsHeld(t)' = RoundsHeld(t)
      /\ RetrosHeld(t)' = RetrosHeld(t)
      /\ FundHoldings(t)' = FundHoldings(t)
  BY BooksFixed, PoolFixed, BetFixed, FutureFixed, OrderFixed, MakerFixed, ProgramFixed, RoundFixed, RetroFixed, FundFixed
<1> QED BY <1>1, <1>2, <1>3 DEF Owed, HoldingsTyped
LEMMA ProgramAccounted ==
  ASSUME MarketsInv, MiningFollow, books' = books, pools' = pools, markets' = markets, futures' = futures, orders' = orders, makers' = makers, curves' = curves, rounds' = rounds, retros' = retros, funds' = funds
  PROVE  MarketsAccounted'
<1> SUFFICES ASSUME NEW t \in Token PROVE wallet'[t][Jar] = Owed(t)'
  BY AccountedNext
<1>1. wallet[t][Jar] = Owed(t) /\ HoldingsTyped(t)
  BY AccountedNow, AllTyped DEF MarketsInv
<1>2. MiningHoldings(t)' \in Int /\ wallet'[t][Jar] = wallet[t][Jar] + MiningHoldings(t)' - MiningHoldings(t)
  BY DEF MiningFollow
<1>3. /\ Recorded(t)' = Recorded(t)
      /\ PoolHoldings(t)' = PoolHoldings(t)
      /\ MarketEscrow(t)' = MarketEscrow(t)
      /\ FuturesEscrow(t)' = FuturesEscrow(t)
      /\ StopEscrow(t)' = StopEscrow(t)
      /\ MakerInventory(t)' = MakerInventory(t)
      /\ CurveHoldings(t)' = CurveHoldings(t)
      /\ RoundsHeld(t)' = RoundsHeld(t)
      /\ RetrosHeld(t)' = RetrosHeld(t)
      /\ FundHoldings(t)' = FundHoldings(t)
  BY BooksFixed, PoolFixed, BetFixed, FutureFixed, OrderFixed, MakerFixed, CurveFixed, RoundFixed, RetroFixed, FundFixed
<1> QED BY <1>1, <1>2, <1>3 DEF Owed, HoldingsTyped
LEMMA RoundAccounted ==
  ASSUME MarketsInv, RoundsFollow, books' = books, pools' = pools, markets' = markets, futures' = futures, orders' = orders, makers' = makers, curves' = curves, programs' = programs, retros' = retros, funds' = funds
  PROVE  MarketsAccounted'
<1> SUFFICES ASSUME NEW t \in Token PROVE wallet'[t][Jar] = Owed(t)'
  BY AccountedNext
<1>1. wallet[t][Jar] = Owed(t) /\ HoldingsTyped(t)
  BY AccountedNow, AllTyped DEF MarketsInv
<1>2. RoundsHeld(t)' \in Int /\ wallet'[t][Jar] = wallet[t][Jar] + RoundsHeld(t)' - RoundsHeld(t)
  BY DEF RoundsFollow
<1>3. /\ Recorded(t)' = Recorded(t)
      /\ PoolHoldings(t)' = PoolHoldings(t)
      /\ MarketEscrow(t)' = MarketEscrow(t)
      /\ FuturesEscrow(t)' = FuturesEscrow(t)
      /\ StopEscrow(t)' = StopEscrow(t)
      /\ MakerInventory(t)' = MakerInventory(t)
      /\ CurveHoldings(t)' = CurveHoldings(t)
      /\ MiningHoldings(t)' = MiningHoldings(t)
      /\ RetrosHeld(t)' = RetrosHeld(t)
      /\ FundHoldings(t)' = FundHoldings(t)
  BY BooksFixed, PoolFixed, BetFixed, FutureFixed, OrderFixed, MakerFixed, CurveFixed, ProgramFixed, RetroFixed, FundFixed
<1> QED BY <1>1, <1>2, <1>3 DEF Owed, HoldingsTyped
LEMMA RetroAccounted ==
  ASSUME MarketsInv, RetrosFollow, books' = books, pools' = pools, markets' = markets, futures' = futures, orders' = orders, makers' = makers, curves' = curves, programs' = programs, rounds' = rounds, funds' = funds
  PROVE  MarketsAccounted'
<1> SUFFICES ASSUME NEW t \in Token PROVE wallet'[t][Jar] = Owed(t)'
  BY AccountedNext
<1>1. wallet[t][Jar] = Owed(t) /\ HoldingsTyped(t)
  BY AccountedNow, AllTyped DEF MarketsInv
<1>2. RetrosHeld(t)' \in Int /\ wallet'[t][Jar] = wallet[t][Jar] + RetrosHeld(t)' - RetrosHeld(t)
  BY DEF RetrosFollow
<1>3. /\ Recorded(t)' = Recorded(t)
      /\ PoolHoldings(t)' = PoolHoldings(t)
      /\ MarketEscrow(t)' = MarketEscrow(t)
      /\ FuturesEscrow(t)' = FuturesEscrow(t)
      /\ StopEscrow(t)' = StopEscrow(t)
      /\ MakerInventory(t)' = MakerInventory(t)
      /\ CurveHoldings(t)' = CurveHoldings(t)
      /\ MiningHoldings(t)' = MiningHoldings(t)
      /\ RoundsHeld(t)' = RoundsHeld(t)
      /\ FundHoldings(t)' = FundHoldings(t)
  BY BooksFixed, PoolFixed, BetFixed, FutureFixed, OrderFixed, MakerFixed, CurveFixed, ProgramFixed, RoundFixed, FundFixed
<1> QED BY <1>1, <1>2, <1>3 DEF Owed, HoldingsTyped
LEMMA FundAccounted ==
  ASSUME MarketsInv, FundsFollow, books' = books, pools' = pools, markets' = markets, futures' = futures, orders' = orders, makers' = makers, curves' = curves, programs' = programs, rounds' = rounds, retros' = retros
  PROVE  MarketsAccounted'
<1> SUFFICES ASSUME NEW t \in Token PROVE wallet'[t][Jar] = Owed(t)'
  BY AccountedNext
<1>1. wallet[t][Jar] = Owed(t) /\ HoldingsTyped(t)
  BY AccountedNow, AllTyped DEF MarketsInv
<1>2. FundHoldings(t)' \in Int /\ wallet'[t][Jar] = wallet[t][Jar] + FundHoldings(t)' - FundHoldings(t)
  BY DEF FundsFollow
<1>3. /\ Recorded(t)' = Recorded(t)
      /\ PoolHoldings(t)' = PoolHoldings(t)
      /\ MarketEscrow(t)' = MarketEscrow(t)
      /\ FuturesEscrow(t)' = FuturesEscrow(t)
      /\ StopEscrow(t)' = StopEscrow(t)
      /\ MakerInventory(t)' = MakerInventory(t)
      /\ CurveHoldings(t)' = CurveHoldings(t)
      /\ MiningHoldings(t)' = MiningHoldings(t)
      /\ RoundsHeld(t)' = RoundsHeld(t)
      /\ RetrosHeld(t)' = RetrosHeld(t)
  BY BooksFixed, PoolFixed, BetFixed, FutureFixed, OrderFixed, MakerFixed, CurveFixed, ProgramFixed, RoundFixed, RetroFixed
<1> QED BY <1>1, <1>2, <1>3 DEF Owed, HoldingsTyped

-----------------------------------------------------------------------------
\* What does not change stays as it should.
LEMMA PoolsStay ==
  ASSUME PoolsInv, pools' = pools
  PROVE  PoolsInv'
BY DEF PoolsInv, PoolSound
LEMMA CurvesStay ==
  ASSUME curves \in Seq(Curve), curves' = curves
  PROVE  curves' \in Seq(Curve)
OBVIOUS
LEMMA BetsStay ==
  ASSUME PredictionInv, UNCHANGED predictionVars
  PROVE  PredictionInv'
BY DEF PredictionInv, MarketSound, ActiveMarketsUnsettled, Unsettled, Winnings, predictionVars
LEMMA FuturesStay ==
  ASSUME FuturesInv, UNCHANGED futuresVars
  PROVE  FuturesInv'
BY DEF FuturesInv, ContractSound, PositionsCover, HeldFor, futuresVars
LEMMA OrdersStay ==
  ASSUME StopsInv, UNCHANGED stopVars
  PROVE  StopsInv'
BY DEF StopsInv, stopVars
LEMMA MakersStay ==
  ASSUME MakersInv, UNCHANGED makerVars
  PROVE  MakersInv'
BY DEF MakersInv, MakersSound, makerVars
LEMMA RoundsStay ==
  ASSUME RoundsInv, rounds' = rounds
  PROVE  RoundsInv'
BY RoundsNow, RoundsLater
LEMMA RetrosStay ==
  ASSUME RetrosInv, retros' = retros
  PROVE  RetrosInv'
BY VotesNow, VotesNext DEF RetrosInv
LEMMA FundsStay ==
  ASSUME FundsInv, funds' = funds
  PROVE  FundsInv'
BY DEF FundsInv
LEMMA MiningStays ==
  ASSUME MiningInv, UNCHANGED miningVars, now' = now
  PROVE  MiningInv'
BY MiningNow, MiningLater DEF miningVars

\* Which rounds a call is about.
LEMMA QuadraticOnly ==
  ASSUME QuadraticNext
  PROVE  retros' = retros
<1>1. ASSUME NEW p, NEW t, NEW x, NEW n, qf_create_round(p, t, x, n) PROVE retros' = retros
  BY <1>1 DEF qf_create_round
<1>2. ASSUME NEW p, NEW i, NEW q, NEW x, qf_contribute(p, i, q, x) PROVE retros' = retros
  BY <1>2 DEF qf_contribute
<1>3. ASSUME NEW p, NEW i, qf_finalize_round(p, i) PROVE retros' = retros
  BY <1>3 DEF qf_finalize_round
<1>4. ASSUME NEW p, NEW i, qf_distribute_matching(p, i) PROVE retros' = retros
  BY <1>4, Zenon DEF qf_distribute_matching
<1> QED BY <1>1, <1>2, <1>3, <1>4, Zenon DEF QuadraticNext
LEMMA RetroOnly ==
  ASSUME RetroNext
  PROVE  rounds' = rounds
<1>1. ASSUME NEW p, NEW t, NEW x, NEW s, NEW c, retro_create_round(p, t, x, s, c) PROVE rounds' = rounds
  BY <1>1 DEF retro_create_round
<1>2. ASSUME NEW p, NEW i, NEW c, retro_nominate_creator(p, i, c) \/ retro_cast_vote(p, i, c) PROVE rounds' = rounds
  BY <1>2 DEF retro_nominate_creator, retro_cast_vote
<1>3. ASSUME NEW p, NEW i, retro_finalize_round(p, i) PROVE rounds' = rounds
  BY <1>3 DEF retro_finalize_round
<1>4. ASSUME NEW p, NEW i, retro_claim_reward(p, i) PROVE rounds' = rounds
  BY <1>4, Zenon DEF retro_claim_reward
<1> QED BY <1>1, <1>2, <1>3, <1>4, Zenon DEF RetroNext

-----------------------------------------------------------------------------
\* The parts of the invariant, put together again.
LEMMA MarketsParts ==
  ASSUME MarketsInv
  PROVE  /\ PoolsInv /\ curves \in Seq(Curve) /\ FuturesInv /\ PredictionInv /\ MakersInv /\ StopsInv
         /\ RoundsInv /\ RetrosInv /\ FundsInv /\ MiningInv /\ MarketsAccounted /\ AmmInv
BY DEF MarketsInv, AmmInv, PoolsInv
LEMMA MarketsKept ==
  ASSUME MarketsInv, wallet' \in Wallets, UNCHANGED <<books, breaker, drift, now>>,
         PoolsInv', curves' \in Seq(Curve), FuturesInv', PredictionInv', MakersInv', StopsInv',
         RoundsInv', RetrosInv', FundsInv', MiningInv', MarketsAccounted'
  PROVE  MarketsInv'
<1>1. LedgerTypeOK'
  BY DEF MarketsInv, LedgerTypeOK
<1>2. books'.credit = PerParty(PerToken(None))
  BY DEF MarketsInv
<1>3. AmmInv'
  BY DEF AmmInv, PoolsInv
<1> QED BY <1>1, <1>2, <1>3 DEF MarketsInv, PerParty, PerToken

LEMMA AmmCall ==
  ASSUME Market, focus = "amm"
  PROVE  /\ AmmNext /\ UNCHANGED <<books, breaker, drift, now>>
         /\ UNCHANGED <<predictionVars, futuresVars, stopVars, makerVars, curves, miningVars, fundingVars, funds>>
BY SMT DEF Market
LEMMA AmmKeeps ==
  ASSUME MarketsInv, Market, focus = "amm"
  PROVE  MarketsInv'
<1>1. /\ AmmNext /\ UNCHANGED <<books, breaker, drift, now>>
      /\ UNCHANGED <<predictionVars, futuresVars, stopVars, makerVars, curves, miningVars, fundingVars, funds>>
  BY AmmCall
<1>2. /\ PoolsInv /\ curves \in Seq(Curve) /\ FuturesInv /\ PredictionInv /\ MakersInv /\ StopsInv
      /\ RoundsInv /\ RetrosInv /\ FundsInv /\ MiningInv /\ AmmInv
  BY MarketsParts
<1>3. wallet \in Wallets /\ now \in Int /\ now' = now /\ books \in Books /\ books' = books
  BY <1>1, ListsTyped
<1>4. PoolsInv' /\ PoolsFollow
  BY <1>1, <1>2, <1>3, AmmStep
<1>5. /\ PredictionInv'
      /\ FuturesInv'
      /\ StopsInv'
      /\ MakersInv'
      /\ curves' \in Seq(Curve)
      /\ MiningInv'
      /\ RoundsInv' /\ RetrosInv'
      /\ FundsInv'
  BY <1>1, <1>2, <1>3, BetsStay, FuturesStay, OrdersStay, MakersStay, CurvesStay, MiningStays, RoundsStay, RetrosStay, FundsStay DEF fundingVars
<1>6. /\ markets' = markets /\ futures' = futures /\ orders' = orders /\ makers' = makers /\ curves' = curves /\ programs' = programs /\ rounds' = rounds /\ retros' = retros /\ funds' = funds
  BY <1>1, <1>4 DEF predictionVars, futuresVars, stopVars, makerVars, miningVars, fundingVars
<1>7. MarketsAccounted'
  BY <1>3, <1>4, <1>6, PoolAccounted
<1>8. wallet' \in Wallets
  BY <1>4 DEF PoolsFollow
<1> QED BY <1>1, <1>4, <1>5, <1>7, <1>8, MarketsKept

LEMMA PredictionCall ==
  ASSUME Market, focus = "prediction"
  PROVE  /\ PredictionNext /\ UNCHANGED <<books, breaker, drift, now>>
         /\ UNCHANGED <<pools, futuresVars, stopVars, makerVars, curves, miningVars, fundingVars, funds>>
BY SMT DEF Market
LEMMA PredictionKeeps ==
  ASSUME MarketsInv, Market, focus = "prediction"
  PROVE  MarketsInv'
<1>1. /\ PredictionNext /\ UNCHANGED <<books, breaker, drift, now>>
      /\ UNCHANGED <<pools, futuresVars, stopVars, makerVars, curves, miningVars, fundingVars, funds>>
  BY PredictionCall
<1>2. /\ PoolsInv /\ curves \in Seq(Curve) /\ FuturesInv /\ PredictionInv /\ MakersInv /\ StopsInv
      /\ RoundsInv /\ RetrosInv /\ FundsInv /\ MiningInv /\ AmmInv
  BY MarketsParts
<1>3. wallet \in Wallets /\ now \in Int /\ now' = now /\ books \in Books /\ books' = books
  BY <1>1, ListsTyped
<1>4. PredictionInv' /\ BetsFollow
  BY <1>1, <1>2, <1>3, PredictionStep
<1>5. /\ PoolsInv'
      /\ FuturesInv'
      /\ StopsInv'
      /\ MakersInv'
      /\ curves' \in Seq(Curve)
      /\ MiningInv'
      /\ RoundsInv' /\ RetrosInv'
      /\ FundsInv'
  BY <1>1, <1>2, <1>3, PoolsStay, FuturesStay, OrdersStay, MakersStay, CurvesStay, MiningStays, RoundsStay, RetrosStay, FundsStay DEF fundingVars
<1>6. /\ pools' = pools /\ futures' = futures /\ orders' = orders /\ makers' = makers /\ curves' = curves /\ programs' = programs /\ rounds' = rounds /\ retros' = retros /\ funds' = funds
  BY <1>1, <1>4 DEF predictionVars, futuresVars, stopVars, makerVars, miningVars, fundingVars
<1>7. MarketsAccounted'
  BY <1>3, <1>4, <1>6, BetAccounted
<1>8. wallet' \in Wallets
  BY <1>4 DEF BetsFollow
<1> QED BY <1>1, <1>4, <1>5, <1>7, <1>8, MarketsKept

LEMMA FuturesCall ==
  ASSUME Market, focus = "futures"
  PROVE  /\ FuturesNext /\ UNCHANGED <<books, breaker, drift, now>>
         /\ UNCHANGED <<pools, predictionVars, stopVars, makerVars, curves, miningVars, fundingVars, funds>>
BY SMT DEF Market
LEMMA FuturesKeeps ==
  ASSUME MarketsInv, Market, focus = "futures"
  PROVE  MarketsInv'
<1>1. /\ FuturesNext /\ UNCHANGED <<books, breaker, drift, now>>
      /\ UNCHANGED <<pools, predictionVars, stopVars, makerVars, curves, miningVars, fundingVars, funds>>
  BY FuturesCall
<1>2. /\ PoolsInv /\ curves \in Seq(Curve) /\ FuturesInv /\ PredictionInv /\ MakersInv /\ StopsInv
      /\ RoundsInv /\ RetrosInv /\ FundsInv /\ MiningInv /\ AmmInv
  BY MarketsParts
<1>3. wallet \in Wallets /\ now \in Int /\ now' = now /\ books \in Books /\ books' = books
  BY <1>1, ListsTyped
<1>4. FuturesInv' /\ FuturesFollow
  BY <1>1, <1>2, <1>3, FuturesStep
<1>5. /\ PoolsInv'
      /\ PredictionInv'
      /\ StopsInv'
      /\ MakersInv'
      /\ curves' \in Seq(Curve)
      /\ MiningInv'
      /\ RoundsInv' /\ RetrosInv'
      /\ FundsInv'
  BY <1>1, <1>2, <1>3, PoolsStay, BetsStay, OrdersStay, MakersStay, CurvesStay, MiningStays, RoundsStay, RetrosStay, FundsStay DEF fundingVars
<1>6. /\ pools' = pools /\ markets' = markets /\ orders' = orders /\ makers' = makers /\ curves' = curves /\ programs' = programs /\ rounds' = rounds /\ retros' = retros /\ funds' = funds
  BY <1>1, <1>4 DEF predictionVars, futuresVars, stopVars, makerVars, miningVars, fundingVars
<1>7. MarketsAccounted'
  BY <1>3, <1>4, <1>6, FutureAccounted
<1>8. wallet' \in Wallets
  BY <1>4 DEF FuturesFollow
<1> QED BY <1>1, <1>4, <1>5, <1>7, <1>8, MarketsKept

LEMMA StopsCall ==
  ASSUME Market, focus = "stops"
  PROVE  /\ StopLossNext /\ UNCHANGED <<books, breaker, drift, now>>
         /\ UNCHANGED <<pools, predictionVars, futuresVars, makerVars, curves, miningVars, fundingVars, funds>>
BY SMT DEF Market
LEMMA StopsKeeps ==
  ASSUME MarketsInv, Market, focus = "stops"
  PROVE  MarketsInv'
<1>1. /\ StopLossNext /\ UNCHANGED <<books, breaker, drift, now>>
      /\ UNCHANGED <<pools, predictionVars, futuresVars, makerVars, curves, miningVars, fundingVars, funds>>
  BY StopsCall
<1>2. /\ PoolsInv /\ curves \in Seq(Curve) /\ FuturesInv /\ PredictionInv /\ MakersInv /\ StopsInv
      /\ RoundsInv /\ RetrosInv /\ FundsInv /\ MiningInv /\ AmmInv
  BY MarketsParts
<1>3. wallet \in Wallets /\ now \in Int /\ now' = now /\ books \in Books /\ books' = books
  BY <1>1, ListsTyped
<1>4. StopsInv' /\ OrdersFollow
  BY <1>1, <1>2, <1>3, StopsStep
<1>5. /\ PoolsInv'
      /\ PredictionInv'
      /\ FuturesInv'
      /\ MakersInv'
      /\ curves' \in Seq(Curve)
      /\ MiningInv'
      /\ RoundsInv' /\ RetrosInv'
      /\ FundsInv'
  BY <1>1, <1>2, <1>3, PoolsStay, BetsStay, FuturesStay, MakersStay, CurvesStay, MiningStays, RoundsStay, RetrosStay, FundsStay DEF fundingVars
<1>6. /\ pools' = pools /\ markets' = markets /\ futures' = futures /\ makers' = makers /\ curves' = curves /\ programs' = programs /\ rounds' = rounds /\ retros' = retros /\ funds' = funds
  BY <1>1, <1>4 DEF predictionVars, futuresVars, stopVars, makerVars, miningVars, fundingVars
<1>7. MarketsAccounted'
  BY <1>3, <1>4, <1>6, OrderAccounted
<1>8. wallet' \in Wallets
  BY <1>4 DEF OrdersFollow
<1> QED BY <1>1, <1>4, <1>5, <1>7, <1>8, MarketsKept

LEMMA MakersCall ==
  ASSUME Market, focus = "makers"
  PROVE  /\ MarketMakingNext /\ UNCHANGED <<books, breaker, drift, now>>
         /\ UNCHANGED <<pools, predictionVars, futuresVars, stopVars, curves, miningVars, fundingVars, funds>>
BY SMT DEF Market
LEMMA MakersKeeps ==
  ASSUME MarketsInv, Market, focus = "makers"
  PROVE  MarketsInv'
<1>1. /\ MarketMakingNext /\ UNCHANGED <<books, breaker, drift, now>>
      /\ UNCHANGED <<pools, predictionVars, futuresVars, stopVars, curves, miningVars, fundingVars, funds>>
  BY MakersCall
<1>2. /\ PoolsInv /\ curves \in Seq(Curve) /\ FuturesInv /\ PredictionInv /\ MakersInv /\ StopsInv
      /\ RoundsInv /\ RetrosInv /\ FundsInv /\ MiningInv /\ AmmInv
  BY MarketsParts
<1>3. wallet \in Wallets /\ now \in Int /\ now' = now /\ books \in Books /\ books' = books
  BY <1>1, ListsTyped
<1>4. MakersInv' /\ MakersFollow
  BY <1>1, <1>2, <1>3, MakersStep
<1>5. /\ PoolsInv'
      /\ PredictionInv'
      /\ FuturesInv'
      /\ StopsInv'
      /\ curves' \in Seq(Curve)
      /\ MiningInv'
      /\ RoundsInv' /\ RetrosInv'
      /\ FundsInv'
  BY <1>1, <1>2, <1>3, PoolsStay, BetsStay, FuturesStay, OrdersStay, CurvesStay, MiningStays, RoundsStay, RetrosStay, FundsStay DEF fundingVars
<1>6. /\ pools' = pools /\ markets' = markets /\ futures' = futures /\ orders' = orders /\ curves' = curves /\ programs' = programs /\ rounds' = rounds /\ retros' = retros /\ funds' = funds
  BY <1>1, <1>4 DEF predictionVars, futuresVars, stopVars, makerVars, miningVars, fundingVars
<1>7. MarketsAccounted'
  BY <1>3, <1>4, <1>6, MakerAccounted
<1>8. wallet' \in Wallets
  BY <1>4 DEF MakersFollow
<1> QED BY <1>1, <1>4, <1>5, <1>7, <1>8, MarketsKept

LEMMA CurvesCall ==
  ASSUME Market, focus = "curves"
  PROVE  /\ BondingCurveNext /\ UNCHANGED <<books, breaker, drift, now>>
         /\ UNCHANGED <<pools, predictionVars, futuresVars, stopVars, makerVars, miningVars, fundingVars, funds>>
BY SMT DEF Market
LEMMA CurvesKeeps ==
  ASSUME MarketsInv, Market, focus = "curves"
  PROVE  MarketsInv'
<1>1. /\ BondingCurveNext /\ UNCHANGED <<books, breaker, drift, now>>
      /\ UNCHANGED <<pools, predictionVars, futuresVars, stopVars, makerVars, miningVars, fundingVars, funds>>
  BY CurvesCall
<1>2. /\ PoolsInv /\ curves \in Seq(Curve) /\ FuturesInv /\ PredictionInv /\ MakersInv /\ StopsInv
      /\ RoundsInv /\ RetrosInv /\ FundsInv /\ MiningInv /\ AmmInv
  BY MarketsParts
<1>3. wallet \in Wallets /\ now \in Int /\ now' = now /\ books \in Books /\ books' = books
  BY <1>1, ListsTyped
<1>4. curves' \in Seq(Curve) /\ CurvesFollow
  BY <1>1, <1>2, <1>3, CurvesStep
<1>5. /\ PoolsInv'
      /\ PredictionInv'
      /\ FuturesInv'
      /\ StopsInv'
      /\ MakersInv'
      /\ MiningInv'
      /\ RoundsInv' /\ RetrosInv'
      /\ FundsInv'
  BY <1>1, <1>2, <1>3, PoolsStay, BetsStay, FuturesStay, OrdersStay, MakersStay, MiningStays, RoundsStay, RetrosStay, FundsStay DEF fundingVars
<1>6. /\ pools' = pools /\ markets' = markets /\ futures' = futures /\ orders' = orders /\ makers' = makers /\ programs' = programs /\ rounds' = rounds /\ retros' = retros /\ funds' = funds
  BY <1>1, <1>4 DEF predictionVars, futuresVars, stopVars, makerVars, miningVars, fundingVars
<1>7. MarketsAccounted'
  BY <1>3, <1>4, <1>6, CurveAccounted
<1>8. wallet' \in Wallets
  BY <1>4 DEF CurvesFollow
<1> QED BY <1>1, <1>4, <1>5, <1>7, <1>8, MarketsKept

LEMMA MiningCall ==
  ASSUME Market, focus = "mining"
  PROVE  /\ MiningNext /\ UNCHANGED <<books, breaker, drift, now>>
         /\ UNCHANGED <<pools, predictionVars, futuresVars, stopVars, makerVars, curves, fundingVars, funds>>
BY SMT DEF Market
LEMMA MiningKeeps ==
  ASSUME MarketsInv, Market, focus = "mining"
  PROVE  MarketsInv'
<1>1. /\ MiningNext /\ UNCHANGED <<books, breaker, drift, now>>
      /\ UNCHANGED <<pools, predictionVars, futuresVars, stopVars, makerVars, curves, fundingVars, funds>>
  BY MiningCall
<1>2. /\ PoolsInv /\ curves \in Seq(Curve) /\ FuturesInv /\ PredictionInv /\ MakersInv /\ StopsInv
      /\ RoundsInv /\ RetrosInv /\ FundsInv /\ MiningInv /\ AmmInv
  BY MarketsParts
<1>3. wallet \in Wallets /\ now \in Int /\ now' = now /\ books \in Books /\ books' = books
  BY <1>1, ListsTyped
<1>4. MiningInv' /\ MiningFollow
  BY <1>1, <1>2, <1>3, MiningStep
<1>5. /\ PoolsInv'
      /\ PredictionInv'
      /\ FuturesInv'
      /\ StopsInv'
      /\ MakersInv'
      /\ curves' \in Seq(Curve)
      /\ RoundsInv' /\ RetrosInv'
      /\ FundsInv'
  BY <1>1, <1>2, <1>3, PoolsStay, BetsStay, FuturesStay, OrdersStay, MakersStay, CurvesStay, RoundsStay, RetrosStay, FundsStay DEF fundingVars
<1>6. /\ pools' = pools /\ markets' = markets /\ futures' = futures /\ orders' = orders /\ makers' = makers /\ curves' = curves /\ rounds' = rounds /\ retros' = retros /\ funds' = funds
  BY <1>1, <1>4 DEF predictionVars, futuresVars, stopVars, makerVars, miningVars, fundingVars
<1>7. MarketsAccounted'
  BY <1>3, <1>4, <1>6, ProgramAccounted
<1>8. wallet' \in Wallets
  BY <1>4 DEF MiningFollow
<1> QED BY <1>1, <1>4, <1>5, <1>7, <1>8, MarketsKept

LEMMA QuadraticCall ==
  ASSUME Market, focus = "quadratic"
  PROVE  /\ QuadraticNext /\ UNCHANGED <<books, breaker, drift, now>>
         /\ UNCHANGED <<pools, predictionVars, futuresVars, stopVars, makerVars, curves, miningVars, funds>>
BY SMT DEF Market
LEMMA QuadraticKeeps ==
  ASSUME MarketsInv, Market, focus = "quadratic"
  PROVE  MarketsInv'
<1>1. /\ QuadraticNext /\ UNCHANGED <<books, breaker, drift, now>>
      /\ UNCHANGED <<pools, predictionVars, futuresVars, stopVars, makerVars, curves, miningVars, funds>>
  BY QuadraticCall
<1>2. /\ PoolsInv /\ curves \in Seq(Curve) /\ FuturesInv /\ PredictionInv /\ MakersInv /\ StopsInv
      /\ RoundsInv /\ RetrosInv /\ FundsInv /\ MiningInv /\ AmmInv
  BY MarketsParts
<1>3. wallet \in Wallets /\ now \in Int /\ now' = now /\ books \in Books /\ books' = books
  BY <1>1, ListsTyped
<1>4. RoundsInv' /\ retros' = retros /\ RoundsFollow
  BY <1>1, <1>2, <1>3, RoundsStep, QuadraticOnly
<1>r. RetrosInv'
  BY <1>2, <1>4, RetrosStay
<1>5. /\ PoolsInv'
      /\ PredictionInv'
      /\ FuturesInv'
      /\ StopsInv'
      /\ MakersInv'
      /\ curves' \in Seq(Curve)
      /\ MiningInv'
      /\ FundsInv'
  BY <1>1, <1>2, <1>3, PoolsStay, BetsStay, FuturesStay, OrdersStay, MakersStay, CurvesStay, MiningStays, FundsStay DEF fundingVars
<1>6. /\ pools' = pools /\ markets' = markets /\ futures' = futures /\ orders' = orders /\ makers' = makers /\ curves' = curves /\ programs' = programs /\ funds' = funds /\ retros' = retros
  BY <1>1, <1>4 DEF predictionVars, futuresVars, stopVars, makerVars, miningVars, fundingVars
<1>7. MarketsAccounted'
  BY <1>3, <1>4, <1>6, RoundAccounted
<1>8. wallet' \in Wallets
  BY <1>4 DEF RoundsFollow
<1> QED BY <1>1, <1>4, <1>5, <1>7, <1>8, <1>r, MarketsKept

LEMMA RetroCall ==
  ASSUME Market, focus = "retro"
  PROVE  /\ RetroNext /\ UNCHANGED <<books, breaker, drift, now>>
         /\ UNCHANGED <<pools, predictionVars, futuresVars, stopVars, makerVars, curves, miningVars, funds>>
BY SMT DEF Market
LEMMA RetroKeeps ==
  ASSUME MarketsInv, Market, focus = "retro"
  PROVE  MarketsInv'
<1>1. /\ RetroNext /\ UNCHANGED <<books, breaker, drift, now>>
      /\ UNCHANGED <<pools, predictionVars, futuresVars, stopVars, makerVars, curves, miningVars, funds>>
  BY RetroCall
<1>2. /\ PoolsInv /\ curves \in Seq(Curve) /\ FuturesInv /\ PredictionInv /\ MakersInv /\ StopsInv
      /\ RoundsInv /\ RetrosInv /\ FundsInv /\ MiningInv /\ AmmInv
  BY MarketsParts
<1>3. wallet \in Wallets /\ now \in Int /\ now' = now /\ books \in Books /\ books' = books
  BY <1>1, ListsTyped
<1>4. RetrosInv' /\ rounds' = rounds /\ RetrosFollow
  BY <1>1, <1>2, <1>3, RetrosStep, RetroOnly
<1>r. RoundsInv'
  BY <1>2, <1>4, RoundsStay
<1>5. /\ PoolsInv'
      /\ PredictionInv'
      /\ FuturesInv'
      /\ StopsInv'
      /\ MakersInv'
      /\ curves' \in Seq(Curve)
      /\ MiningInv'
      /\ FundsInv'
  BY <1>1, <1>2, <1>3, PoolsStay, BetsStay, FuturesStay, OrdersStay, MakersStay, CurvesStay, MiningStays, FundsStay DEF fundingVars
<1>6. /\ pools' = pools /\ markets' = markets /\ futures' = futures /\ orders' = orders /\ makers' = makers /\ curves' = curves /\ programs' = programs /\ funds' = funds /\ rounds' = rounds
  BY <1>1, <1>4 DEF predictionVars, futuresVars, stopVars, makerVars, miningVars, fundingVars
<1>7. MarketsAccounted'
  BY <1>3, <1>4, <1>6, RetroAccounted
<1>8. wallet' \in Wallets
  BY <1>4 DEF RetrosFollow
<1> QED BY <1>1, <1>4, <1>5, <1>7, <1>8, <1>r, MarketsKept

LEMMA FundsCall ==
  ASSUME Market, focus = "funds"
  PROVE  /\ IndexFundNext /\ UNCHANGED <<books, breaker, drift, now>>
         /\ UNCHANGED <<pools, predictionVars, futuresVars, stopVars, makerVars, curves, miningVars, fundingVars>>
BY SMT DEF Market
LEMMA FundsKeeps ==
  ASSUME MarketsInv, Market, focus = "funds"
  PROVE  MarketsInv'
<1>1. /\ IndexFundNext /\ UNCHANGED <<books, breaker, drift, now>>
      /\ UNCHANGED <<pools, predictionVars, futuresVars, stopVars, makerVars, curves, miningVars, fundingVars>>
  BY FundsCall
<1>2. /\ PoolsInv /\ curves \in Seq(Curve) /\ FuturesInv /\ PredictionInv /\ MakersInv /\ StopsInv
      /\ RoundsInv /\ RetrosInv /\ FundsInv /\ MiningInv /\ AmmInv
  BY MarketsParts
<1>3. wallet \in Wallets /\ now \in Int /\ now' = now /\ books \in Books /\ books' = books
  BY <1>1, ListsTyped
<1>4. FundsInv' /\ FundsFollow
  BY <1>1, <1>2, <1>3, FundsStep
<1>5. /\ PoolsInv'
      /\ PredictionInv'
      /\ FuturesInv'
      /\ StopsInv'
      /\ MakersInv'
      /\ curves' \in Seq(Curve)
      /\ MiningInv'
      /\ RoundsInv' /\ RetrosInv'
  BY <1>1, <1>2, <1>3, PoolsStay, BetsStay, FuturesStay, OrdersStay, MakersStay, CurvesStay, MiningStays, RoundsStay, RetrosStay DEF fundingVars
<1>6. /\ pools' = pools /\ markets' = markets /\ futures' = futures /\ orders' = orders /\ makers' = makers /\ curves' = curves /\ programs' = programs /\ rounds' = rounds /\ retros' = retros
  BY <1>1, <1>4 DEF predictionVars, futuresVars, stopVars, makerVars, miningVars, fundingVars
<1>7. MarketsAccounted'
  BY <1>3, <1>4, <1>6, FundAccounted
<1>8. wallet' \in Wallets
  BY <1>4 DEF FundsFollow
<1> QED BY <1>1, <1>4, <1>5, <1>7, <1>8, MarketsKept

-----------------------------------------------------------------------------
\* A step of no market: a feed, time or a tip.
Quiet ==
  UNCHANGED <<pools, predictionVars, futuresVars, stopVars, makerVars, curves, miningVars, fundingVars, funds>>
LEMMA QuietLists ==
  ASSUME Quiet
  PROVE  /\ pools' = pools /\ markets' = markets /\ futures' = futures /\ orders' = orders /\ makers' = makers
         /\ curves' = curves /\ programs' = programs /\ rounds' = rounds /\ retros' = retros /\ funds' = funds
BY DEF Quiet, predictionVars, futuresVars, stopVars, makerVars, miningVars, fundingVars
LEMMA QuietHoldings ==
  ASSUME Quiet, NEW t
  PROVE  /\ PoolHoldings(t)' = PoolHoldings(t) /\ MarketEscrow(t)' = MarketEscrow(t)
         /\ FuturesEscrow(t)' = FuturesEscrow(t) /\ StopEscrow(t)' = StopEscrow(t)
         /\ MakerInventory(t)' = MakerInventory(t) /\ CurveHoldings(t)' = CurveHoldings(t)
         /\ MiningHoldings(t)' = MiningHoldings(t) /\ RoundsHeld(t)' = RoundsHeld(t)
         /\ RetrosHeld(t)' = RetrosHeld(t) /\ FundHoldings(t)' = FundHoldings(t)
BY QuietLists, PoolFixed, BetFixed, FutureFixed, OrderFixed, MakerFixed, CurveFixed, ProgramFixed, RoundFixed,
   RetroFixed, FundFixed
LEMMA QuietInvs ==
  ASSUME MarketsInv, Quiet
  PROVE  /\ PoolsInv' /\ curves' \in Seq(Curve) /\ FuturesInv' /\ PredictionInv' /\ MakersInv' /\ StopsInv'
         /\ RoundsInv' /\ RetrosInv' /\ FundsInv'
<1>1. /\ PoolsInv /\ curves \in Seq(Curve) /\ FuturesInv /\ PredictionInv /\ MakersInv /\ StopsInv
      /\ RoundsInv /\ RetrosInv /\ FundsInv
  BY MarketsParts
<1>2. /\ UNCHANGED predictionVars /\ UNCHANGED futuresVars /\ UNCHANGED stopVars /\ UNCHANGED makerVars
  BY DEF Quiet
<1> QED BY <1>1, <1>2, QuietLists, PoolsStay, CurvesStay, BetsStay, FuturesStay, OrdersStay, MakersStay, RoundsStay,
           RetrosStay, FundsStay
\* The jar gets x of token t, and the books record it.
LEMMA QuietAccounted ==
  ASSUME MarketsInv, Quiet, NEW t \in Token, NEW x \in Int, Gets(wallet, wallet', t, x),
         \A u \in Token : Recorded(u)' = Recorded(u) + (IF u = t THEN x ELSE 0)
  PROVE  MarketsAccounted'
<1> SUFFICES ASSUME NEW u \in Token PROVE wallet'[u][Jar] = Owed(u)'
  BY AccountedNext
<1>1. wallet[u][Jar] = Owed(u) /\ HoldingsTyped(u)
  BY AccountedNow, AllTyped DEF MarketsInv
<1> DEFINE e == IF u = t THEN x ELSE 0
<1>2. wallet'[u][Jar] = wallet[u][Jar] + e /\ Recorded(u)' = Recorded(u) + e /\ e \in Int
  BY DEF Gets
<1> HIDE DEF e
<1> QED BY <1>1, <1>2, QuietHoldings DEF Owed, HoldingsTyped

LEMMA TipKeeps ==
  ASSUME MarketsInv, Quiet, Tip
  PROVE  MarketsInv'
<1>1. PICK k \in Tips : /\ Pay(k.token, k.sender, Jar, k.amount)
                        /\ books' = CreditTo(books, k.creator, k.token, k.amount, k.amount, 0, 0)
  BY DEF Tip
<1> DEFINE t == k.token
           c == k.creator
           x == k.amount
           p == k.sender
<1>2. t \in Token /\ c \in Party /\ p \in Party /\ x \in Int
  BY MarketsAssumption
<1>3. wallet' = Transfer(wallet, t, p, Jar, x) /\ books' = CreditTo(books, c, t, x, x, 0, 0)
  BY <1>1 DEF Pay
<1> HIDE DEF t, c, x, p
<1>4. books \in Books /\ wallet \in Wallets /\ books.credit = NoCredit
  BY ListsTyped
<1>5. books' = Tipped(books, c, t, x)
  BY <1>2, <1>3, <1>4, CreditIsTip
<1>6. TippedAs(books, books', t, x)
  BY <1>2, <1>4, <1>5, TipRecorded
<1>7. Gets(wallet, wallet', t, x)
  BY <1>2, <1>3, <1>4, PaidIn
<1>8. MarketsAccounted'
  <2>1. \A u \in Token : Recorded(u)' = Recorded(u) + (IF u = t THEN x ELSE 0)
    BY <1>6 DEF TippedAs, Recorded, RecordedIn
  <2> QED BY <1>2, <1>7, <2>1, QuietAccounted
<1>9. UNCHANGED <<breaker, drift, now>>
  BY DEF Tip
<1>10. LedgerTypeOK'
  BY <1>6, <1>7, <1>9 DEF MarketsInv, LedgerTypeOK, TippedAs, Gets
<1>11. books'.credit = NoCredit
  BY <1>4, <1>6 DEF TippedAs
<1>12. MiningInv'
  BY <1>9, MiningStays, MarketsParts DEF Quiet
<1>13. AmmInv'
  BY QuietInvs DEF AmmInv, PoolsInv
<1> QED BY <1>8, <1>10, <1>11, <1>12, <1>13, QuietInvs DEF MarketsInv, NoCredit, PerParty, PerToken

LEMMA TickKeeps ==
  ASSUME MarketsInv, Quiet, Tick
  PROVE  MarketsInv'
<1>1. now < MaxTime /\ now' = now + 1 /\ UNCHANGED <<wallet, books, breaker, drift>>
  BY DEF Tick
<1>2. wallet \in Wallets /\ now \in 1 .. MaxTime /\ MaxTime \in Nat
  BY LedgerAssumption DEF MarketsInv, LedgerTypeOK
<1>3. now' \in 1 .. MaxTime /\ now \in Int /\ now' \in Int /\ now <= now'
  BY <1>1, <1>2
<1>4. LedgerTypeOK'
  BY <1>1, <1>3 DEF MarketsInv, LedgerTypeOK
<1>5. MarketsAccounted'
  <2> SUFFICES ASSUME NEW t \in Token PROVE wallet'[t][Jar] = Owed(t)'
    BY AccountedNext
  <2>1. wallet[t][Jar] = Owed(t) /\ Recorded(t)' = Recorded(t)
    BY <1>1, AccountedNow, BooksFixed DEF MarketsInv
  <2> QED BY <1>1, <2>1, QuietHoldings DEF Owed
<1>6. MiningInv'
  <2>1. MiningInv /\ UNCHANGED miningVars
    BY MarketsParts DEF Quiet
  <2> QED BY <1>3, <2>1, MiningTicks
<1>7. AmmInv'
  BY QuietInvs DEF AmmInv, PoolsInv
<1>8. books'.credit = NoCredit
  BY <1>1, ListsTyped
<1> QED BY <1>4, <1>5, <1>6, <1>7, <1>8, QuietInvs DEF MarketsInv, NoCredit, PerParty, PerToken

LEMMA QuietKeeps ==
  ASSUME MarketsInv, Quiet, UNCHANGED <<wallet, books, breaker, drift, now>>
  PROVE  MarketsInv'
<1>1. MarketsAccounted'
  <2> SUFFICES ASSUME NEW t \in Token PROVE wallet'[t][Jar] = Owed(t)'
    BY AccountedNext
  <2>1. wallet[t][Jar] = Owed(t) /\ Recorded(t)' = Recorded(t)
    BY AccountedNow, BooksFixed DEF MarketsInv
  <2> QED BY <2>1, QuietHoldings DEF Owed
<1>2. MiningInv'
  BY MiningStays, MarketsParts DEF Quiet
<1>3. wallet' \in Wallets
  BY ListsTyped
<1> QED BY <1>1, <1>2, <1>3, QuietInvs, MarketsKept

\* The feeds move no token.
LEMMA TwapPays ==
  ASSUME TwapNext
  PROVE  wallet' = wallet
<1>1. ASSUME NEW p, NEW w, NEW n, NEW x, twap_create_oracle(p, w, n, x) PROVE wallet' = wallet
  BY <1>1, Zenon DEF twap_create_oracle
<1>2. ASSUME NEW p, NEW i, NEW x, twap_record_price(p, i, x) PROVE wallet' = wallet
  BY <1>2, Zenon DEF twap_record_price
<1>3. ASSUME NEW p, NEW i, NEW w, NEW q, twap_update_config(p, i, w, q) PROVE wallet' = wallet
  BY <1>3, Zenon DEF twap_update_config
<1>4. ASSUME NEW p, NEW i, twap_deactivate(p, i) PROVE wallet' = wallet
  BY <1>4, Zenon DEF twap_deactivate
<1> QED BY <1>1, <1>2, <1>3, <1>4, Zenon DEF TwapNext
LEMMA VolatilityPays ==
  ASSUME VolatilityNext
  PROVE  wallet' = wallet
<1>1. ASSUME NEW n, NEW k, set_volatility_config(n, k) PROVE wallet' = wallet
  BY <1>1, Zenon DEF set_volatility_config
<1>2. ASSUME NEW p, NEW t, NEW n, create_volatility_index(p, t, n) PROVE wallet' = wallet
  BY <1>2, Zenon DEF create_volatility_index
<1>3. ASSUME NEW i, NEW x, record_volatility_observation(i, x) PROVE wallet' = wallet
  BY <1>3, Zenon DEF record_volatility_observation
<1>4. ASSUME NEW p, NEW i, deactivate_volatility_index(p, i) PROVE wallet' = wallet
  BY <1>4, Zenon DEF deactivate_volatility_index
<1> QED BY <1>1, <1>2, <1>3, <1>4, Zenon DEF VolatilityNext
LEMMA FeedsKeep ==
  ASSUME MarketsInv, Market, focus \in {"twap", "volatility"}
  PROVE  MarketsInv' /\ Quiet
<1>1. (TwapNext \/ VolatilityNext) /\ UNCHANGED <<books, breaker, drift, now>> /\ Quiet
  BY SMT DEF Market, Quiet
<1>2. wallet' = wallet
  BY <1>1, TwapPays, VolatilityPays
<1> QED BY <1>1, <1>2, QuietKeeps

LEMMA MarketFocus ==
  ASSUME Market
  PROVE  \/ focus = "amm" \/ focus = "prediction" \/ focus = "futures" \/ focus = "stops" \/ focus = "makers"
         \/ focus = "curves" \/ focus = "mining" \/ focus = "quadratic" \/ focus = "retro" \/ focus = "funds"
         \/ focus \in {"twap", "volatility"}
BY Zenon DEF Market
LEMMA MarketKeeps ==
  ASSUME MarketsInv, Market
  PROVE  MarketsInv'
BY MarketFocus, AmmKeeps, PredictionKeeps, FuturesKeeps, StopsKeeps, MakersKeeps, CurvesKeeps, MiningKeeps,
   QuadraticKeeps, RetroKeeps, FundsKeeps, FeedsKeep, Zenon
LEMMA NextCases ==
  ASSUME Next
  PROVE  Market \/ (Quiet /\ (Tip \/ Tick))
<1>1. Market \/ /\ Tip \/ Tick
                /\ UNCHANGED <<pools, predictionVars, futuresVars, stopVars, makerVars, curves, miningVars,
                               fundingVars, funds, oracleVars>>
  BY Zenon DEF Next
<1>2. UNCHANGED <<pools, predictionVars, futuresVars, stopVars, makerVars, curves, miningVars,
                  fundingVars, funds, oracleVars>> => Quiet
  BY SMT DEF Quiet
<1> QED BY <1>1, <1>2, Zenon
LEMMA NextKeeps ==
  ASSUME MarketsInv, Next
  PROVE  MarketsInv'
BY NextCases, MarketKeeps, TipKeeps, TickKeeps, Zenon
LEMMA StutterKeeps ==
  ASSUME MarketsInv, UNCHANGED marketVars
  PROVE  MarketsInv'
<1>1. Quiet /\ UNCHANGED <<wallet, books, breaker, drift, now>>
  BY DEF marketVars, ledgerVars, Quiet
<1> QED BY <1>1, QuietKeeps

-----------------------------------------------------------------------------
\* At the start nothing is held for anybody.
LEMMA NothingWorth ==
  ASSUME NEW S, NEW H \in [S -> Int]
  PROVE  Worth(<<>>, H) = 0
<1> DEFINE f == [i \in DOMAIN <<>> |-> H[<<>>[i]]]
<1>1. f \in [{} -> Int]
  OBVIOUS
<1> QED BY <1>1, SumEmpty DEF Worth
LEMMA EmptyLists ==
  ASSUME Init
  PROVE  /\ pools = <<>> /\ markets = <<>> /\ futures = <<>> /\ orders = <<>> /\ makers = <<>> /\ curves = <<>>
         /\ programs = <<>> /\ rounds = <<>> /\ retros = <<>> /\ funds = <<>> /\ positions = <<>> /\ stakes = <<>>
BY DEF Init, AmmInit, PredictionInit, FuturesInit, StopLossInit, MarketMakingInit, BondingCurveInit, MiningInit,
       FundingInit, IndexFundInit
LEMMA NothingHeld ==
  ASSUME Init, NEW t \in Token
  PROVE  /\ PoolHoldings(t) = 0 /\ MarketEscrow(t) = 0 /\ FuturesEscrow(t) = 0 /\ StopEscrow(t) = 0
         /\ MakerInventory(t) = 0 /\ CurveHoldings(t) = 0 /\ MiningHoldings(t) = 0 /\ RoundsHeld(t) = 0
         /\ RetrosHeld(t) = 0 /\ FundHoldings(t) = 0
<1>1. PoolHoldings(t) = 0
  BY EmptyLists, PoolsWorth, PoolBookType, NothingWorth
<1>2. MarketEscrow(t) = 0
  BY EmptyLists, BetsWorth, BetBookType, NothingWorth
<1>3. FuturesEscrow(t) = 0
  BY EmptyLists, FuturesWorth, FutureBookType, NothingWorth
<1>4. StopEscrow(t) = 0
  BY EmptyLists, OrdersWorth, OrderBookType, NothingWorth
<1>5. MakerInventory(t) = 0
  BY EmptyLists, MakersWorth, MakerBookType, NothingWorth
<1>6. CurveHoldings(t) = 0
  BY EmptyLists, CurvesWorth, CurveBookType, NothingWorth
<1>7. MiningHoldings(t) = 0
  BY EmptyLists, MiningWorth, ProgramBookType, NothingWorth
<1>8. RoundsHeld(t) = 0
  BY EmptyLists, RoundsWorth, RoundBookType, NothingWorth
<1>9. RetrosHeld(t) = 0
  BY EmptyLists, RetrosWorth, RetroBookType, NothingWorth
<1>10. FundHoldings(t) = 0
  BY EmptyLists, FundsWorth, FundBookType, NothingWorth
<1> QED BY <1>1, <1>2, <1>3, <1>4, <1>5, <1>6, <1>7, <1>8, <1>9, <1>10
LEMMA StartsTyped ==
  ASSUME Init
  PROVE  LedgerTypeOK /\ books.credit = NoCredit
<1>1. wallet \in Wallets
  BY LedgerAssumption DEF Init, LedgerInit, Wallets, Account
<1>2. books \in Books /\ books.credit = NoCredit
  BY DEF Init, LedgerInit, Books, PerParty, PerToken, NoCredit
<1>3. breaker \in {None} \cup BreakerStates /\ now \in 1 .. MaxTime /\ drift \in Drifts
  BY LedgerAssumption DEF Init, LedgerInit, Drifts, PerToken
<1> QED BY <1>1, <1>2, <1>3 DEF LedgerTypeOK
LEMMA StartsAccounted ==
  ASSUME Init
  PROVE  MarketsAccounted
<1> SUFFICES ASSUME NEW t \in Token PROVE wallet[t][Jar] = Owed(t)
  BY AccountedNow
<1>1. wallet[t][Jar] = 0
  BY DEF Init, LedgerInit
<1>2. SumFunction([c \in Party |-> books.balance[c][t]]) = 0 /\ books.fees[t] = 0 /\ books.reserves[t] = 0
  <2> DEFINE f == [c \in Party |-> books.balance[c][t]]
  <2>1. f \in [Party -> Int] /\ (\A c \in Party : f[c] = 0) /\ books.fees[t] = 0 /\ books.reserves[t] = 0
    BY DEF Init, LedgerInit, PerParty, PerToken
  <2> QED BY <2>1, SumZero, LedgerAssumption
<1>3. Recorded(t) = 0
  BY <1>2 DEF Recorded, RecordedIn
<1> QED BY <1>1, <1>3, NothingHeld DEF Owed
LEMMA StartsCovered ==
  ASSUME Init
  PROVE  PositionsCover
<1> SUFFICES ASSUME NEW p \in Party
             PROVE  traders[p].margin >= SumFunction([i \in DOMAIN futures |-> HeldFor(futures[i], p)])
  BY DEF PositionsCover
<1> DEFINE f == [i \in DOMAIN futures |-> HeldFor(futures[i], p)]
<1>1. f \in [{} -> Int]
  BY EmptyLists
<1>2. traders[p].margin = 0
  BY DEF Init, FuturesInit, PerParty
<1> HIDE DEF f
<1>3. SumFunction(f) = 0
  BY <1>1, SumEmpty
<1> QED BY <1>2, <1>3 DEF f
LEMMA InitSound ==
  ASSUME Init
  PROVE  MarketsInv
<1>1. AmmInv
  BY EmptyLists DEF AmmInv
<1>2. FuturesInv
  <2>1. traders \in [Party -> Trader] /\ margins \in Margins
    BY DEF Init, FuturesInit, PerParty, Trader
  <2> QED BY <2>1, EmptyLists, StartsCovered DEF FuturesInv
<1>3. PredictionInv
  <2>1. betFee \in Nat /\ activeMarkets = {}
    BY PredictionAssumption DEF Init, PredictionInit
  <2> QED BY <2>1, EmptyLists DEF PredictionInv, ActiveMarketsUnsettled
<1>4. MakersInv /\ StopsInv
  BY EmptyLists DEF MakersInv, MakersSound, StopsInv
<1>5. RoundsInv
  BY EmptyLists, RoundsNow
<1>6. RetrosInv
  BY EmptyLists, VotesNow DEF RetrosInv
<1>7. FundsInv
  BY EmptyLists DEF FundsInv
<1>8. MiningInv
  BY EmptyLists, MiningNow
<1> QED BY <1>1, <1>2, <1>3, <1>4, <1>5, <1>6, <1>7, <1>8, StartsTyped, StartsAccounted
        DEF MarketsInv, NoCredit, PerParty, PerToken

-----------------------------------------------------------------------------
LEMMA MarketsInvariant == MarketsSpec => []MarketsInv
<1>1. Init => MarketsInv
  BY InitSound
<1>2. MarketsInv /\ [Next]_marketVars => MarketsInv'
  BY NextKeeps, StutterKeeps
<1> QED BY <1>1, <1>2, PTL DEF MarketsSpec

\* What the jar holds of each token is what the creators' balances, the platform's fees,
\* the reserves and the records of all markets and funds add up to, less what the code
\* pays without recording it (the contracts' transfers in and out of the one account of
\* the jar against the reserves, pools, margins, inventories, stakes and holdings they
\* record), whichever of them is called when.
THEOREM MarketsAlwaysAccounted == MarketsSpec => []MarketsAccounted
<1>1. MarketsInv => MarketsAccounted
  BY DEF MarketsInv
<1> QED BY <1>1, MarketsInvariant, PTL

\* Claims stay within the records they are paid from: a pool's shares add up, bets not
\* yet claimed are within the pool, a settlement takes no side below zero, a maker has no
\* less than nothing and, once closed, nothing it brought in, rewards of mining are within
\* what was funded, quadratic rounds pay what they took in and no more, and a fund's
\* shares redeem no more than its value.
THEOREM ClaimsAlwaysBacked == MarketsSpec => []ClaimsBacked
<1>1. MarketsInv => ClaimsBacked
  <2> SUFFICES ASSUME MarketsInv PROVE ClaimsBacked
    OBVIOUS
  <2>1. SharesAddUp
    BY MarketsParts DEF PoolsInv, PoolSound, SharesAddUp
  <2>2. ClaimsCovered /\ PositionsCover /\ SettledWithinMargins
    BY MarketsParts, BetsBacked, SettlementsCovered DEF FuturesInv
  <2>3. MakersSound /\ RoundsPaidOut /\ FundsRedeemable
    BY MarketsParts, FundsBacked DEF MakersInv, RoundsInv
  <2>4. RewardsVested
    BY MarketsParts, ListsTyped, RewardsBacked
  <2> QED BY <2>1, <2>2, <2>3, <2>4 DEF ClaimsBacked
<1> QED BY <1>1, MarketsInvariant, PTL

\* The votes a retroactive round counts are the votes cast in it, and the list of active
\* prediction markets is the list of those that are not settled.
THEOREM ListsAlwaysTrue == MarketsSpec => [](VotesCast /\ ActiveMarketsUnsettled)
<1>1. MarketsInv => VotesCast /\ ActiveMarketsUnsettled
  BY DEF MarketsInv, RetrosInv, PredictionInv
<1> QED BY <1>1, MarketsInvariant, PTL
=============================================================================
