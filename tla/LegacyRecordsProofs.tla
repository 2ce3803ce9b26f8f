------------------------- MODULE LegacyRecordsProofs ------------------------
(***************************************************************************)
(* Proofs about the legacy tip jar's libraries: that what is done once is  *)
(* done once and when it is due, that what is over stays over, and that    *)
(* the enhanced breaker counts what it lets through, for every set of      *)
(* parties, tokens, nonces and values, and every bound.                    *)
(***************************************************************************)
EXTENDS LegacyRecords, SumTheorems, SequenceTheorems

-----------------------------------------------------------------------------
\* What a step does to the account of the jar: v is w after x more of token t.
Gets(w, v, t, x) ==
  /\ v \in Wallets
  /\ \A u \in Token : v[u][Jar] \in Int /\ v[u][Jar] = w[u][Jar] + (IF u = t THEN x ELSE 0)

LEMMA JarsAccount ==
  ASSUME NEW w \in Wallets
  PROVE  \A u \in Token : w[u][Jar] \in Int
BY DEF Wallets, Account

LEMMA Transferred ==
  ASSUME NEW w \in Wallets, NEW t \in Token, NEW from \in Account, NEW to \in Account,
         NEW x \in Int
  PROVE  /\ Transfer(w, t, from, to, x) \in Wallets
         /\ \A u \in Token, a \in Account : Transfer(w, t, from, to, x)[u][a] =
              IF u # t THEN w[u][a]
              ELSE w[u][a] - (IF a = from THEN x ELSE 0) + (IF a = to THEN x ELSE 0)
<1> DEFINE row == w[t]
           next == [a \in Account |-> row[a] - (IF a = from THEN x ELSE 0)
                                            + (IF a = to THEN x ELSE 0)]
           v == [w EXCEPT ![t] = next]
<1>1. row \in [Account -> Int]
  BY DEF Wallets
<1>2. next \in [Account -> Int]
  BY <1>1
<1>3. Transfer(w, t, from, to, x) = v
  BY <1>1 DEF Transfer
<1>4. v \in Wallets /\ \A u \in Token : v[u] = IF u = t THEN next ELSE w[u]
  <2> HIDE DEF next
  <2> QED
    BY <1>2 DEF Wallets
<1> HIDE DEF v
<1>5. \A a \in Account : next[a] = w[t][a] - (IF a = from THEN x ELSE 0)
                                          + (IF a = to THEN x ELSE 0)
  OBVIOUS
<1> HIDE DEF next
<1> QED
  BY <1>3, <1>4, <1>5

LEMMA PaidIn ==
  ASSUME NEW w \in Wallets, NEW t \in Token, NEW p \in Party, NEW x \in Int
  PROVE  Gets(w, Transfer(w, t, p, Jar, x), t, x)
<1>1. p \in Account /\ Jar \in Account /\ p # Jar
  BY LedgerAssumption DEF Account
<1> DEFINE v == Transfer(w, t, p, Jar, x)
<1>2. /\ v \in Wallets
      /\ \A u \in Token, a \in Account : v[u][a] =
           IF u # t THEN w[u][a]
           ELSE w[u][a] - (IF a = p THEN x ELSE 0) + (IF a = Jar THEN x ELSE 0)
  BY <1>1, Transferred
<1> HIDE DEF v
<1>3. ASSUME NEW u \in Token PROVE v[u][Jar] = w[u][Jar] + (IF u = t THEN x ELSE 0)
  BY <1>1, <1>2, JarsAccount
<1> QED
  BY <1>2, <1>3, JarsAccount DEF v, Gets

LEMMA PaidOutOf ==
  ASSUME NEW w \in Wallets, NEW t \in Token, NEW p \in Party, NEW x \in Int
  PROVE  Gets(w, Transfer(w, t, Jar, p, x), t, -x)
<1>1. p \in Account /\ Jar \in Account /\ p # Jar
  BY LedgerAssumption DEF Account
<1> DEFINE v == Transfer(w, t, Jar, p, x)
<1>2. /\ v \in Wallets
      /\ \A u \in Token, a \in Account : v[u][a] =
           IF u # t THEN w[u][a]
           ELSE w[u][a] - (IF a = Jar THEN x ELSE 0) + (IF a = p THEN x ELSE 0)
  BY <1>1, Transferred
<1> HIDE DEF v
<1>3. ASSUME NEW u \in Token PROVE v[u][Jar] = w[u][Jar] + (IF u = t THEN -x ELSE 0)
  BY <1>1, <1>2, JarsAccount
<1> QED
  BY <1>2, <1>3, JarsAccount DEF v, Gets

LEMMA GetsTwice ==
  ASSUME NEW w \in Wallets, NEW v, NEW z, NEW t, NEW x \in Int, NEW y \in Int,
         Gets(w, v, t, x), Gets(v, z, t, y)
  PROVE  Gets(w, z, t, x + y)
<1> SUFFICES ASSUME NEW u \in Token
             PROVE  z[u][Jar] \in Int /\ z[u][Jar] = w[u][Jar] + (IF u = t THEN x + y ELSE 0)
  BY DEF Gets
<1> QED
  BY JarsAccount DEF Gets

\* Two parties pay into the jar, or are paid out of it.
LEMMA BothPayIn ==
  ASSUME NEW w \in Wallets, NEW t \in Token, NEW p \in Party, NEW q \in Party,
         NEW x \in Int, NEW y \in Int
  PROVE  Gets(w, Transfer(Transfer(w, t, p, Jar, x), t, q, Jar, y), t, x + y)
<1> DEFINE v == Transfer(w, t, p, Jar, x)
<1>1. Gets(w, v, t, x) /\ v \in Wallets
  BY PaidIn DEF Gets
<1> HIDE DEF v
<1>2. Gets(v, Transfer(v, t, q, Jar, y), t, y)
  BY <1>1, PaidIn
<1> QED
  BY <1>1, <1>2, GetsTwice DEF v
LEMMA BothPaidOut ==
  ASSUME NEW w \in Wallets, NEW t \in Token, NEW p \in Party, NEW q \in Party,
         NEW x \in Int, NEW y \in Int, NEW z \in Int, x + y = z
  PROVE  Gets(w, Transfer(Transfer(w, t, Jar, p, x), t, Jar, q, y), t, -z)
<1> DEFINE v == Transfer(w, t, Jar, p, x)
<1>1. Gets(w, v, t, -x) /\ v \in Wallets
  BY PaidOutOf DEF Gets
<1> HIDE DEF v
<1>2. Gets(v, Transfer(v, t, Jar, q, y), t, -y)
  BY <1>1, PaidOutOf
<1>3. -x \in Int /\ -y \in Int /\ (-x) + (-y) = -z
  OBVIOUS
<1>4. Gets(w, Transfer(v, t, Jar, q, y), t, (-x) + (-y))
  BY <1>1, <1>2, <1>3, GetsTwice
<1> QED
  BY <1>3, <1>4 DEF v

-----------------------------------------------------------------------------
\* One entry of a list changes, or one is added.
LEMMA SeqUpdated ==
  ASSUME NEW S, NEW s \in Seq(S), NEW i \in DOMAIN s, NEW e \in S
  PROVE  /\ [s EXCEPT ![i] = e] \in Seq(S)
         /\ DOMAIN [s EXCEPT ![i] = e] = DOMAIN s /\ DOMAIN s = 1 .. Len(s)
         /\ Len([s EXCEPT ![i] = e]) = Len(s)
         /\ \A j \in DOMAIN s : [s EXCEPT ![i] = e][j] = IF j = i THEN e ELSE s[j]
OBVIOUS

LEMMA SeqAppended ==
  ASSUME NEW S, NEW s \in Seq(S), NEW e \in S
  PROVE  /\ Append(s, e) \in Seq(S)
         /\ DOMAIN s = 1 .. Len(s) /\ DOMAIN Append(s, e) = 1 .. Len(s) + 1
         /\ Len(Append(s, e)) = Len(s) + 1 /\ Len(s) \in Nat
         /\ \A j \in DOMAIN s : Append(s, e)[j] = s[j]
         /\ Append(s, e)[Len(s) + 1] = e
OBVIOUS

LEMMA FiniteList ==
  ASSUME NEW S, NEW s \in Seq(S)
  PROVE  IsFiniteSet(DOMAIN s)
<1>1. DOMAIN s = 1 .. Len(s) /\ Len(s) \in Nat
  OBVIOUS
<1> QED BY <1>1, FS_Interval

\* There are finitely many channels, one for every two parties and token.
LEMMA FiniteChannels == IsFiniteSet(ChannelId)
<1> DEFINE S == Party \X (Party \X Token)
           f == [x \in S |-> [a |-> x[1], b |-> x[2][1], token |-> x[2][2]]]
<1>1. IsFiniteSet(S)
  BY LedgerAssumption, FS_Product
<1>2. f \in [S -> ChannelId]
  BY DEF ChannelId
<1>3. ASSUME NEW k \in ChannelId PROVE \E x \in S : f[x] = k
  <2>1. <<k.a, <<k.b, k.token>>>> \in S
    BY DEF ChannelId
  <2>2. f[<<k.a, <<k.b, k.token>>>>] = [a |-> k.a, b |-> k.b, token |-> k.token]
    BY <2>1
  <2>3. [a |-> k.a, b |-> k.b, token |-> k.token] = k
    BY DEF ChannelId
  <2> QED BY <2>1, <2>2, <2>3
<1>4. f \in Surjection(S, ChannelId)
  <2> HIDE DEF S, f
  <2> QED BY <1>2, <1>3 DEF Surjection
<1> QED
  <2> HIDE DEF S, f
  <2> QED BY <1>1, <1>4, FS_Surjection

-----------------------------------------------------------------------------
(* The creators' books *)

Balances == [Party -> [Token -> Int]]
RaisedAt(g, h, c, t, x) ==
  \A d \in Party, u \in Token : h[d][u] = g[d][u] + (IF d = c /\ u = t THEN x ELSE 0)
\* n are the books b after x of token t reached c.
CreditedAs(b, n, c, t, x) ==
  /\ n \in Books
  /\ RaisedAt(b.total, n.total, c, t, x)
  /\ \A u \in Token : /\ RecordedIn(b, u) \in Int /\ RecordedIn(n, u) \in Int
                      /\ RecordedIn(n, u) = RecordedIn(b, u) + (IF u = t THEN x ELSE 0)

LEMMA BalanceRaised ==
  ASSUME NEW g \in Balances, NEW c \in Party, NEW t \in Token, NEW x \in Int,
         NEW h, h = [g EXCEPT ![c][t] = g[c][t] + x]
  PROVE  h \in Balances /\ RaisedAt(g, h, c, t, x)
BY DEF Balances, RaisedAt
LEMMA BooksRecord ==
  ASSUME NEW b \in Books, NEW u \in Token
  PROVE  /\ RecordedIn(b, u) = SumFunction([c \in Party |-> b.balance[c][u]]) + b.fees[u] + b.reserves[u]
         /\ SumFunction([c \in Party |-> b.balance[c][u]]) \in Int
         /\ b.balance \in Balances /\ b.total \in Balances
         /\ b.fees \in [Token -> Int] /\ b.reserves \in [Token -> Int]
         /\ RecordedIn(b, u) \in Int
<1> DEFINE f == [c \in Party |-> b.balance[c][u]]
<1>1. /\ b.balance \in Balances /\ b.total \in Balances
      /\ b.fees \in [Token -> Int] /\ b.reserves \in [Token -> Int]
  BY DEF Books, Balances
<1>2. f \in [Party -> Int]
  BY <1>1 DEF Balances
<1>3. RecordedIn(b, u) = SumFunction(f) + b.fees[u] + b.reserves[u]
  BY DEF RecordedIn
<1> HIDE DEF f
<1>4. SumFunction(f) \in Int
  BY <1>2, LedgerAssumption, SumType
<1>5. b.fees[u] \in Int /\ b.reserves[u] \in Int
  BY <1>1
<1>6. RecordedIn(b, u) \in Int
  BY <1>3, <1>4, <1>5
<1> QED BY <1>1, <1>3, <1>4, <1>6 DEF f
LEMMA CreditRecorded ==
  ASSUME NEW b \in Books, NEW c \in Party, NEW t \in Token, NEW x \in Int
  PROVE  CreditedAs(b, Credited(b, c, t, x), c, t, x)
<1> DEFINE bal == [b.balance EXCEPT ![c][t] = b.balance[c][t] + x]
           tot == [b.total EXCEPT ![c][t] = b.total[c][t] + x]
           n == [b EXCEPT !.balance = bal, !.total = tot]
<1>1. /\ b.balance \in Balances /\ b.total \in Balances
      /\ b.fees \in [Token -> Int] /\ b.reserves \in [Token -> Int]
  BY BooksRecord
<1>2. bal \in Balances /\ RaisedAt(b.balance, bal, c, t, x) /\ tot \in Balances /\ RaisedAt(b.total, tot, c, t, x)
  <2> DEFINE g == b.balance
             k == b.total
  <2>1. g \in Balances /\ k \in Balances /\ bal = [g EXCEPT ![c][t] = g[c][t] + x] /\ tot = [k EXCEPT ![c][t] = k[c][t] + x]
    BY <1>1
  <2> HIDE DEF g, k, bal, tot
  <2>2. bal \in Balances /\ RaisedAt(g, bal, c, t, x) /\ tot \in Balances /\ RaisedAt(k, tot, c, t, x)
    BY <2>1, BalanceRaised
  <2> QED BY <2>2 DEF g, k
<1>4. Credited(b, c, t, x) = n
  BY DEF Credited
<1> HIDE DEF bal, tot
<1>5. n \in Books /\ n.balance = bal /\ n.fees = b.fees /\ n.reserves = b.reserves /\ n.total = tot
  BY <1>1, <1>2 DEF Books, Balances
<1> HIDE DEF n
<1>6. ASSUME NEW u \in Token
      PROVE  /\ RecordedIn(b, u) \in Int /\ RecordedIn(n, u) \in Int
             /\ RecordedIn(n, u) = RecordedIn(b, u) + (IF u = t THEN x ELSE 0)
  <2> DEFINE f == [d \in Party |-> b.balance[d][u]]
             g == [d \in Party |-> n.balance[d][u]]
             v == b.fees[u]
             w == b.reserves[u]
             e == IF u = t THEN x ELSE 0
  <2>1. /\ RecordedIn(b, u) = SumFunction(f) + v + w /\ SumFunction(f) \in Int
        /\ RecordedIn(n, u) = SumFunction(g) + v + w /\ v \in Int /\ w \in Int
        /\ RecordedIn(b, u) \in Int /\ RecordedIn(n, u) \in Int
    BY <1>1, <1>5, BooksRecord
  <2>2. f \in [Party -> Int] /\ g \in [Party -> Int] /\ IsFiniteSet(Party)
    BY <1>1, <1>2, <1>5, LedgerAssumption DEF Balances
  <2>3. (\A d \in Party \ {c} : g[d] = f[d]) /\ g[c] = f[c] + e
    <3>1. \A d \in Party : bal[d][u] = b.balance[d][u] + (IF d = c /\ u = t THEN x ELSE 0) /\ b.balance[d][u] \in Int
      BY <1>1, <1>2 DEF RaisedAt, Balances
    <3>2. \A d \in Party : g[d] = bal[d][u] /\ f[d] = b.balance[d][u]
      BY <1>5
    <3> HIDE DEF f, g
    <3> QED BY <3>1, <3>2
  <2>e. e \in Int
    OBVIOUS
  <2> HIDE DEF f, g, v, w, e
  <2>4. SumFunction(g) = SumFunction(f) + g[c] - f[c] /\ f[c] \in Int
    BY <2>2, <2>3, SumUpdate
  <2>5. RecordedIn(n, u) = RecordedIn(b, u) + e
    BY <2>1, <2>3, <2>4, <2>e
  <2> QED BY <2>1, <2>5 DEF e
<1> QED BY <1>2, <1>4, <1>5, <1>6 DEF CreditedAs

-----------------------------------------------------------------------------
(* What channels hold *)

Held(c) == c = None \/ c.deposit \in Int
Holding(cs) == \A k \in ChannelId : Held(cs[k])
\* ds are the channels cs after the jar holds x more of token t in them.
Escrows(cs, ds, t, x) ==
  \A u \in Token : /\ EscrowOf(cs, u) \in Int /\ EscrowOf(ds, u) \in Int
                   /\ EscrowOf(ds, u) = EscrowOf(cs, u) + (IF u = t THEN x ELSE 0)

LEMMA HeldType ==
  ASSUME NEW c, Held(c)
  PROVE  HeldIn(c) \in Int
BY DEF Held, HeldIn
LEMMA EscrowType ==
  ASSUME NEW cs, Holding(cs), NEW u
  PROVE  /\ EscrowOf(cs, u) \in Int
         /\ [k \in ChannelId |-> IF k.token = u THEN HeldIn(cs[k]) ELSE 0] \in [ChannelId -> Int]
<1> DEFINE f == [k \in ChannelId |-> IF k.token = u THEN HeldIn(cs[k]) ELSE 0]
<1>1. \A k \in ChannelId : HeldIn(cs[k]) \in Int
  BY HeldType DEF Holding
<1>2. f \in [ChannelId -> Int]
  BY <1>1
<1>3. EscrowOf(cs, u) = SumFunction(f)
  BY DEF EscrowOf
<1> HIDE DEF f
<1>4. SumFunction(f) \in Int
  BY <1>2, FiniteChannels, SumType
<1> QED BY <1>2, <1>3, <1>4 DEF f
LEMMA ChannelChanged ==
  ASSUME NEW cs, Holding(cs), DOMAIN cs = ChannelId, NEW k \in ChannelId, NEW e, Held(e)
  PROVE  Escrows(cs, [cs EXCEPT ![k] = e], k.token, HeldIn(e) - HeldIn(cs[k]))
<1> DEFINE ds == [cs EXCEPT ![k] = e]
<1>1. \A j \in ChannelId : ds[j] = IF j = k THEN e ELSE cs[j]
  OBVIOUS
<1> HIDE DEF ds
<1>2. Holding(ds)
  BY <1>1 DEF Holding
<1>3. HeldIn(e) \in Int /\ HeldIn(cs[k]) \in Int
  BY HeldType DEF Holding
<1> DEFINE x == HeldIn(e) - HeldIn(cs[k])
<1>4. ASSUME NEW u \in Token
      PROVE  /\ EscrowOf(cs, u) \in Int /\ EscrowOf(ds, u) \in Int
             /\ EscrowOf(ds, u) = EscrowOf(cs, u) + (IF u = k.token THEN x ELSE 0)
  <2> DEFINE f == [j \in ChannelId |-> IF j.token = u THEN HeldIn(cs[j]) ELSE 0]
             g == [j \in ChannelId |-> IF j.token = u THEN HeldIn(ds[j]) ELSE 0]
  <2>1. /\ EscrowOf(cs, u) \in Int /\ EscrowOf(ds, u) \in Int
        /\ f \in [ChannelId -> Int] /\ g \in [ChannelId -> Int]
    BY <1>2, EscrowType
  <2>2. EscrowOf(cs, u) = SumFunction(f) /\ EscrowOf(ds, u) = SumFunction(g)
    BY DEF EscrowOf
  <2>3. /\ \A j \in ChannelId \ {k} : g[j] = f[j]
        /\ f[k] = (IF k.token = u THEN HeldIn(cs[k]) ELSE 0)
        /\ g[k] = (IF k.token = u THEN HeldIn(e) ELSE 0)
    BY <1>1
  <2> HIDE DEF f, g
  <2>4. SumFunction(g) = SumFunction(f) + g[k] - f[k]
    BY <2>1, <2>3, FiniteChannels, SumUpdate
  <2> QED BY <2>1, <2>2, <2>3, <2>4, <1>3
<1> QED BY <1>4 DEF Escrows, ds
\* The jar still has what it owes after a payment that goes into channels, or out.
Backed(w, b, cs, ts) == \A u \in Token : w[u][Jar] = RecordedIn(b, u) + (EscrowOf(cs, u) + EscrowOf(ts, u))
LEMMA BackedByPayment ==
  ASSUME NEW w \in Wallets, NEW v, NEW b \in Books, NEW cs, NEW ds, NEW ts, NEW t, NEW x \in Int,
         Holding(ts), Backed(w, b, cs, ts), Gets(w, v, t, x), Escrows(cs, ds, t, x)
  PROVE  Backed(v, b, ds, ts)
<1> SUFFICES ASSUME NEW u \in Token
             PROVE  v[u][Jar] = RecordedIn(b, u) + (EscrowOf(ds, u) + EscrowOf(ts, u))
  BY DEF Backed
<1>1. RecordedIn(b, u) \in Int /\ EscrowOf(ts, u) \in Int /\ w[u][Jar] \in Int
  BY BooksRecord, EscrowType, JarsAccount
<1>2. w[u][Jar] = RecordedIn(b, u) + (EscrowOf(cs, u) + EscrowOf(ts, u))
  BY DEF Backed
<1>3. v[u][Jar] = w[u][Jar] + (IF u = t THEN x ELSE 0)
  BY DEF Gets
<1>4. /\ EscrowOf(cs, u) \in Int /\ EscrowOf(ds, u) \in Int
      /\ EscrowOf(ds, u) = EscrowOf(cs, u) + (IF u = t THEN x ELSE 0)
  BY DEF Escrows
<1> QED BY <1>1, <1>2, <1>3, <1>4
LEMMA BackedTurned ==
  ASSUME NEW w, NEW b, NEW cs, NEW ts, Holding(cs), Holding(ts)
  PROVE  Backed(w, b, cs, ts) <=> Backed(w, b, ts, cs)
<1>1. \A u \in Token : EscrowOf(cs, u) + EscrowOf(ts, u) = EscrowOf(ts, u) + EscrowOf(cs, u)
  BY EscrowType
<1> QED BY <1>1 DEF Backed
LEMMA BackedByCredit ==
  ASSUME NEW w \in Wallets, NEW v, NEW b \in Books, NEW n, NEW cs, NEW ts, NEW c, NEW t, NEW x \in Int,
         Holding(cs), Holding(ts), Backed(w, b, cs, ts), Gets(w, v, t, x), CreditedAs(b, n, c, t, x)
  PROVE  Backed(v, n, cs, ts)
<1> SUFFICES ASSUME NEW u \in Token
             PROVE  v[u][Jar] = RecordedIn(n, u) + (EscrowOf(cs, u) + EscrowOf(ts, u))
  BY DEF Backed
<1>1. EscrowOf(cs, u) \in Int /\ EscrowOf(ts, u) \in Int /\ w[u][Jar] \in Int
  BY EscrowType, JarsAccount
<1>2. w[u][Jar] = RecordedIn(b, u) + (EscrowOf(cs, u) + EscrowOf(ts, u))
  BY DEF Backed
<1>3. v[u][Jar] = w[u][Jar] + (IF u = t THEN x ELSE 0)
  BY DEF Gets
<1>4. /\ RecordedIn(b, u) \in Int /\ RecordedIn(n, u) \in Int
      /\ RecordedIn(n, u) = RecordedIn(b, u) + (IF u = t THEN x ELSE 0)
  BY DEF CreditedAs
<1> QED BY <1>1, <1>2, <1>3, <1>4
LEMMA AccountedIsBacked ==
  /\ ChannelsAccounted <=> (focus # "rollup" => Backed(wallet, books, channels, tipChannels))
  /\ ChannelsAccounted' <=> (focus' # "rollup" => Backed(wallet', books', channels', tipChannels'))
BY DEF ChannelsAccounted, Backed, Recorded, ChannelEscrow, RecordedIn, EscrowOf

-----------------------------------------------------------------------------
(* Payment channels *)

Over(c) == c.status \in {"Closed", "Settled"}
\* d is the channel c with another status; the deposit and the last claim stay.
Kept(c, d) == d.deposit = c.deposit /\ d.share = c.share /\ d.nonce = c.nonce

LEMMA StatusSet ==
  ASSUME NEW c \in Channel, NEW s \in ChannelStatus
  PROVE  WithStatus(c, s) \in Channel /\ WithStatus(c, s).status = s /\ Kept(c, WithStatus(c, s))
BY DEF Channel, WithStatus, Kept
LEMMA ClaimSet ==
  ASSUME NEW c \in Channel, NEW p \in Party, NEW x \in Int, NEW n \in Int, now \in Int
  PROVE  /\ Contested(c, p, x, n) \in Channel
         /\ Contested(c, p, x, n).status = "Disputed" /\ Contested(c, p, x, n).deposit = c.deposit
         /\ Contested(c, p, x, n).share = x /\ Contested(c, p, x, n).nonce = n
BY DEF Channel, Contested, ChannelStatus
LEMMA StateSet ==
  ASSUME NEW c \in Channel, NEW x \in Int, NEW n \in Int
  PROVE  /\ update_state(c, x, n) \in Channel
         /\ update_state(c, x, n).status = c.status /\ update_state(c, x, n).deposit = c.deposit
         /\ update_state(c, x, n).share = x /\ update_state(c, x, n).nonce = n
BY DEF Channel, update_state
LEMMA OpenedAs ==
  ASSUME NEW x \in Int, NEW y \in Int, NEW w \in Int
  PROVE  /\ open(x, y, w) \in Channel /\ open(x, y, w).status = "Open"
         /\ open(x, y, w).deposit = x + y
BY DEF Channel, open, ChannelStatus
LEMMA ChannelFields ==
  ASSUME NEW c \in Channel
  PROVE  /\ c # None /\ c.deposit \in Int /\ c.share \in Int /\ c.nonce \in Int
         /\ c.status \in ChannelStatus /\ Held(c)
BY ChannelsAssumption DEF Channel, Held
LEMMA ChannelIdFields ==
  ASSUME NEW k \in ChannelId
  PROVE  k.a \in Party /\ k.b \in Party /\ k.token \in Token
BY DEF ChannelId

\* The two parties share a deposit.
LEMMA DepositPaid ==
  ASSUME wallet \in Wallets, NEW k \in ChannelId, NEW c, NEW x \in Int, NEW y \in Int,
         c.deposit \in Int, x + y = c.deposit, PayParties(k, c, x, y)
  PROVE  Gets(wallet, wallet', k.token, -c.deposit)
<1> DEFINE z == c.deposit
<1>1. z \in Int /\ x + y = z
  OBVIOUS
<1>2. wallet' = Transfer(Transfer(wallet, k.token, Jar, k.a, x), k.token, Jar, k.b, y)
  BY DEF PayParties
<1> HIDE DEF z
<1>3. Gets(wallet, wallet', k.token, -z)
  BY <1>1, <1>2, ChannelIdFields, BothPaidOut
<1> QED BY <1>3 DEF z
LEMMA NothingPaid ==
  ASSUME wallet \in Wallets, wallet' = wallet, NEW t \in Token
  PROVE  Gets(wallet, wallet', t, 0)
BY JarsAccount DEF Gets
\* What a call does to one payment channel.
ChannelStep(k, e) ==
  /\ channels' = [channels EXCEPT ![k] = e] /\ e \in Channel /\ MovesOn(channels[k], e)
  /\ Gets(wallet, wallet', k.token, HeldIn(e) - HeldIn(channels[k]))
  /\ UNCHANGED <<books, tipChannels, meta>>
ChannelsOf == channels \in [ChannelId -> Channel \cup {None}]

LEMMA ChannelOpened ==
  ASSUME wallet \in Wallets, ChannelsOf, NEW k \in ChannelId, NEW x \in Amounts, NEW y \in Amounts,
         NEW w \in DisputeWindows, open_channel(k, x, y, w)
  PROVE  \E e : ChannelStep(k, e)
<1> DEFINE e == open(x, y, w)
<1>1. x \in Int /\ y \in Int /\ w \in Int
  BY LedgerAssumption, ChannelsAssumption
<1>2. e \in Channel /\ e.status = "Open" /\ e.deposit = x + y
  BY <1>1, OpenedAs
<1>3. e # None
  BY <1>2, ChannelFields
<1>4. /\ channels[k] = None /\ channels' = [channels EXCEPT ![k] = e] /\ UNCHANGED <<books, tipChannels, meta>>
      /\ wallet' = Transfer(Transfer(wallet, k.token, k.a, Jar, x), k.token, k.b, Jar, y)
  BY DEF open_channel
<1> HIDE DEF e
<1>5. Gets(wallet, wallet', k.token, x + y)
  BY <1>1, <1>4, ChannelIdFields, BothPayIn
<1>6. HeldIn(e) - HeldIn(channels[k]) = x + y
  BY <1>1, <1>2, <1>3, <1>4 DEF HeldIn
<1>7. MovesOn(channels[k], e)
  BY <1>4 DEF MovesOn
<1>8. Gets(wallet, wallet', k.token, HeldIn(e) - HeldIn(channels[k]))
  BY <1>5, <1>6
<1> QED BY <1>2, <1>4, <1>7, <1>8 DEF ChannelStep
LEMMA ChannelUpdated ==
  ASSUME wallet \in Wallets, ChannelsOf, NEW k \in ChannelId, NEW x \in Int, NEW n \in Int,
         update_channel_state(k, x, n)
  PROVE  \E e : ChannelStep(k, e)
<1> DEFINE c == channels[k]
           e == update_state(c, x, n)
<1>1. /\ channels' = [channels EXCEPT ![k] = e] /\ UNCHANGED <<wallet, books, tipChannels, meta>>
      /\ c # None /\ c.status = "Open" /\ n > c.nonce
  BY DEF update_channel_state, IsOpen
<1>2. c \in Channel
  BY <1>1 DEF ChannelsOf
<1>3. e \in Channel /\ e.status = c.status /\ e.deposit = c.deposit /\ e.nonce = n
  BY <1>2, StateSet
<1>4. e # None /\ c.deposit \in Int /\ c.nonce \in Int /\ k.token \in Token
  BY <1>2, <1>3, ChannelFields, ChannelIdFields
<1> HIDE DEF c, e
<1>5. HeldIn(e) - HeldIn(c) = 0
  BY <1>1, <1>3, <1>4 DEF HeldIn
<1>6. MovesOn(c, e)
  BY <1>1, <1>3, <1>4 DEF MovesOn
<1>7. Gets(wallet, wallet', k.token, HeldIn(e) - HeldIn(c))
  BY <1>1, <1>4, <1>5, NothingPaid
<1> QED BY <1>1, <1>3, <1>6, <1>7 DEF ChannelStep, c
LEMMA ChannelClosed ==
  ASSUME wallet \in Wallets, ChannelsOf, NEW k \in ChannelId, NEW c \in Channel, c = channels[k],
         c.status = "Open" \/ Lapsed(c),
         channels' = [channels EXCEPT ![k] = WithStatus(c, "Closed")],
         PayParties(k, c, c.share, balance_b(c)), UNCHANGED <<books, tipChannels, meta>>
  PROVE  \E e : ChannelStep(k, e)
<1> DEFINE e == WithStatus(c, "Closed")
<1>2. c # None /\ c.deposit \in Int /\ c.share \in Int /\ c.nonce \in Int
  BY ChannelFields
<1>3. e \in Channel /\ e.status = "Closed" /\ Kept(c, e)
  BY StatusSet DEF ChannelStatus
<1>4. e # None /\ c.status \notin {"Closed", "Settled"} /\ (c.status = "Open" \/ Lapsed(c))
  BY <1>3, ChannelFields DEF Lapsed
<1>5. Gets(wallet, wallet', k.token, -c.deposit)
  <2>1. balance_b(c) \in Int /\ c.share + balance_b(c) = c.deposit
    BY <1>2 DEF balance_b
  <2> QED BY <1>2, <2>1, DepositPaid
<1>0. channels' = [channels EXCEPT ![k] = e]
  OBVIOUS
<1> HIDE DEF e
<1>6. HeldIn(e) - HeldIn(c) = -c.deposit
  BY <1>2, <1>3, <1>4 DEF HeldIn
<1>7. MovesOn(c, e)
  BY <1>2, <1>3, <1>4 DEF MovesOn, Kept
<1>8. Gets(wallet, wallet', k.token, HeldIn(e) - HeldIn(c))
  BY <1>5, <1>6
<1> QED BY <1>0, <1>3, <1>7, <1>8 DEF ChannelStep
LEMMA ChannelCooperates ==
  ASSUME wallet \in Wallets, ChannelsOf, NEW k \in ChannelId, cooperative_close(k)
  PROVE  \E e : ChannelStep(k, e)
<1> DEFINE c == channels[k]
<1>1. /\ c # None /\ c.status = "Open" /\ UNCHANGED <<books, tipChannels, meta>>
      /\ PayParties(k, c, c.share, balance_b(c))
      /\ channels' = [channels EXCEPT ![k] = WithStatus(channels[k], "Closed")]
  BY DEF cooperative_close, IsOpen, ChannelsOf
<1>2. c \in Channel
  BY <1>1 DEF ChannelsOf
<1>3. channels' = [channels EXCEPT ![k] = WithStatus(c, "Closed")] /\ c = channels[k]
  BY <1>1
<1> HIDE DEF c
<1> QED BY <1>1, <1>2, <1>3, ChannelClosed
LEMMA ChannelDisputed ==
  ASSUME wallet \in Wallets, ChannelsOf, now \in Int, NEW k \in ChannelId, NEW p \in Party,
         NEW x \in Int, NEW n \in Int, dispute_close(p, k, x, n)
  PROVE  \E e : ChannelStep(k, e)
<1> DEFINE c == channels[k]
<1>1. /\ c # None /\ UNCHANGED <<books, tipChannels, meta>>
      /\ \/ /\ Contest(c, x, n)
            /\ channels' = [channels EXCEPT ![k] = Contested(c, p, x, n)]
            /\ UNCHANGED wallet
         \/ /\ Lapsed(c)
            /\ channels' = [channels EXCEPT ![k] = WithStatus(c, "Closed")]
            /\ PayParties(k, c, c.share, balance_b(c))
  BY DEF dispute_close
<1>2. c \in Channel /\ c = channels[k]
  BY <1>1 DEF ChannelsOf
<1> HIDE DEF c
<1>3. CASE /\ Lapsed(c)
           /\ channels' = [channels EXCEPT ![k] = WithStatus(c, "Closed")]
           /\ PayParties(k, c, c.share, balance_b(c))
  BY <1>1, <1>2, <1>3, ChannelClosed
<1>4. CASE /\ Contest(c, x, n)
           /\ channels' = [channels EXCEPT ![k] = Contested(c, p, x, n)]
           /\ UNCHANGED wallet
  <2> DEFINE e == Contested(c, p, x, n)
  <2>1. e \in Channel /\ e.status = "Disputed" /\ e.deposit = c.deposit /\ e.nonce = n
    BY <1>2, ClaimSet
  <2>2. e # None /\ c.deposit \in Int /\ c.nonce \in Int /\ k.token \in Token
    BY <1>2, <2>1, ChannelFields, ChannelIdFields
  <2>3. (c.status = "Open" /\ n >= c.nonce) \/ (c.status = "Disputed" /\ n > c.nonce)
    BY <1>4 DEF Contest
  <2>0. channels' = [channels EXCEPT ![k] = e]
    BY <1>4
  <2> HIDE DEF e
  <2>4. HeldIn(e) - HeldIn(c) = 0
    BY <1>1, <2>1, <2>2, <2>3 DEF HeldIn
  <2>5. MovesOn(c, e)
    BY <1>1, <2>1, <2>2, <2>3 DEF MovesOn
  <2>6. Gets(wallet, wallet', k.token, HeldIn(e) - HeldIn(c))
    BY <1>4, <2>2, <2>4, NothingPaid
  <2> QED BY <1>1, <1>2, <2>0, <2>1, <2>5, <2>6 DEF ChannelStep
<1> QED BY <1>1, <1>3, <1>4
LEMMA PaymentStep ==
  ASSUME wallet \in Wallets, ChannelsOf, now \in Int, PaymentChannelNext
  PROVE  \E k \in ChannelId : \E e : ChannelStep(k, e)
<1>1. PICK k \in ChannelId :
        \/ \E x, y \in Amounts, w \in DisputeWindows : open_channel(k, x, y, w)
        \/ cooperative_close(k)
        \/ \E x \in Amounts \cup {0}, n \in Nonces :
             \/ update_channel_state(k, x, n)
             \/ \E p \in Party : dispute_close(p, k, x, n)
  BY DEF PaymentChannelNext
<1>2. (\A x \in Amounts \cup {0} : x \in Int) /\ (\A n \in Nonces : n \in Int)
  BY LedgerAssumption, ChannelsAssumption
<1>3. CASE \E x, y \in Amounts, w \in DisputeWindows : open_channel(k, x, y, w)
  BY <1>3, ChannelOpened
<1>4. CASE cooperative_close(k)
  BY <1>4, ChannelCooperates
<1>5. CASE \E x \in Amounts \cup {0}, n \in Nonces :
             \/ update_channel_state(k, x, n)
             \/ \E p \in Party : dispute_close(p, k, x, n)
  <2>1. PICK x \in Amounts \cup {0}, n \in Nonces :
             \/ update_channel_state(k, x, n)
             \/ \E p \in Party : dispute_close(p, k, x, n)
    BY <1>5
  <2>2. x \in Int /\ n \in Int
    BY <1>2
  <2>3. CASE update_channel_state(k, x, n)
    BY <2>2, <2>3, ChannelUpdated
  <2>4. CASE \E p \in Party : dispute_close(p, k, x, n)
    BY <2>2, <2>4, ChannelDisputed
  <2> QED BY <2>1, <2>3, <2>4
<1> QED BY <1>1, <1>3, <1>4, <1>5

-----------------------------------------------------------------------------
(* Tip channels *)

\* The tips listed for a channel are its total, which is within the deposit.
ListsAll(share, deposit, list) ==
  /\ share = SumFunction(list)
  /\ \A i \in DOMAIN list : list[i] >= 0
  /\ share <= deposit
AddsUp(c) == IsOpen(c) => ListsAll(c.share, c.deposit, c.entries)

LEMMA TipStatusSet ==
  ASSUME NEW c \in TipChannel, NEW s \in ChannelStatus
  PROVE  WithStatus(c, s) \in TipChannel /\ WithStatus(c, s).status = s /\ Kept(c, WithStatus(c, s))
BY DEF TipChannel, WithStatus, Kept
LEMMA TipClaimSet ==
  ASSUME NEW c \in TipChannel, NEW p \in Party, NEW x \in Int, NEW n \in Int, now \in Int
  PROVE  /\ Contested(c, p, x, n) \in TipChannel
         /\ Contested(c, p, x, n).status = "Disputed" /\ Contested(c, p, x, n).deposit = c.deposit
         /\ Contested(c, p, x, n).share = x /\ Contested(c, p, x, n).nonce = n
BY DEF TipChannel, Contested, ChannelStatus
LEMMA TipsOpenedAs ==
  ASSUME NEW x \in Int, NEW w \in Int
  PROVE  /\ NewTips(x, w) \in TipChannel /\ NewTips(x, w).status = "Open"
         /\ NewTips(x, w).deposit = x /\ NewTips(x, w).share = 0 /\ NewTips(x, w).entries = <<>>
BY DEF TipChannel, NewTips, ChannelStatus
LEMMA TipFields ==
  ASSUME NEW c \in TipChannel
  PROVE  /\ c # None /\ c.deposit \in Int /\ c.share \in Int /\ c.nonce \in Int
         /\ c.status \in ChannelStatus /\ Held(c) /\ c.entries \in Seq(Int)
BY ChannelsAssumption DEF TipChannel, Held
LEMMA TipRecordedAs ==
  ASSUME NEW c \in TipChannel, NEW x \in Int, NEW n \in Int
  PROVE  /\ record_tip(c, x, n) \in TipChannel
         /\ record_tip(c, x, n).status = c.status /\ record_tip(c, x, n).deposit = c.deposit
         /\ record_tip(c, x, n).share = x /\ record_tip(c, x, n).nonce = n
         /\ record_tip(c, x, n).entries = Append(c.entries, x - c.share)
<1> DEFINE l == Append(c.entries, x - c.share)
<1>1. l \in Seq(Int)
  BY TipFields
<1>2. record_tip(c, x, n) = [c EXCEPT !.share = x, !.nonce = n, !.entries = l]
  BY DEF record_tip
<1> HIDE DEF l
<1>3. /\ [c EXCEPT !.share = x, !.nonce = n, !.entries = l] \in TipChannel
      /\ [c EXCEPT !.share = x, !.nonce = n, !.entries = l].status = c.status
      /\ [c EXCEPT !.share = x, !.nonce = n, !.entries = l].deposit = c.deposit
      /\ [c EXCEPT !.share = x, !.nonce = n, !.entries = l].share = x
      /\ [c EXCEPT !.share = x, !.nonce = n, !.entries = l].nonce = n
      /\ [c EXCEPT !.share = x, !.nonce = n, !.entries = l].entries = l
  BY <1>1 DEF TipChannel
<1> QED BY <1>2, <1>3 DEF l

\* An empty list adds up to nothing, and a tip adds what the total grew by.
LEMMA ListsNone ==
  ASSUME NEW x \in Nat
  PROVE  ListsAll(0, x, <<>>)
<1> DEFINE f == <<>>
<1>1. f \in [{} -> Int] /\ DOMAIN f = {}
  OBVIOUS
<1> HIDE DEF f
<1>2. SumFunction(f) = 0
  BY <1>1, SumEmpty
<1>3. ListsAll(0, x, f)
  BY <1>1, <1>2 DEF ListsAll
<1> QED BY <1>3 DEF f
LEMMA ListFunction ==
  ASSUME NEW S, NEW l \in Seq(S)
  PROVE  l \in [1 .. Len(l) -> S]
OBVIOUS
LEMMA ListsMore ==
  ASSUME NEW s \in Int, NEW d \in Int, NEW l \in Seq(Int), ListsAll(s, d, l), NEW x \in Int, s <= x, x <= d
  PROVE  ListsAll(x, d, Append(l, x - s))
<1> DEFINE g == Append(l, x - s)
           n == Len(l)
<1>1. /\ x - s \in Int /\ g \in Seq(Int) /\ n \in Nat /\ DOMAIN l = 1 .. n /\ DOMAIN g = 1 .. n + 1
      /\ (\A j \in DOMAIN l : g[j] = l[j]) /\ g[n + 1] = x - s /\ Len(g) = n + 1
  BY SeqAppended
<1>2. l \in [1 .. n -> Int] /\ g \in [1 .. n + 1 -> Int]
  <2> HIDE DEF g
  <2> QED BY <1>1, ListFunction
<1>3. s = SumFunction(l) /\ (\A i \in DOMAIN l : l[i] >= 0)
  BY DEF ListsAll
<1> HIDE DEF g, n
<1>4. SumFunction(g) = SumFunction(l) + g[n + 1]
  BY <1>1, <1>2, SumAppend
<1>5. x = SumFunction(g)
  BY <1>1, <1>3, <1>4
<1>6. \A i \in DOMAIN g : g[i] >= 0
  <2> SUFFICES ASSUME NEW i \in DOMAIN g PROVE g[i] >= 0
    OBVIOUS
  <2>1. i \in 1 .. n \/ i = n + 1
    BY <1>1
  <2>2. CASE i \in 1 .. n
    BY <1>1, <1>3, <2>2
  <2>3. CASE i = n + 1
    BY <1>1, <2>3
  <2> QED BY <2>1, <2>2, <2>3
<1>7. ListsAll(x, d, g)
  BY <1>5, <1>6 DEF ListsAll
<1> QED BY <1>7 DEF g

\* What a call does to one tip channel.
TipStep(k, e) ==
  /\ tipChannels' = [tipChannels EXCEPT ![k] = e] /\ e \in TipChannel /\ MovesOn(tipChannels[k], e)
  /\ AddsUp(e)
  /\ Gets(wallet, wallet', k.token, HeldIn(e) - HeldIn(tipChannels[k]))
TipsOf == tipChannels \in [ChannelId -> TipChannel \cup {None}] /\ \A k \in ChannelId : AddsUp(tipChannels[k])

LEMMA TipsOpened ==
  ASSUME wallet \in Wallets, TipsOf, NEW k \in ChannelId, NEW x \in Nat, NEW w \in Int,
         open_tips(k, x, w)
  PROVE  TipStep(k, NewTips(x, w))
<1> DEFINE e == NewTips(x, w)
<1>1. e \in TipChannel /\ e.status = "Open" /\ e.deposit = x /\ e.share = 0 /\ e.entries = <<>>
  BY TipsOpenedAs
<1>2. e # None
  BY <1>1, TipFields
<1>3. /\ tipChannels[k] = None /\ tipChannels' = [tipChannels EXCEPT ![k] = e]
      /\ wallet' = Transfer(wallet, k.token, k.a, Jar, x)
  BY DEF open_tips, Pay
<1> HIDE DEF e
<1>4. Gets(wallet, wallet', k.token, x)
  BY <1>3, ChannelIdFields, PaidIn
<1>5. HeldIn(e) - HeldIn(tipChannels[k]) = x
  BY <1>1, <1>2, <1>3 DEF HeldIn
<1>6. MovesOn(tipChannels[k], e)
  BY <1>3 DEF MovesOn
<1>7. AddsUp(e)
  BY <1>1, ListsNone DEF AddsUp
<1>8. Gets(wallet, wallet', k.token, HeldIn(e) - HeldIn(tipChannels[k]))
  BY <1>4, <1>5
<1> QED BY <1>1, <1>3, <1>6, <1>7, <1>8 DEF TipStep, e
LEMMA TipRecorded ==
  ASSUME wallet \in Wallets, TipsOf, NEW k \in ChannelId, NEW x \in Int, NEW n \in Int,
         record_channel_tip(k, x, n)
  PROVE  \E e : TipStep(k, e)
<1> DEFINE c == tipChannels[k]
           e == record_tip(c, x, n)
<1>1. /\ tipChannels' = [tipChannels EXCEPT ![k] = e] /\ wallet' = wallet
      /\ IsOpen(c) /\ c # None /\ c.status = "Open" /\ n > c.nonce /\ x \in c.share .. c.deposit
  BY DEF record_channel_tip, IsOpen
<1>2. c \in TipChannel /\ AddsUp(c)
  BY <1>1 DEF TipsOf
<1>3. /\ e \in TipChannel /\ e.status = c.status /\ e.deposit = c.deposit /\ e.nonce = n
      /\ e.share = x /\ e.entries = Append(c.entries, x - c.share)
  BY <1>2, TipRecordedAs
<1>4. /\ e # None /\ c.deposit \in Int /\ c.share \in Int /\ c.nonce \in Int /\ k.token \in Token
      /\ c.entries \in Seq(Int)
  BY <1>2, <1>3, TipFields, ChannelIdFields
<1> HIDE DEF c, e
<1>5. HeldIn(e) - HeldIn(c) = 0
  BY <1>1, <1>3, <1>4 DEF HeldIn
<1>6. MovesOn(c, e)
  BY <1>1, <1>3, <1>4 DEF MovesOn
<1>7. Gets(wallet, wallet', k.token, HeldIn(e) - HeldIn(c))
  BY <1>1, <1>4, <1>5, NothingPaid
<1>8. AddsUp(e)
  <2>1. ListsAll(c.share, c.deposit, c.entries) /\ c.share <= x /\ x <= c.deposit
    BY <1>1, <1>2, <1>4 DEF AddsUp
  <2>2. ListsAll(x, c.deposit, Append(c.entries, x - c.share))
    BY <1>4, <2>1, ListsMore
  <2> QED BY <1>3, <2>2 DEF AddsUp
<1> QED BY <1>1, <1>3, <1>6, <1>7, <1>8 DEF TipStep, c
LEMMA TipsSettled ==
  ASSUME wallet \in Wallets, TipsOf, NEW k \in ChannelId, tipChannels[k] # None, settle(k),
         tipChannels[k].status = "Open" \/ Lapsed(tipChannels[k])
  PROVE  \E e : TipStep(k, e)
<1> DEFINE c == tipChannels[k]
           e == WithStatus(c, "Settled")
<1>1. /\ tipChannels' = [tipChannels EXCEPT ![k] = e] /\ PayParties(k, c, c.deposit - c.share, c.share)
      /\ c \in TipChannel /\ (c.status = "Open" \/ Lapsed(c))
  BY DEF settle, TipsOf
<1>2. c # None /\ c.deposit \in Int /\ c.share \in Int /\ c.nonce \in Int
  BY <1>1, TipFields
<1>3. e \in TipChannel /\ e.status = "Settled" /\ Kept(c, e)
  BY <1>1, TipStatusSet DEF ChannelStatus
<1>4. e # None /\ c.status \notin {"Closed", "Settled"}
  BY <1>1, <1>3, TipFields DEF Lapsed
<1>5. Gets(wallet, wallet', k.token, -c.deposit)
  <2> HIDE DEF c
  <2>1. c.deposit - c.share \in Int /\ (c.deposit - c.share) + c.share = c.deposit
    BY <1>2
  <2> QED BY <1>1, <1>2, <2>1, DepositPaid
<1> HIDE DEF c, e
<1>6. HeldIn(e) - HeldIn(c) = -c.deposit
  BY <1>2, <1>3, <1>4 DEF HeldIn
<1>7. MovesOn(c, e)
  BY <1>1, <1>2, <1>3, <1>4 DEF MovesOn, Kept
<1>8. Gets(wallet, wallet', k.token, HeldIn(e) - HeldIn(c))
  BY <1>5, <1>6
<1>9. AddsUp(e)
  BY <1>3 DEF AddsUp, IsOpen
<1> QED BY <1>1, <1>3, <1>7, <1>8, <1>9 DEF TipStep, c
LEMMA TipsDisputed ==
  ASSUME wallet \in Wallets, TipsOf, now \in Int, NEW k \in ChannelId, NEW p \in Party,
         NEW x \in Int, NEW n \in Int, tipChannels[k] # None, dispute(p, k, x, n)
  PROVE  \E e : TipStep(k, e)
<1> DEFINE c == tipChannels[k]
<1>1. c # None /\ c \in TipChannel
  BY DEF TipsOf
<1>2. \/ /\ Contest(c, x, n)
         /\ tipChannels' = [tipChannels EXCEPT ![k] = Contested(c, p, x, n)]
         /\ UNCHANGED wallet
      \/ Lapsed(c) /\ settle(k)
  BY DEF dispute
<1>3. CASE Lapsed(c) /\ settle(k)
  BY <1>1, <1>3, TipsSettled
<1>4. CASE /\ Contest(c, x, n)
           /\ tipChannels' = [tipChannels EXCEPT ![k] = Contested(c, p, x, n)]
           /\ UNCHANGED wallet
  <2> DEFINE e == Contested(c, p, x, n)
  <2>0. tipChannels' = [tipChannels EXCEPT ![k] = e] /\ wallet' = wallet /\ Contest(c, x, n)
    BY <1>4
  <2> HIDE DEF c
  <2>1. e \in TipChannel /\ e.status = "Disputed" /\ e.deposit = c.deposit /\ e.nonce = n
    BY <1>1, TipClaimSet
  <2>2. e # None /\ c.deposit \in Int /\ c.nonce \in Int /\ k.token \in Token
    BY <1>1, <2>1, TipFields, ChannelIdFields
  <2>3. (c.status = "Open" /\ n >= c.nonce) \/ (c.status = "Disputed" /\ n > c.nonce)
    BY <2>0 DEF Contest
  <2> HIDE DEF e
  <2>4. HeldIn(e) - HeldIn(c) = 0
    BY <1>1, <2>1, <2>2, <2>3 DEF HeldIn
  <2>5. MovesOn(c, e)
    BY <1>1, <2>1, <2>2, <2>3 DEF MovesOn
  <2>6. Gets(wallet, wallet', k.token, HeldIn(e) - HeldIn(c))
    BY <2>0, <2>2, <2>4, NothingPaid
  <2>7. AddsUp(e)
    BY <2>1 DEF AddsUp, IsOpen
  <2> QED BY <2>0, <2>1, <2>5, <2>6, <2>7 DEF TipStep, c
<1> QED BY <1>2, <1>3, <1>4
LEMMA TipChannelStep ==
  ASSUME wallet \in Wallets, TipsOf, now \in Int, TipChannelNext
  PROVE  /\ \E k \in ChannelId : \E e : TipStep(k, e)
         /\ UNCHANGED <<books, channels, meta>>
<1>1. PICK k \in ChannelId :
        \/ \E x \in Amounts, w \in DisputeWindows : open_tip_channel(k, x, w)
        \/ settle_tip_channel(k)
        \/ \E x \in Amounts \cup {0}, n \in Nonces :
             \/ record_channel_tip(k, x, n)
             \/ \E p \in Party : dispute_tip_channel(p, k, x, n)
  BY DEF TipChannelNext
<1>3. CASE \E x \in Amounts, w \in DisputeWindows : open_tip_channel(k, x, w)
  <2>1. PICK x \in Amounts, w \in DisputeWindows : open_tip_channel(k, x, w)
    BY <1>3
  <2>2. x \in Nat /\ w \in Int
    BY LedgerAssumption, ChannelsAssumption
  <2>3. open_tips(k, x, w) /\ UNCHANGED <<books, channels, meta>>
    BY <2>1 DEF open_tip_channel
  <2> QED BY <2>2, <2>3, TipsOpened
<1>4. CASE settle_tip_channel(k)
  <2>1. settle(k) /\ tipChannels[k] # None /\ tipChannels[k].status = "Open" /\ UNCHANGED <<books, channels, meta>>
    BY <1>4 DEF settle_tip_channel, IsOpen
  <2> QED BY <2>1, TipsSettled
<1>5. CASE \E x \in Amounts \cup {0}, n \in Nonces :
             \/ record_channel_tip(k, x, n)
             \/ \E p \in Party : dispute_tip_channel(p, k, x, n)
  <2>1. PICK x \in Amounts \cup {0}, n \in Nonces :
             \/ record_channel_tip(k, x, n)
             \/ \E p \in Party : dispute_tip_channel(p, k, x, n)
    BY <1>5
  <2>2. x \in Int /\ n \in Int
    BY LedgerAssumption, ChannelsAssumption
  <2>3. CASE record_channel_tip(k, x, n)
    <3>1. UNCHANGED <<books, channels, meta>>
      BY <2>3 DEF record_channel_tip
    <3> QED BY <2>2, <2>3, <3>1, TipRecorded
  <2>4. CASE \E p \in Party : dispute_tip_channel(p, k, x, n)
    <3>1. PICK p \in Party : dispute_tip_channel(p, k, x, n)
      BY <2>4
    <3>2. dispute(p, k, x, n) /\ tipChannels[k] # None /\ UNCHANGED <<books, channels, meta>>
      BY <3>1 DEF dispute_tip_channel
    <3> QED BY <2>2, <3>2, TipsDisputed
  <2> QED BY <2>1, <2>3, <2>4
<1> QED BY <1>1, <1>3, <1>4, <1>5

-----------------------------------------------------------------------------
(* Requests that a relayer submits *)

MetaRecord == [from : Party, relayer : Party, nonce : Nat]
\* Every request carries the number of those its sender had made before.
InOrderOf(nonces, list) ==
  /\ \A p \in Party : nonces[p] = Cardinality(RequestsOf(list, p, Len(list)))
  /\ \A i \in DOMAIN list : list[i].nonce = Cardinality(RequestsOf(list, list[i].from, i - 1))

LEMMA RequestsFinite ==
  ASSUME NEW list, NEW p, NEW n \in Int
  PROVE  IsFiniteSet(RequestsOf(list, p, n))
<1>1. IsFiniteSet(1 .. n)
  BY FS_Interval
<1>2. RequestsOf(list, p, n) \in SUBSET (1 .. n)
  BY DEF RequestsOf
<1> QED BY <1>1, <1>2, FS_Subset
LEMMA OneMoreRequest ==
  ASSUME NEW nonces \in [Party -> Nat], NEW list \in Seq(MetaRecord), InOrderOf(nonces, list),
         NEW e \in MetaRecord, e.nonce = nonces[e.from]
  PROVE  Raised(nonces, e.from) \in [Party -> Nat] /\ InOrderOf(Raised(nonces, e.from), Append(list, e))
<1> DEFINE g == Append(list, e)
           n == Len(list)
           more == Raised(nonces, e.from)
<1>0. e.from \in Party
  BY DEF MetaRecord
<1>1. /\ g \in Seq(MetaRecord) /\ n \in Nat /\ DOMAIN list = 1 .. n /\ DOMAIN g = 1 .. n + 1
      /\ (\A j \in 1 .. n : g[j] = list[j]) /\ g[n + 1] = e /\ Len(g) = n + 1
  BY SeqAppended
<1>2. more \in [Party -> Nat] /\ \A p \in Party : more[p] = nonces[p] + (IF p = e.from THEN 1 ELSE 0)
  BY <1>0 DEF Raised
<1>3. /\ \A p \in Party : nonces[p] = Cardinality(RequestsOf(list, p, n))
      /\ \A i \in 1 .. n : list[i].nonce = Cardinality(RequestsOf(list, list[i].from, i - 1))
  BY <1>1 DEF InOrderOf
<1> HIDE DEF g, n, more
<1>4. ASSUME NEW p, NEW i \in 1 .. n + 1
      PROVE  RequestsOf(g, p, i - 1) = RequestsOf(list, p, i - 1)
  <2>1. \A j \in 1 .. i - 1 : j \in 1 .. n
    BY <1>1
  <2> QED BY <1>1, <2>1 DEF RequestsOf
<1>5. ASSUME NEW p \in Party
      PROVE  more[p] = Cardinality(RequestsOf(g, p, n + 1))
  <2> DEFINE S == RequestsOf(list, p, n)
             T == RequestsOf(g, p, n + 1)
  <2>1. IsFiniteSet(S) /\ nonces[p] = Cardinality(S)
    BY <1>1, <1>3, RequestsFinite
  <2>2. T = IF e.from = p THEN S \cup {n + 1} ELSE S
    BY <1>1 DEF RequestsOf
  <2>3. n + 1 \notin S
    BY <1>1 DEF RequestsOf
  <2> HIDE DEF S, T
  <2>4. Cardinality(T) = Cardinality(S) + (IF p = e.from THEN 1 ELSE 0)
    <3>1. CASE e.from = p
      BY <2>1, <2>2, <2>3, <3>1, FS_AddElement
    <3>2. CASE e.from # p
      BY <2>1, <2>2, <3>2, FS_CardinalityType
    <3> QED BY <3>1, <3>2
  <2> QED BY <1>2, <2>1, <2>4 DEF T
<1>6. ASSUME NEW i \in 1 .. n + 1
      PROVE  g[i].nonce = Cardinality(RequestsOf(g, g[i].from, i - 1))
  <2>1. CASE i \in 1 .. n
    <3>1. g[i] = list[i] /\ list[i].nonce = Cardinality(RequestsOf(list, list[i].from, i - 1))
      BY <1>1, <1>3, <2>1
    <3> QED BY <1>4, <3>1
  <2>2. CASE i = n + 1
    <3>1. g[i] = e /\ i - 1 = n
      BY <1>1, <2>2
    <3>2. e.nonce = Cardinality(RequestsOf(list, e.from, n))
      BY <1>0, <1>3
    <3>3. RequestsOf(g, e.from, i - 1) = RequestsOf(list, e.from, i - 1)
      BY <1>4
    <3> QED BY <3>1, <3>2, <3>3
  <2> QED BY <1>1, <2>1, <2>2
<1>7. InOrderOf(more, g)
  BY <1>1, <1>5, <1>6 DEF InOrderOf
<1> QED BY <1>2, <1>7 DEF g, more

LEMMA MetaFields ==
  ASSUME MetaInv
  PROVE  /\ meta.relayers \in SUBSET Party /\ meta.nonce \in [Party -> Nat]
         /\ meta.consumed \in SUBSET (ChannelId \X Nat \X Nat \X Int)
         /\ meta.records \in Seq(MetaRecord)
         /\ InOrderOf(meta.nonce, meta.records)
BY DEF MetaInv, Meta, MetaRecord, MetaOnce, InOrderOf, RequestsOf
LEMMA MetaMade ==
  ASSUME meta' \in Meta, InOrderOf(meta'.nonce, meta'.records)
  PROVE  MetaInv'
BY DEF MetaInv, MetaOnce, InOrderOf, RequestsOf
LEMMA RelayersChanged ==
  ASSUME MetaInv, NEW R \in SUBSET Party, meta' = [meta EXCEPT !.relayers = R]
  PROVE  MetaInv'
<1>1. meta' \in Meta /\ meta'.nonce = meta.nonce /\ meta'.records = meta.records
  BY DEF MetaInv, Meta
<1> QED BY <1>1, MetaFields, MetaMade
LEMMA RequestFinalized ==
  ASSUME MetaInv, NEW r \in Party, NEW k \in ChannelId, NEW x \in Nat, NEW n \in Nat, NEW v \in Int,
         NEW q, q = [key |-> k, amount |-> x, nonce |-> n, valid_until |-> v],
         verify(r, q), finalize(r, q)
  PROVE  MetaInv'
<1> DEFINE e == [from |-> k.a, relayer |-> r, nonce |-> n]
           list == Append(meta.records, e)
           used == meta.consumed \cup {<<k, x, n, v>>}
           more == Raised(meta.nonce, k.a)
<1>0. k.a \in Party /\ q.key = k /\ q.nonce = n /\ canonical_hash(q) = <<k, x, n, v>>
  BY ChannelIdFields DEF canonical_hash
<1>1. e \in MetaRecord /\ e.from = k.a /\ e.nonce = n /\ n = meta.nonce[k.a]
  BY <1>0 DEF MetaRecord, verify
<1>2. meta' = [meta EXCEPT !.consumed = used, !.nonce = more, !.records = list]
  BY <1>0 DEF finalize
<1>3. used \in SUBSET (ChannelId \X Nat \X Nat \X Int)
  BY MetaFields
<1>f. meta.nonce \in [Party -> Nat] /\ meta.records \in Seq(MetaRecord) /\ InOrderOf(meta.nonce, meta.records)
  BY MetaFields
<1>t. meta \in Meta
  BY DEF MetaInv
<1> HIDE DEF e, used
<1>4. more \in [Party -> Nat] /\ InOrderOf(more, list)
  BY <1>f, <1>1, OneMoreRequest
<1>5. list \in Seq(MetaRecord)
  BY <1>f, <1>1, SeqAppended
<1> HIDE DEF list, more
<1>6. meta' \in Meta /\ meta'.nonce = more /\ meta'.records = list
  BY <1>t, <1>2, <1>3, <1>4, <1>5 DEF Meta, MetaRecord
<1> QED BY <1>4, <1>6, MetaMade

\* What a request does besides being counted: a tip, or a tip channel.
MetaStep ==
  \/ UNCHANGED <<wallet, books, tipChannels>>
  \/ /\ \E k \in ChannelId : \E e : TipStep(k, e)
     /\ UNCHANGED books
  \/ /\ \E c \in Party, t \in Token, x \in Nat : Gets(wallet, wallet', t, x) /\ CreditedAs(books, books', c, t, x)
     /\ UNCHANGED tipChannels
LEMMA RequestExecuted ==
  ASSUME wallet \in Wallets, books \in Books, TipsOf, MetaInv, NEW r \in Party, NEW k \in ChannelId,
         NEW x \in Nat, NEW n \in Nat, NEW v \in Int, NEW action,
         execute_meta_tip(r, [key |-> k, amount |-> x, nonce |-> n, valid_until |-> v], action)
  PROVE  MetaInv' /\ MetaStep /\ UNCHANGED channels
<1> DEFINE q == [key |-> k, amount |-> x, nonce |-> n, valid_until |-> v]
<1>0. q.key = k /\ q.amount = x /\ q = [key |-> k, amount |-> x, nonce |-> n, valid_until |-> v]
  OBVIOUS
<1> HIDE DEF q
<1>1. /\ verify(r, q) /\ finalize(r, q) /\ channels' = channels
      /\ \/ /\ Pay(k.token, k.a, Jar, x)
            /\ books' = Credited(books, k.b, k.token, x)
            /\ UNCHANGED tipChannels
         \/ open_tips(k, x, MetaWindow) /\ UNCHANGED books
  BY <1>0 DEF execute_meta_tip
<1>2. MetaInv'
  BY <1>0, <1>1, RequestFinalized
<1>3. CASE /\ Pay(k.token, k.a, Jar, x)
           /\ books' = Credited(books, k.b, k.token, x)
           /\ UNCHANGED tipChannels
  <2>1. k.a \in Party /\ k.b \in Party /\ k.token \in Token /\ x \in Int
    BY ChannelIdFields
  <2>2. Gets(wallet, wallet', k.token, x)
    BY <1>3, <2>1, PaidIn DEF Pay
  <2>3. CreditedAs(books, books', k.b, k.token, x)
    BY <1>3, <2>1, CreditRecorded
  <2> QED BY <1>1, <1>2, <1>3, <2>1, <2>2, <2>3 DEF MetaStep
<1>4. CASE open_tips(k, x, MetaWindow) /\ UNCHANGED books
  <2>1. MetaWindow \in Int
    BY ChannelsAssumption
  <2>2. TipStep(k, NewTips(x, MetaWindow))
    BY <1>4, <2>1, TipsOpened
  <2> QED BY <1>1, <1>2, <1>4, <2>2 DEF MetaStep
<1> QED BY <1>1, <1>3, <1>4
LEMMA MetaNextStep ==
  ASSUME wallet \in Wallets, books \in Books, TipsOf, MetaInv, MetaNext
  PROVE  MetaInv' /\ MetaStep /\ UNCHANGED channels
<1>1. CASE \E r \in Party : register_meta_relayer(r) \/ remove_meta_relayer(r)
  <2>1. PICK r \in Party : register_meta_relayer(r) \/ remove_meta_relayer(r)
    BY <1>1
  <2>2. UNCHANGED <<wallet, books, channels, tipChannels>>
    BY <2>1 DEF register_meta_relayer, remove_meta_relayer
  <2>3. \E R \in SUBSET Party : meta' = [meta EXCEPT !.relayers = R]
    <3>1. meta.relayers \cup {r} \in SUBSET Party /\ meta.relayers \ {r} \in SUBSET Party
      BY MetaFields
    <3> QED BY <2>1, <3>1 DEF register_meta_relayer, remove_meta_relayer
  <2> QED BY <2>2, <2>3, RelayersChanged DEF MetaStep
<1>2. CASE \E r \in Party, k \in ChannelId, x \in Amounts, n \in Nonces, v \in Validity,
        action \in {"Tip", "OpenChannel"} :
       execute_meta_tip(r, [key |-> k, amount |-> x, nonce |-> n, valid_until |-> v], action)
  <2>1. PICK r \in Party, k \in ChannelId, x \in Amounts, n \in Nonces, v \in Validity,
        action \in {"Tip", "OpenChannel"} :
       execute_meta_tip(r, [key |-> k, amount |-> x, nonce |-> n, valid_until |-> v], action)
    BY <1>2
  <2>2. x \in Nat /\ n \in Nat /\ v \in Int
    BY LedgerAssumption, ChannelsAssumption
  <2> QED BY <2>1, <2>2, RequestExecuted
<1> QED BY <1>1, <1>2 DEF MetaNext

-----------------------------------------------------------------------------
(* The rollup *)

KnownIn(b, subs) ==
  /\ b.id \in DOMAIN subs
  /\ subs[b.id].batch = WithStatus(b, "Pending")
  /\ b.status = "Pending" => subs[b.id].credited = 0 /\ ~subs[b.id].challenged
PendingIn(bs, n) == {i \in 1 .. n : bs[i] # None /\ bs[i].status = "Pending"}
\* The parts of RollupInv, of any batches and submissions.
BatchesKnown(bs, subs) ==
  /\ bs \in [1 .. MaxBatch -> Batch \cup {None}]
  /\ subs \in Seq(Submission)
  /\ \A i \in 1 .. MaxBatch : bs[i] # None => KnownIn(bs[i], subs)
  /\ \A i, j \in 1 .. MaxBatch : bs[i] # None /\ bs[j] # None /\ bs[i].id = bs[j].id => i = j
  /\ \A k \in DOMAIN subs : SubmissionSound(subs[k])

LEMMA RollupParts ==
  RollupInv <=> /\ rollup \in Rollup
                /\ BatchesKnown(batches, submissions)
                /\ rollup.pending <= Cardinality(PendingIn(batches, rollup.counter))
BY DEF RollupInv, BatchesKnown, BatchKnown, KnownIn, PendingIn, PendingUpTo
LEMMA RollupPartsNext ==
  RollupInv' <=> /\ rollup' \in Rollup
                 /\ BatchesKnown(batches', submissions')
                 /\ rollup'.pending <= Cardinality(PendingIn(batches', rollup'.counter))
BY DEF RollupInv, BatchesKnown, BatchKnown, KnownIn, PendingIn, PendingUpTo, SubmissionSound
LEMMA PendingFinite ==
  ASSUME NEW bs, NEW n \in Int
  PROVE  IsFiniteSet(PendingIn(bs, n)) /\ Cardinality(PendingIn(bs, n)) \in Nat
<1>1. IsFiniteSet(1 .. n)
  BY FS_Interval
<1>2. PendingIn(bs, n) \in SUBSET (1 .. n)
  BY DEF PendingIn
<1>3. IsFiniteSet(PendingIn(bs, n))
  BY <1>1, <1>2, FS_Subset
<1> QED BY <1>3, FS_CardinalityType
LEMMA RollupFields ==
  ASSUME RollupInv
  PROVE  /\ rollup.counter \in 0 .. MaxBatch /\ rollup.pending \in Nat /\ rollup.counter \in Nat
         /\ rollup.finalized \in Int /\ rollup.challenged \in Int
BY RollupParts, RollupAssumption DEF Rollup
LEMMA BatchFields ==
  ASSUME NEW b \in Batch
  PROVE  /\ b.id \in Nat /\ b.creator \in Party /\ b.token \in Token /\ b.amount \in Int
         /\ b.submitted_at \in Int /\ b # None
BY RollupAssumption DEF Batch
LEMMA BatchMarked ==
  ASSUME NEW b \in Batch, NEW s \in {"Pending", "Finalized", "Challenged"}
  PROVE  /\ WithStatus(b, s) \in Batch /\ WithStatus(b, s).status = s /\ WithStatus(b, s).id = b.id
         /\ WithStatus(WithStatus(b, s), "Pending") = WithStatus(b, "Pending")
         /\ WithStatus(b, s).creator = b.creator /\ WithStatus(b, s).token = b.token
         /\ WithStatus(b, s).amount = b.amount /\ WithStatus(b, s).submitted_at = b.submitted_at
BY DEF Batch, WithStatus
LEMMA BatchPendingSame ==
  ASSUME NEW b \in Batch, b.status = "Pending"
  PROVE  WithStatus(b, "Pending") = b
BY DEF Batch, WithStatus
LEMMA CreditMarked ==
  ASSUME NEW s \in Submission, NEW t \in Int
  PROVE  /\ CreditedAt(s, t) \in Submission /\ CreditedAt(s, t).batch = s.batch
         /\ CreditedAt(s, t).credited = s.credited + 1 /\ CreditedAt(s, t).at = t
         /\ CreditedAt(s, t).challenged = s.challenged
<1> DEFINE n == s.credited + 1
<1>1. n \in Nat
  BY DEF Submission
<1>2. CreditedAt(s, t) = [s EXCEPT !.credited = n, !.at = t]
  BY DEF CreditedAt
<1> HIDE DEF n
<1>3. /\ [s EXCEPT !.credited = n, !.at = t] \in Submission
      /\ [s EXCEPT !.credited = n, !.at = t].batch = s.batch
      /\ [s EXCEPT !.credited = n, !.at = t].credited = n
      /\ [s EXCEPT !.credited = n, !.at = t].at = t
      /\ [s EXCEPT !.credited = n, !.at = t].challenged = s.challenged
  BY <1>1 DEF Submission
<1> QED BY <1>2, <1>3 DEF n
LEMMA ContradictionMarked ==
  ASSUME NEW s \in Submission
  PROVE  /\ Contradicted(s) \in Submission /\ Contradicted(s).batch = s.batch
         /\ Contradicted(s).credited = s.credited
BY DEF Submission, Contradicted
LEMMA SubmissionFields ==
  ASSUME NEW s \in Submission
  PROVE  s.batch \in Batch /\ s.credited \in Nat /\ s.at \in Int /\ s.challenged \in BOOLEAN
BY DEF Submission

\* A batch that was pending is closed, and its submission says how.
LEMMA BatchClosed ==
  ASSUME NEW bs, NEW subs, BatchesKnown(bs, subs), NEW i \in 1 .. MaxBatch, NEW b \in Batch, b = bs[i],
         NEW status \in {"Finalized", "Challenged"},
         NEW s \in Submission, s.batch = subs[b.id].batch, SubmissionSound(s)
  PROVE  BatchesKnown([bs EXCEPT ![i] = WithStatus(b, status)], [subs EXCEPT ![b.id] = s])
<1> DEFINE e == WithStatus(b, status)
           cs == [bs EXCEPT ![i] = e]
           next == [subs EXCEPT ![b.id] = s]
<1>1. e \in Batch /\ e.status = status /\ e.id = b.id /\ WithStatus(e, "Pending") = WithStatus(b, "Pending") /\ e # None
  <2>1. status \in {"Pending", "Finalized", "Challenged"}
    OBVIOUS
  <2>2. e \in Batch /\ e.status = status /\ e.id = b.id /\ WithStatus(e, "Pending") = WithStatus(b, "Pending")
    BY <2>1, BatchMarked
  <2> HIDE DEF e
  <2> QED BY <2>2, BatchFields
<1>2. bs \in [1 .. MaxBatch -> Batch \cup {None}] /\ subs \in Seq(Submission) /\ b # None /\ KnownIn(b, subs)
  BY BatchFields DEF BatchesKnown
<1>3. b.id \in DOMAIN subs /\ subs[b.id].batch = WithStatus(b, "Pending")
  BY <1>2 DEF KnownIn
<1> HIDE DEF e
<1>4. cs \in [1 .. MaxBatch -> Batch \cup {None}] /\ \A j \in 1 .. MaxBatch : cs[j] = IF j = i THEN e ELSE bs[j]
  BY <1>1, <1>2
<1>5. /\ next \in Seq(Submission) /\ DOMAIN next = DOMAIN subs
      /\ \A k \in DOMAIN subs : next[k] = IF k = b.id THEN s ELSE subs[k]
  BY <1>2, <1>3, SeqUpdated
<1> HIDE DEF cs, next
<1>6. ASSUME NEW j \in 1 .. MaxBatch, cs[j] # None
      PROVE  KnownIn(cs[j], next)
  <2>1. CASE j = i
    <3>1. cs[j] = e /\ next[b.id] = s
      BY <1>3, <1>4, <1>5, <2>1
    <3> QED BY <1>1, <1>3, <1>5, <3>1 DEF KnownIn
  <2>2. CASE j # i
    <3>1. cs[j] = bs[j] /\ bs[j] # None /\ KnownIn(bs[j], subs)
      BY <1>4, <1>6, <2>2 DEF BatchesKnown
    <3>2. bs[j].id # b.id
      BY <1>2, <2>2, <3>1 DEF BatchesKnown
    <3>3. bs[j].id \in DOMAIN subs /\ next[bs[j].id] = subs[bs[j].id]
      BY <1>5, <3>1, <3>2 DEF KnownIn
    <3> QED BY <1>5, <3>1, <3>3 DEF KnownIn
  <2> QED BY <2>1, <2>2
<1>7. \A j \in 1 .. MaxBatch : cs[j] # None => bs[j] # None /\ bs[j].id = cs[j].id
  BY <1>1, <1>2, <1>4
<1>8. \A j, k \in 1 .. MaxBatch : cs[j] # None /\ cs[k] # None /\ cs[j].id = cs[k].id => j = k
  BY <1>7 DEF BatchesKnown
<1>9. \A k \in DOMAIN next : SubmissionSound(next[k])
  BY <1>5 DEF BatchesKnown
<1> QED BY <1>4, <1>5, <1>6, <1>8, <1>9 DEF BatchesKnown, cs, next, e

\* One fewer is pending, and the counter follows.
LEMMA PendingFewer ==
  ASSUME NEW bs \in [1 .. MaxBatch -> Batch \cup {None}], NEW i \in 1 .. MaxBatch, NEW e,
         NEW n \in 0 .. MaxBatch, NEW m \in Nat, m <= Cardinality(PendingIn(bs, n))
  PROVE  Larger(m - 1, 0) \in Nat /\ Larger(m - 1, 0) <= Cardinality(PendingIn([bs EXCEPT ![i] = e], n))
<1> DEFINE S == PendingIn(bs, n)
           T == PendingIn([bs EXCEPT ![i] = e], n)
<1>0. n \in Int /\ \A j \in 1 .. n : j \in 1 .. MaxBatch
  BY RollupAssumption
<1>1. S \ {i} \in SUBSET T
  BY <1>0 DEF PendingIn
<1>2. IsFiniteSet(S) /\ IsFiniteSet(T) /\ Cardinality(S) \in Nat /\ Cardinality(T) \in Nat
  BY <1>0, PendingFinite
<1> HIDE DEF S, T
<1>3. IsFiniteSet(S \ {i}) /\ Cardinality(S \ {i}) >= Cardinality(S) - 1 /\ Cardinality(S \ {i}) \in Nat
  <2>1. IsFiniteSet(S \ {i}) /\ Cardinality(S \ {i}) = IF i \in S THEN Cardinality(S) - 1 ELSE Cardinality(S)
    BY <1>2, FS_RemoveElement
  <2>2. Cardinality(S \ {i}) \in Nat
    BY <2>1, FS_CardinalityType
  <2> QED BY <1>2, <2>1, <2>2
<1>4. Cardinality(S \ {i}) <= Cardinality(T)
  BY <1>1, <1>2, FS_Subset
<1>5. m <= Cardinality(S)
  BY DEF S
<1>6. Larger(m - 1, 0) \in Nat /\ Larger(m - 1, 0) <= Cardinality(T)
  BY <1>2, <1>3, <1>4, <1>5 DEF Larger
<1> QED BY <1>6 DEF T

\* What finalized batches credited, and how a submission changes it.
Credits(subs, c, t) == SumFunction([k \in DOMAIN subs |-> CreditOf(subs[k], c, t)])
CreditsMatch(total, subs) == \A c \in Party, t \in Token : total[c][t] = Credits(subs, c, t)

LEMMA Product ==
  ASSUME NEW a \in Int, NEW b \in Int
  PROVE  a * b \in Int
OBVIOUS
LEMMA CreditType ==
  ASSUME NEW s \in Submission, NEW c, NEW t
  PROVE  CreditOf(s, c, t) \in Int
<1>1. s.batch.amount \in Int /\ s.credited \in Int
  BY SubmissionFields, BatchFields
<1>2. s.batch.amount * s.credited \in Int
  BY <1>1, Product
<1> QED BY <1>2 DEF CreditOf
LEMMA CreditsFunction ==
  ASSUME NEW subs \in Seq(Submission), NEW c, NEW t
  PROVE  [k \in DOMAIN subs |-> CreditOf(subs[k], c, t)] \in [DOMAIN subs -> Int]
<1>1. \A k \in DOMAIN subs : subs[k] \in Submission
  OBVIOUS
<1> QED BY <1>1, CreditType
LEMMA CreditsType ==
  ASSUME NEW subs \in Seq(Submission), NEW c, NEW t
  PROVE  Credits(subs, c, t) \in Int
BY CreditsFunction, FiniteList, SumType DEF Credits
Resubmitted(subs, next, j, s) ==
  subs \in Seq(Submission) /\ j \in DOMAIN subs /\ s \in Submission /\ next = [subs EXCEPT ![j] = s]
LEMMA CreditsChanged ==
  ASSUME NEW subs, NEW next, NEW j, NEW s, Resubmitted(subs, next, j, s), NEW c, NEW t
  PROVE  Credits(next, c, t) = Credits(subs, c, t) + CreditOf(s, c, t) - CreditOf(subs[j], c, t)
<1> DEFINE f == [k \in DOMAIN subs |-> CreditOf(subs[k], c, t)]
           g == [k \in DOMAIN next |-> CreditOf(next[k], c, t)]
           D == DOMAIN subs
<1>0. subs \in Seq(Submission) /\ j \in DOMAIN subs /\ s \in Submission
  BY DEF Resubmitted
<1>1. /\ next \in Seq(Submission) /\ DOMAIN next = D
      /\ \A k \in D : next[k] = IF k = j THEN s ELSE subs[k]
  BY <1>0, SeqUpdated DEF Resubmitted
<1>2. f \in [D -> Int] /\ g \in [D -> Int]
  BY <1>0, <1>1, CreditsFunction
<1>3. (\A k \in D \ {j} : g[k] = f[k]) /\ g[j] = CreditOf(s, c, t) /\ f[j] = CreditOf(subs[j], c, t)
  BY <1>0, <1>1
<1>4. IsFiniteSet(D) /\ j \in D
  BY <1>0, FiniteList
<1>5. Credits(next, c, t) = SumFunction(g) /\ Credits(subs, c, t) = SumFunction(f)
  BY DEF Credits
<1> HIDE DEF f, g, D
<1>6. SumFunction(g) = SumFunction(f) + g[j] - f[j]
  BY <1>2, <1>3, <1>4, SumUpdate
<1> QED BY <1>3, <1>5, <1>6
LEMMA CreditsAppended ==
  ASSUME NEW subs \in Seq(Submission), NEW s \in Submission, NEW c, NEW t
  PROVE  Credits(Append(subs, s), c, t) = Credits(subs, c, t) + CreditOf(s, c, t)
<1> DEFINE next == Append(subs, s)
           n == Len(subs)
           f == [k \in DOMAIN subs |-> CreditOf(subs[k], c, t)]
           g == [k \in DOMAIN next |-> CreditOf(next[k], c, t)]
<1>1. /\ next \in Seq(Submission) /\ n \in Nat /\ DOMAIN subs = 1 .. n /\ DOMAIN next = 1 .. n + 1
      /\ (\A k \in 1 .. n : next[k] = subs[k]) /\ next[n + 1] = s
  BY SeqAppended
<1> HIDE DEF next, n
<1>2. f \in [1 .. n -> Int] /\ g \in [1 .. n + 1 -> Int]
  BY <1>1, CreditsFunction
<1>3. (\A k \in 1 .. n : g[k] = f[k]) /\ g[n + 1] = CreditOf(s, c, t)
  <2>1. n + 1 \in 1 .. n + 1 /\ \A k \in 1 .. n : k \in 1 .. n + 1
    BY <1>1
  <2> QED BY <1>1, <2>1
<1>5. Credits(next, c, t) = SumFunction(g) /\ Credits(subs, c, t) = SumFunction(f)
  BY DEF Credits
<1> HIDE DEF f, g
<1>6. SumFunction(g) = SumFunction(f) + g[n + 1]
  BY <1>1, <1>2, <1>3, SumAppend
<1> QED BY <1>3, <1>5, <1>6 DEF next

RollupSteps ==
  /\ RollupInv' /\ books' \in Books
  /\ CreditsMatch(books.total, submissions) => CreditsMatch(books'.total, submissions')

LEMMA RollupStarted ==
  ASSUME RollupInv, books \in Books, NEW s \in Party, init_rollup(s)
  PROVE  RollupSteps
<1>1. BatchesKnown(batches', submissions') /\ books' = books /\ submissions' = submissions
  BY RollupParts DEF init_rollup
<1>2. /\ rollup' = [enabled |-> TRUE, sequencer |-> s, counter |-> 0, pending |-> 0,
                    finalized |-> 0, challenged |-> 0]
  BY DEF init_rollup
<1>3. rollup' \in Rollup /\ rollup'.pending = 0 /\ rollup'.counter = 0
  BY <1>2, RollupAssumption DEF Rollup
<1>4. Cardinality(PendingIn(batches', rollup'.counter)) \in Nat
  BY <1>3, PendingFinite
<1>5. rollup'.pending <= Cardinality(PendingIn(batches', rollup'.counter))
  BY <1>3, <1>4
<1> QED BY <1>1, <1>3, <1>5, RollupPartsNext DEF RollupSteps

LEMMA NewBatchFields ==
  ASSUME NEW root \in Roots, NEW c \in Party, NEW t \in Token, NEW x \in Int, now \in Int, Len(submissions) \in Nat
  PROVE  /\ NewBatch(root, c, t, x) \in Batch /\ NewBatch(root, c, t, x).id = Len(submissions) + 1
         /\ NewBatch(root, c, t, x).status = "Pending"
BY DEF NewBatch, Batch
LEMMA FreshFields ==
  ASSUME NEW b \in Batch
  PROVE  /\ Fresh(b) \in Submission /\ Fresh(b).batch = b /\ Fresh(b).credited = 0 /\ Fresh(b).challenged = FALSE
BY DEF Fresh, Submission
LEMMA BatchAdded ==
  ASSUME NEW bs, NEW subs, BatchesKnown(bs, subs), NEW i \in 1 .. MaxBatch, NEW b \in Batch,
         b.id = Len(subs) + 1, b.status = "Pending"
  PROVE  BatchesKnown([bs EXCEPT ![i] = b], Append(subs, Fresh(b)))
<1> DEFINE cs == [bs EXCEPT ![i] = b]
           s == Fresh(b)
           n == Len(subs)
           next == Append(subs, s)
<1>1. bs \in [1 .. MaxBatch -> Batch \cup {None}] /\ subs \in Seq(Submission)
  BY DEF BatchesKnown
<1>2. s \in Submission /\ s.batch = b /\ s.credited = 0 /\ ~s.challenged
  BY FreshFields
<1> HIDE DEF s
<1>3. /\ next \in Seq(Submission) /\ n \in Nat /\ DOMAIN subs = 1 .. n /\ DOMAIN next = 1 .. n + 1
      /\ (\A k \in 1 .. n : next[k] = subs[k]) /\ next[n + 1] = s /\ b.id = n + 1
  BY <1>1, <1>2, SeqAppended
<1>4. cs \in [1 .. MaxBatch -> Batch \cup {None}] /\ \A j \in 1 .. MaxBatch : cs[j] = IF j = i THEN b ELSE bs[j]
  BY <1>1
<1> HIDE DEF cs, next, n
<1>5. ASSUME NEW j \in 1 .. MaxBatch, cs[j] # None, j # i
      PROVE  cs[j] = bs[j] /\ KnownIn(bs[j], subs) /\ bs[j].id \in 1 .. n /\ bs[j].id # n + 1
  <2>1. cs[j] = bs[j] /\ KnownIn(bs[j], subs)
    BY <1>4, <1>5 DEF BatchesKnown
  <2>2. bs[j].id \in 1 .. n
    BY <1>3, <2>1 DEF KnownIn
  <2> QED BY <1>3, <2>1, <2>2
<1>6. ASSUME NEW j \in 1 .. MaxBatch, cs[j] # None
      PROVE  KnownIn(cs[j], next)
  <2>1. CASE j = i
    <3>1. cs[j] = b /\ WithStatus(b, "Pending") = b /\ n + 1 \in DOMAIN next
      BY <1>3, <1>4, <2>1, BatchPendingSame
    <3> QED BY <1>2, <1>3, <3>1 DEF KnownIn
  <2>2. CASE j # i
    <3>1. cs[j] = bs[j] /\ KnownIn(bs[j], subs) /\ bs[j].id \in 1 .. n
      BY <1>5, <1>6, <2>2
    <3>2. bs[j].id \in DOMAIN next /\ next[bs[j].id] = subs[bs[j].id]
      BY <1>3, <3>1
    <3> QED BY <3>1, <3>2 DEF KnownIn
  <2> QED BY <2>1, <2>2
<1>7. cs[i] = b
  BY <1>4
<1>8. \A j, k \in 1 .. MaxBatch : cs[j] # None /\ cs[k] # None /\ cs[j].id = cs[k].id => j = k
  <2> SUFFICES ASSUME NEW j \in 1 .. MaxBatch, NEW k \in 1 .. MaxBatch, cs[j] # None, cs[k] # None,
                      cs[j].id = cs[k].id
               PROVE  j = k
    OBVIOUS
  <2>1. CASE j = i \/ k = i
    BY <1>3, <1>5, <1>7, <2>1
  <2>2. CASE j # i /\ k # i
    <3>1. cs[j] = bs[j] /\ cs[k] = bs[k]
      BY <1>5, <2>2
    <3> QED BY <3>1 DEF BatchesKnown
  <2> QED BY <2>1, <2>2
<1>9. \A k \in DOMAIN next : SubmissionSound(next[k])
  <2>1. SubmissionSound(s)
    BY <1>2 DEF SubmissionSound
  <2>2. \A k \in 1 .. n : SubmissionSound(subs[k])
    BY <1>3 DEF BatchesKnown
  <2> QED BY <1>3, <2>1, <2>2
<1> QED BY <1>3, <1>4, <1>6, <1>8, <1>9 DEF BatchesKnown, cs, next, s
LEMMA PendingMore ==
  ASSUME NEW bs \in [1 .. MaxBatch -> Batch \cup {None}], NEW i \in 1 .. MaxBatch,
         NEW b \in Batch, b.status = "Pending",
         NEW m \in Nat, m <= Cardinality(PendingIn(bs, i - 1))
  PROVE  m + 1 <= Cardinality(PendingIn([bs EXCEPT ![i] = b], i))
<1> DEFINE S == PendingIn(bs, i - 1)
           T == PendingIn([bs EXCEPT ![i] = b], i)
<1>0. i - 1 \in Int /\ (\A j \in 1 .. i : j \in 1 .. MaxBatch /\ (j \in 1 .. i - 1 \/ j = i)) /\ b # None
  BY RollupAssumption, BatchFields
<1>1. S \cup {i} \in SUBSET T /\ i \notin S
  BY <1>0, RollupAssumption DEF PendingIn
<1>2. IsFiniteSet(S) /\ IsFiniteSet(T) /\ Cardinality(S) \in Nat /\ Cardinality(T) \in Nat
  BY <1>0, PendingFinite
<1>5. m <= Cardinality(S)
  OBVIOUS
<1> HIDE DEF S, T
<1>3. Cardinality(S \cup {i}) = Cardinality(S) + 1
  BY <1>1, <1>2, FS_AddElement
<1>4. Cardinality(S \cup {i}) <= Cardinality(T)
  BY <1>1, <1>2, FS_Subset
<1>6. m + 1 <= Cardinality(T)
  BY <1>2, <1>3, <1>4, <1>5
<1> QED BY <1>6 DEF T
LEMMA RollupSubmitted ==
  ASSUME RollupInv, books \in Books, now \in Int, NEW s \in Party, NEW root \in Roots, NEW c \in Party,
         NEW t \in Token, NEW x \in Int, submit_rollup_batch(s, root, c, t, x)
  PROVE  RollupSteps
<1> DEFINE i == rollup.counter + 1
           m == rollup.pending + 1
           b == NewBatch(root, c, t, x)
<1>1. /\ batches' = [batches EXCEPT ![i] = b] /\ rollup.counter < MaxBatch /\ books' = books
      /\ submissions' = Append(submissions, Fresh(b))
      /\ rollup' = [rollup EXCEPT !.counter = i, !.pending = m]
  BY DEF submit_rollup_batch, submit_batch
<1>2. i \in 1 .. MaxBatch /\ rollup.pending \in Nat /\ m \in Nat /\ i \in 0 .. MaxBatch /\ i - 1 = rollup.counter
  <2>1. rollup.counter \in Nat /\ rollup.pending \in Nat /\ MaxBatch \in Nat /\ rollup.counter < MaxBatch
    BY <1>1, RollupFields, RollupAssumption
  <2> DEFINE j == rollup.counter
             o == rollup.pending
  <2>2. j \in Nat /\ o \in Nat /\ j < MaxBatch /\ i = j + 1 /\ m = o + 1
    BY <2>1
  <2> HIDE DEF j, o, i, m
  <2>3. i \in 1 .. MaxBatch /\ o \in Nat /\ m \in Nat /\ i \in 0 .. MaxBatch /\ i - 1 = j
    BY <2>1, <2>2
  <2> QED BY <2>3 DEF j, o
<1>k. /\ rollup \in Rollup /\ BatchesKnown(batches, submissions)
      /\ rollup.pending <= Cardinality(PendingIn(batches, rollup.counter))
  BY RollupParts
<1>3. batches \in [1 .. MaxBatch -> Batch \cup {None}] /\ submissions \in Seq(Submission)
  BY <1>k DEF BatchesKnown
<1>4. b \in Batch /\ b.id = Len(submissions) + 1 /\ b.status = "Pending"
  <2>1. Len(submissions) \in Nat
    BY <1>3
  <2> QED BY <2>1, NewBatchFields
<1> HIDE DEF i, b, m
<1>5. BatchesKnown(batches', submissions')
  BY <1>1, <1>2, <1>4, <1>k, BatchAdded
<1>6. rollup' \in Rollup /\ rollup'.counter = i /\ rollup'.pending = m
  BY <1>1, <1>2, <1>k DEF Rollup
<1>7. m <= Cardinality(PendingIn(batches', i))
  <2>1. rollup.pending <= Cardinality(PendingIn(batches, i - 1))
    BY <1>2, <1>k
  <2>2. rollup.pending + 1 <= Cardinality(PendingIn([batches EXCEPT ![i] = b], i))
    BY <1>2, <1>3, <1>4, <2>1, PendingMore
  <2> QED BY <1>1, <2>2 DEF m
<1>8. RollupInv'
  BY <1>5, <1>6, <1>7, RollupPartsNext
<1>9. ASSUME NEW d \in Party, NEW u \in Token
      PROVE  Credits(submissions', d, u) = Credits(submissions, d, u)
  <2>1. Fresh(b) \in Submission /\ Fresh(b).credited = 0 /\ Fresh(b).batch.amount \in Int
    BY <1>4, FreshFields, BatchFields
  <2>2. CreditOf(Fresh(b), d, u) = 0
    BY <2>1 DEF CreditOf
  <2>3. Credits(submissions', d, u) = Credits(submissions, d, u) + CreditOf(Fresh(b), d, u)
    BY <1>1, <1>3, <2>1, CreditsAppended
  <2> QED BY <1>3, <2>2, <2>3, CreditsType
<1> QED BY <1>1, <1>8, <1>9 DEF RollupSteps, CreditsMatch

LEMMA CountedDown ==
  ASSUME NEW r \in Rollup, NEW n \in Int, Larger(r.pending - 1, 0) \in Nat
  PROVE  /\ [CountDownPending(r) EXCEPT !.finalized = n] \in Rollup
         /\ [CountDownPending(r) EXCEPT !.challenged = n] \in Rollup
         /\ [CountDownPending(r) EXCEPT !.finalized = n].pending = Larger(r.pending - 1, 0)
         /\ [CountDownPending(r) EXCEPT !.challenged = n].pending = Larger(r.pending - 1, 0)
         /\ [CountDownPending(r) EXCEPT !.finalized = n].counter = r.counter
         /\ [CountDownPending(r) EXCEPT !.challenged = n].counter = r.counter
         /\ CountDownPending(r).finalized = r.finalized /\ CountDownPending(r).challenged = r.challenged
<1> DEFINE m == Larger(r.pending - 1, 0)
<1>1. CountDownPending(r) = [r EXCEPT !.pending = m]
  BY DEF CountDownPending
<1>2. m \in Nat
  OBVIOUS
<1> HIDE DEF m
<1> DEFINE q == [r EXCEPT !.pending = m]
<1>3. /\ q \in Rollup /\ q.pending = m /\ q.counter = r.counter /\ q.finalized = r.finalized
      /\ q.challenged = r.challenged
  BY <1>2 DEF Rollup
<1> HIDE DEF q
<1>4. /\ [q EXCEPT !.finalized = n] \in Rollup /\ [q EXCEPT !.challenged = n] \in Rollup
      /\ [q EXCEPT !.finalized = n].pending = m /\ [q EXCEPT !.challenged = n].pending = m
      /\ [q EXCEPT !.finalized = n].counter = q.counter /\ [q EXCEPT !.challenged = n].counter = q.counter
  BY <1>3 DEF Rollup
<1>5. CountDownPending(r) = q
  BY <1>1 DEF q
<1>6. /\ [q EXCEPT !.finalized = n] \in Rollup /\ [q EXCEPT !.challenged = n] \in Rollup
      /\ [q EXCEPT !.finalized = n].pending = m /\ [q EXCEPT !.challenged = n].pending = m
      /\ [q EXCEPT !.finalized = n].counter = r.counter /\ [q EXCEPT !.challenged = n].counter = r.counter
      /\ q.finalized = r.finalized /\ q.challenged = r.challenged
  BY <1>3, <1>4
<1> QED BY <1>5, <1>6 DEF m

\* What a call that closes the batch b of number i with a status does.
Closes(i, b, status, s) ==
  /\ batches' = [batches EXCEPT ![i] = WithStatus(b, status)]
  /\ submissions' = [submissions EXCEPT ![b.id] = s]
  /\ rollup' \in Rollup /\ rollup'.counter = rollup.counter
  /\ rollup'.pending = Larger(rollup.pending - 1, 0)
LEMMA RollupClosed ==
  ASSUME RollupInv, NEW i \in 1 .. MaxBatch, NEW b \in Batch, b = batches[i],
         NEW status \in {"Finalized", "Challenged"}, NEW s \in Submission,
         s.batch = submissions[b.id].batch, SubmissionSound(s), Closes(i, b, status, s)
  PROVE  RollupInv'
<1>1. /\ rollup \in Rollup /\ BatchesKnown(batches, submissions)
      /\ rollup.pending <= Cardinality(PendingIn(batches, rollup.counter))
  BY RollupParts
<1>2. BatchesKnown(batches', submissions')
  BY <1>1, BatchClosed DEF Closes
<1>3. rollup.counter \in 0 .. MaxBatch /\ rollup.pending \in Nat /\ batches \in [1 .. MaxBatch -> Batch \cup {None}]
  BY <1>1, RollupFields DEF BatchesKnown
<1>4. Larger(rollup.pending - 1, 0) <= Cardinality(PendingIn([batches EXCEPT ![i] = WithStatus(b, status)], rollup.counter))
  BY <1>1, <1>3, PendingFewer
<1>5. rollup'.pending <= Cardinality(PendingIn(batches', rollup'.counter))
  BY <1>4 DEF Closes
<1> QED BY <1>2, <1>5, RollupPartsNext DEF Closes
LEMMA PendingBatch ==
  ASSUME RollupInv, NEW i \in 1 .. MaxBatch, batches[i] # None, batches[i].status = "Pending"
  PROVE  /\ batches[i] \in Batch /\ batches[i].id \in DOMAIN submissions
         /\ submissions \in Seq(Submission) /\ submissions[batches[i].id] \in Submission
         /\ submissions[batches[i].id].batch = batches[i]
         /\ submissions[batches[i].id].credited = 0 /\ ~submissions[batches[i].id].challenged
<1> DEFINE b == batches[i]
<1>1. b \in Batch /\ KnownIn(b, submissions) /\ submissions \in Seq(Submission)
  BY RollupParts DEF BatchesKnown
<1>2. b.id \in DOMAIN submissions /\ submissions[b.id].batch = WithStatus(b, "Pending")
      /\ submissions[b.id].credited = 0 /\ ~submissions[b.id].challenged
  BY <1>1 DEF KnownIn
<1>3. WithStatus(b, "Pending") = b
  BY <1>1, BatchPendingSame
<1>4. submissions[b.id] \in Submission
  BY <1>1, <1>2
<1> QED BY <1>1, <1>2, <1>3, <1>4
LEMMA CountsDown ==
  ASSUME RollupInv, NEW n \in Int
  PROVE  /\ [CountDownPending(rollup) EXCEPT !.finalized = n] \in Rollup
         /\ [CountDownPending(rollup) EXCEPT !.challenged = n] \in Rollup
         /\ [CountDownPending(rollup) EXCEPT !.finalized = n].pending = Larger(rollup.pending - 1, 0)
         /\ [CountDownPending(rollup) EXCEPT !.challenged = n].pending = Larger(rollup.pending - 1, 0)
         /\ [CountDownPending(rollup) EXCEPT !.finalized = n].counter = rollup.counter
         /\ [CountDownPending(rollup) EXCEPT !.challenged = n].counter = rollup.counter
         /\ CountDownPending(rollup).finalized = rollup.finalized
         /\ CountDownPending(rollup).challenged = rollup.challenged
<1>1. rollup \in Rollup /\ rollup.pending \in Nat
  BY RollupParts, RollupFields
<1>2. Larger(rollup.pending - 1, 0) \in Nat
  BY <1>1 DEF Larger
<1> QED BY <1>1, <1>2, CountedDown
LEMMA RollupFinalized ==
  ASSUME RollupInv, books \in Books, now \in Int, NEW i \in 1 .. MaxBatch, finalize_rollup_batch(i)
  PROVE  RollupSteps
<1> DEFINE b == batches[i]
           j == b.id
           old == submissions[j]
           s == CreditedAt(old, now)
           n == CountDownPending(rollup).finalized + 1
<1>1. /\ b # None /\ b.status = "Pending" /\ now >= b.submitted_at + ChallengePeriod
      /\ books' = Credited(books, b.creator, b.token, b.amount)
      /\ batches' = [batches EXCEPT ![i] = WithStatus(b, "Finalized")]
      /\ rollup' = [CountDownPending(rollup) EXCEPT !.finalized = n]
      /\ submissions' = [submissions EXCEPT ![j] = s]
  BY DEF finalize_rollup_batch, finalize_batch
<1>2. /\ b \in Batch /\ j \in DOMAIN submissions /\ submissions \in Seq(Submission) /\ old \in Submission
      /\ old.batch = b /\ old.credited = 0 /\ ~old.challenged
  BY <1>1, PendingBatch
<1>3. b.creator \in Party /\ b.token \in Token /\ b.amount \in Int /\ b.submitted_at \in Int
  BY <1>2, BatchFields
<1>n. n \in Int
  <2>1. CountDownPending(rollup).finalized = rollup.finalized
    <3>1. 0 \in Int
      OBVIOUS
    <3> QED BY <3>1, CountsDown
  <2> QED BY <2>1, RollupFields
<1>4. /\ s \in Submission /\ s.batch = b /\ s.credited = 1 /\ s.at = now /\ ~s.challenged
  <2> HIDE DEF old
  <2>1. /\ s \in Submission /\ s.batch = old.batch /\ s.credited = old.credited + 1 /\ s.at = now
        /\ s.challenged = old.challenged
    BY <1>2, CreditMarked
  <2>2. old.credited + 1 = 1
    BY <1>2
  <2> QED BY <1>2, <2>1, <2>2, Zenon
<1> HIDE DEF s, old, n
<1>5. SubmissionSound(s)
  BY <1>1, <1>3, <1>4 DEF SubmissionSound
<1>6. Closes(i, b, "Finalized", s)
  BY <1>1, <1>n, CountsDown DEF Closes
<1>7. RollupInv'
  <2>1. b = batches[i] /\ s.batch = submissions[b.id].batch
    BY <1>2, <1>4 DEF old
  <2> HIDE DEF b
  <2> QED BY <1>2, <1>4, <1>5, <1>6, <2>1, RollupClosed
<1>8. CreditedAs(books, books', b.creator, b.token, b.amount)
  BY <1>1, <1>3, CreditRecorded
<1>9. ASSUME CreditsMatch(books.total, submissions), NEW d \in Party, NEW u \in Token
      PROVE  books'.total[d][u] = Credits(submissions', d, u)
  <2> DEFINE x == IF d = b.creator /\ u = b.token THEN b.amount ELSE 0
  <2>1. books'.total[d][u] = books.total[d][u] + x
    BY <1>8 DEF CreditedAs, RaisedAt
  <2>2. CreditOf(s, d, u) = x /\ CreditOf(old, d, u) = 0
    <3>1. b.amount * 1 = b.amount /\ b.amount * 0 = 0
      BY <1>3
    <3> QED BY <1>2, <1>4, <3>1 DEF CreditOf
  <2>3. Credits(submissions', d, u) = Credits(submissions, d, u) + CreditOf(s, d, u) - CreditOf(old, d, u)
    <3> HIDE DEF j
    <3>1. Resubmitted(submissions, submissions', j, s)
      BY <1>1, <1>2, <1>4 DEF Resubmitted
    <3>2. Credits(submissions', d, u) = Credits(submissions, d, u) + CreditOf(s, d, u) - CreditOf(submissions[j], d, u)
      BY <3>1, CreditsChanged
    <3> QED BY <3>2 DEF old
  <2>4. books.total[d][u] = Credits(submissions, d, u) /\ Credits(submissions, d, u) \in Int /\ x \in Int
    BY <1>2, <1>3, <1>9, CreditsType DEF CreditsMatch
  <2> HIDE DEF x
  <2> QED BY <2>1, <2>2, <2>3, <2>4
<1> QED BY <1>7, <1>8, <1>9 DEF RollupSteps, CreditsMatch, CreditedAs
LEMMA RollupChallenged ==
  ASSUME RollupInv, books \in Books, NEW i \in 1 .. MaxBatch, NEW root, submit_fraud_proof(i, root)
  PROVE  RollupSteps
<1> DEFINE b == batches[i]
           j == b.id
           old == submissions[j]
           s == Contradicted(old)
           n == CountDownPending(rollup).challenged + 1
<1>1. /\ b # None /\ b.status = "Pending" /\ books' = books
      /\ batches' = [batches EXCEPT ![i] = WithStatus(b, "Challenged")]
      /\ rollup' = [CountDownPending(rollup) EXCEPT !.challenged = n]
      /\ submissions' = [submissions EXCEPT ![j] = s]
  BY DEF submit_fraud_proof
<1>2. /\ b \in Batch /\ j \in DOMAIN submissions /\ submissions \in Seq(Submission) /\ old \in Submission
      /\ old.batch = b /\ old.credited = 0 /\ ~old.challenged
  BY <1>1, PendingBatch
<1>n. n \in Int
  <2>1. CountDownPending(rollup).challenged = rollup.challenged
    <3>1. 0 \in Int
      OBVIOUS
    <3> QED BY <3>1, CountsDown
  <2> QED BY <2>1, RollupFields
<1>4. /\ s \in Submission /\ s.batch = b /\ s.credited = 0
  <2> HIDE DEF old
  <2> QED BY <1>2, ContradictionMarked
<1> HIDE DEF s, old, n
<1>5. SubmissionSound(s)
  BY <1>4 DEF SubmissionSound
<1>6. Closes(i, b, "Challenged", s)
  BY <1>1, <1>n, CountsDown DEF Closes
<1>7. RollupInv'
  <2>1. b = batches[i] /\ s.batch = submissions[b.id].batch
    BY <1>2, <1>4 DEF old
  <2> HIDE DEF b
  <2> QED BY <1>2, <1>4, <1>5, <1>6, <2>1, RollupClosed
<1>9. ASSUME NEW d \in Party, NEW u \in Token
      PROVE  Credits(submissions', d, u) = Credits(submissions, d, u)
  <2>2. CreditOf(s, d, u) = CreditOf(old, d, u)
    BY <1>2, <1>4 DEF CreditOf
  <2>3. Credits(submissions', d, u) = Credits(submissions, d, u) + CreditOf(s, d, u) - CreditOf(old, d, u)
    <3> HIDE DEF j
    <3>1. Resubmitted(submissions, submissions', j, s)
      BY <1>1, <1>2, <1>4 DEF Resubmitted
    <3>2. Credits(submissions', d, u) = Credits(submissions, d, u) + CreditOf(s, d, u) - CreditOf(submissions[j], d, u)
      BY <3>1, CreditsChanged
    <3> QED BY <3>2 DEF old
  <2>4. CreditOf(s, d, u) \in Int /\ Credits(submissions, d, u) \in Int
    BY <1>2, <1>4, CreditsType, CreditType
  <2> QED BY <2>2, <2>3, <2>4
<1> QED BY <1>1, <1>7, <1>9 DEF RollupSteps, CreditsMatch
LEMMA RollupStep ==
  ASSUME RollupInv, books \in Books, now \in Int, RollupNext
  PROVE  RollupSteps
<1>1. CASE \E s \in Party : init_rollup(s)
  BY <1>1, RollupStarted
<1>2. CASE \E s, c \in Party, root \in Roots, t \in Token, x \in BatchAmounts : submit_rollup_batch(s, root, c, t, x)
  <2>1. PICK s \in Party, c \in Party, root \in Roots, t \in Token, x \in BatchAmounts : submit_rollup_batch(s, root, c, t, x)
    BY <1>2
  <2>2. x \in Int
    BY RollupAssumption
  <2> QED BY <2>1, <2>2, RollupSubmitted
<1>3. CASE \E i \in 1 .. MaxBatch : finalize_rollup_batch(i) \/ \E root \in Roots : submit_fraud_proof(i, root)
  BY <1>3, RollupFinalized, RollupChallenged
<1> QED BY <1>1, <1>2, <1>3 DEF RollupNext

-----------------------------------------------------------------------------
(* Commitments and reveals *)

\* RoundPhased by the parts of a round, at any time.
Phased(status, end, stop, cs, rs, m, n, time) ==
  /\ status = "Revealing" => end <= time
  /\ \A p \in With(cs) : cs[p].at < end
  /\ \A p \in With(rs) :
       /\ p \in With(cs) /\ cs[p].revealed
       /\ cs[p].hash[1] = rs[p].value
       /\ end <= rs[p].at /\ rs[p].at < stop
  /\ m = Cardinality(With(cs))
  /\ n = Cardinality(With(rs))
PhasedAt(r, time) ==
  Phased(r.status, r.commit_end, r.reveal_end, r.commits, r.reveals, r.commit_count, r.reveal_count, time)
RoundsAt(list, time) == list \in Seq(RevealRound) /\ \A i \in DOMAIN list : PhasedAt(list[i], time)

LEMMA RevealParts ==
  /\ RevealInv <=> RoundsAt(secrets, now)
  /\ RevealInv' <=> RoundsAt(secrets', now')
BY DEF RevealInv, RoundsAt, PhasedAt, Phased, RoundPhased, With
LEMMA RoundFields ==
  ASSUME NEW r \in RevealRound
  PROVE  /\ r.commits \in [Party -> Commitment \cup {None}] /\ r.reveals \in [Party -> Reveal \cup {None}]
         /\ r.commit_end \in Int /\ r.reveal_end \in Int /\ r.commit_count \in Nat /\ r.reveal_count \in Nat
         /\ r.min_bid \in Int /\ r.winning \in Int
BY DEF RevealRound
LEMMA CommitmentFields ==
  ASSUME NEW k \in Commitment
  PROVE  /\ k # None /\ k.at \in Int /\ Opened(k) \in Commitment /\ Opened(k).hash = k.hash
         /\ Opened(k).at = k.at /\ Opened(k).revealed
BY ProofsAssumption DEF Commitment, Opened
LEMMA RevealFields ==
  ASSUME NEW k \in Reveal
  PROVE  k # None /\ k.at \in Int
BY ProofsAssumption DEF Reveal
LEMMA WithFinite ==
  ASSUME NEW f
  PROVE  IsFiniteSet(With(f)) /\ Cardinality(With(f)) \in Nat
<1>1. With(f) \in SUBSET Party
  BY DEF With
<1>2. IsFiniteSet(With(f))
  BY <1>1, LedgerAssumption, FS_Subset
<1> QED BY <1>2, FS_CardinalityType
LEMMA EnteredAs ==
  ASSUME NEW f, DOMAIN f = Party, NEW p \in Party, NEW x, x # None
  PROVE  /\ With(Entered(f, p, x)) = With(f) \cup {p}
         /\ \A q \in Party : Entered(f, p, x)[q] = IF q = p THEN x ELSE f[q]
BY DEF Entered, With
LEMMA OneMoreWith ==
  ASSUME NEW f, DOMAIN f = Party, NEW p \in Party, NEW x, x # None, f[p] = None
  PROVE  Cardinality(With(Entered(f, p, x))) = Cardinality(With(f)) + 1
<1>1. With(Entered(f, p, x)) = With(f) \cup {p}
  BY EnteredAs
<1>2. p \notin With(f)
  BY DEF With
<1> QED BY <1>1, <1>2, WithFinite, FS_AddElement
LEMMA SameWith ==
  ASSUME NEW f, DOMAIN f = Party, NEW p \in Party, NEW x, x # None, f[p] # None
  PROVE  With(Entered(f, p, x)) = With(f)
<1>1. With(Entered(f, p, x)) = With(f) \cup {p}
  BY EnteredAs
<1>2. p \in With(f)
  BY DEF With
<1> QED BY <1>1, <1>2
LEMMA CommitEntered ==
  ASSUME NEW f \in [Party -> Commitment \cup {None}], NEW p \in Party, NEW x \in Commitment
  PROVE  Entered(f, p, x) \in [Party -> Commitment \cup {None}]
BY DEF Entered
LEMMA RevealEntered ==
  ASSUME NEW f \in [Party -> Reveal \cup {None}], NEW p \in Party, NEW x \in Reveal
  PROVE  Entered(f, p, x) \in [Party -> Reveal \cup {None}]
BY DEF Entered

\* A commitment made in time.
LEMMA PhasedByCommit ==
  ASSUME NEW end \in Int, NEW stop \in Int, NEW time \in Int, NEW m \in Nat, NEW n,
         NEW cs \in [Party -> Commitment \cup {None}], NEW rs,
         NEW p \in Party, cs[p] = None, NEW k \in Commitment, k.at < end,
         Phased("Committing", end, stop, cs, rs, m, n, time)
  PROVE  Phased("Committing", end, stop, Entered(cs, p, k), rs, m + 1, n, time)
<1> DEFINE ds == Entered(cs, p, k)
<1>1. k # None /\ DOMAIN cs = Party
  BY CommitmentFields
<1>2. /\ With(ds) = With(cs) \cup {p} /\ \A q \in Party : ds[q] = IF q = p THEN k ELSE cs[q]
  BY <1>1, EnteredAs
<1>3. Cardinality(With(ds)) = Cardinality(With(cs)) + 1
  BY <1>1, OneMoreWith
<1> HIDE DEF ds
<1>4. p \notin With(cs) /\ \A q \in With(cs) : q \in Party /\ q # p
  BY DEF With
<1>5. \A q \in With(ds) : ds[q].at < end
  BY <1>2, <1>4 DEF Phased
<1>6. \A q \in With(rs) : q \in With(cs) /\ q \in With(ds) /\ ds[q] = cs[q]
  BY <1>2, <1>4 DEF Phased
<1>7. \A q \in With(rs) :
       /\ q \in With(ds) /\ ds[q].revealed
       /\ ds[q].hash[1] = rs[q].value
       /\ end <= rs[q].at /\ rs[q].at < stop
  <2> SUFFICES ASSUME NEW q \in With(rs)
               PROVE  /\ q \in With(ds) /\ ds[q].revealed
                      /\ ds[q].hash[1] = rs[q].value
                      /\ end <= rs[q].at /\ rs[q].at < stop
    OBVIOUS
  <2>1. /\ cs[q].revealed /\ cs[q].hash[1] = rs[q].value
        /\ end <= rs[q].at /\ rs[q].at < stop
    BY DEF Phased
  <2> QED BY <1>6, <2>1, Zenon
<1>8. m + 1 = Cardinality(With(ds)) /\ n = Cardinality(With(rs))
  BY <1>3 DEF Phased
<1> QED BY <1>5, <1>7, <1>8 DEF Phased, ds

\* A reveal of what was committed, after every commitment.
LEMMA PhasedByReveal ==
  ASSUME NEW end \in Int, NEW stop \in Int, NEW time \in Int, NEW m, NEW n \in Nat,
         NEW cs \in [Party -> Commitment \cup {None}], NEW rs \in [Party -> Reveal \cup {None}],
         NEW p \in Party, cs[p] # None, ~cs[p].revealed, NEW e \in Reveal,
         e.at = time, e.value = cs[p].hash[1], time < stop,
         Phased("Revealing", end, stop, cs, rs, m, n, time)
  PROVE  Phased("Revealing", end, stop, Entered(cs, p, Opened(cs[p])), Entered(rs, p, e), m, n + 1, time)
<1> DEFINE k == Opened(cs[p])
           ds == Entered(cs, p, k)
           qs == Entered(rs, p, e)
<1>0. DOMAIN cs = Party /\ DOMAIN rs = Party
  OBVIOUS
<1>1. k \in Commitment /\ k # None /\ k.at = cs[p].at /\ k.hash = cs[p].hash /\ k.revealed /\ e # None
  <2>1. cs[p] \in Commitment
    OBVIOUS
  <2>2. k \in Commitment /\ k.at = cs[p].at /\ k.hash = cs[p].hash /\ k.revealed
    BY <2>1, CommitmentFields
  <2> HIDE DEF k
  <2> QED BY <2>2, CommitmentFields, RevealFields
<1> HIDE DEF k
<1>2. With(ds) = With(cs) /\ \A q \in Party : ds[q] = IF q = p THEN k ELSE cs[q]
  BY <1>0, <1>1, EnteredAs, SameWith
<1>3. rs[p] = None
  <2> SUFFICES ASSUME rs[p] # None PROVE FALSE
    OBVIOUS
  <2>1. p \in With(rs)
    BY DEF With
  <2> QED BY <2>1, Zenon DEF Phased
<1>4. /\ With(qs) = With(rs) \cup {p} /\ \A q \in Party : qs[q] = IF q = p THEN e ELSE rs[q]
  BY <1>0, <1>1, EnteredAs
<1>5. Cardinality(With(qs)) = Cardinality(With(rs)) + 1
  BY <1>0, <1>1, <1>3, OneMoreWith
<1> HIDE DEF ds, qs
<1>6. p \in With(cs) /\ (\A q \in With(cs) : q \in Party) /\ p \notin With(rs) /\ (\A q \in With(rs) : q \in Party /\ q # p)
  BY <1>3 DEF With
<1>7. end <= time /\ cs[p].at < end
  BY <1>6 DEF Phased
<1>8. \A q \in With(ds) : ds[q].at < end
  BY <1>1, <1>2, <1>6, <1>7 DEF Phased
<1>9. ASSUME NEW q \in With(qs)
      PROVE  /\ q \in With(ds) /\ ds[q].revealed
             /\ ds[q].hash[1] = qs[q].value
             /\ end <= qs[q].at /\ qs[q].at < stop
  <2>1. CASE q = p
    <3>1. ds[q] = k /\ qs[q] = e /\ q \in With(ds) /\ k.revealed
      BY <1>1, <1>2, <1>4, <1>6, <2>1
    <3>2. k.hash[1] = e.value /\ end <= e.at /\ e.at < stop
      BY <1>1, <1>7
    <3> QED BY <3>1, <3>2, Zenon
  <2>2. CASE q # p
    <3>1. q \in With(rs)
      BY <1>4, <2>2
    <3>2. /\ q \in With(cs) /\ cs[q].revealed /\ cs[q].hash[1] = rs[q].value
          /\ end <= rs[q].at /\ rs[q].at < stop
      BY <3>1 DEF Phased
    <3>3. ds[q] = cs[q] /\ qs[q] = rs[q] /\ q \in With(ds)
      BY <1>2, <1>4, <1>6, <3>1, <3>2, <2>2
    <3> QED BY <3>2, <3>3, Zenon
  <2> QED BY <2>1, <2>2
<1>10. m = Cardinality(With(ds)) /\ n + 1 = Cardinality(With(qs))
  BY <1>2, <1>5 DEF Phased
<1> QED BY <1>7, <1>8, <1>9, <1>10 DEF Phased, ds, qs, k
\* Only the status, or the time, changes.
LEMMA PhasedLater ==
  ASSUME NEW status, NEW next, NEW end \in Int, NEW stop, NEW cs, NEW rs, NEW m, NEW n, NEW time \in Int, NEW later \in Int,
         Phased(status, end, stop, cs, rs, m, n, time), next = "Revealing" => end <= later
  PROVE  Phased(next, end, stop, cs, rs, m, n, later)
BY DEF Phased
LEMMA PhasedEmpty ==
  ASSUME NEW end, NEW stop, NEW time
  PROVE  Phased("Committing", end, stop, PerParty(None), PerParty(None), 0, 0, time)
<1>1. With(PerParty(None)) = {}
  BY DEF With, PerParty
<1>2. Cardinality({}) = 0
  BY FS_EmptySet
<1> QED BY <1>1, <1>2 DEF Phased

LEMMA RoundChanged ==
  ASSUME RoundsAt(secrets, now), NEW i \in DOMAIN secrets, NEW e \in RevealRound, PhasedAt(e, now),
         secrets' = [secrets EXCEPT ![i] = e]
  PROVE  RoundsAt(secrets', now)
<1>1. secrets \in Seq(RevealRound)
  BY DEF RoundsAt
<1>2. /\ secrets' \in Seq(RevealRound) /\ DOMAIN secrets' = DOMAIN secrets
      /\ \A j \in DOMAIN secrets : secrets'[j] = IF j = i THEN e ELSE secrets[j]
  BY <1>1, SeqUpdated
<1> QED BY <1>2 DEF RoundsAt
LEMMA RoundAt ==
  ASSUME RoundsAt(secrets, now), NEW i \in DOMAIN secrets
  PROVE  secrets[i] \in RevealRound /\ PhasedAt(secrets[i], now)
BY DEF RoundsAt

LEMMA RoundCreated ==
  ASSUME RoundsAt(secrets, now), now \in Int, NEW p \in Party, NEW kind \in {"TipAuction", "Vote"}, NEW d \in Phases,
         create_commit_reveal_round(p, kind, d, 1)
  PROVE  RoundsAt(secrets', now)
<1> DEFINE e == create_round(p, kind, d, 1)
<1>1. d[1] \in Int /\ d[2] \in Int
  BY ProofsAssumption
<1>2. PerParty(None) \in [Party -> Commitment \cup {None}] /\ PerParty(None) \in [Party -> Reveal \cup {None}]
  BY DEF PerParty
<1>3. /\ e \in RevealRound /\ e.status = "Committing" /\ e.commits = PerParty(None) /\ e.reveals = PerParty(None)
      /\ e.commit_count = 0 /\ e.reveal_count = 0
  BY <1>1, <1>2 DEF create_round, RevealRound
<1>4. secrets' = Append(secrets, e) /\ secrets \in Seq(RevealRound)
  BY DEF create_commit_reveal_round, RoundsAt
<1> HIDE DEF e
<1>5. PhasedAt(e, now)
  BY <1>3, PhasedEmpty DEF PhasedAt
<1>6. /\ secrets' \in Seq(RevealRound) /\ DOMAIN secrets = 1 .. Len(secrets) /\ DOMAIN secrets' = 1 .. Len(secrets) + 1
      /\ (\A j \in DOMAIN secrets : secrets'[j] = secrets[j]) /\ secrets'[Len(secrets) + 1] = e /\ Len(secrets) \in Nat
  BY <1>3, <1>4, SeqAppended
<1>7. \A j \in DOMAIN secrets' : j \in DOMAIN secrets \/ j = Len(secrets) + 1
  BY <1>6
<1> QED BY <1>5, <1>6, <1>7 DEF RoundsAt
LEMMA CommitFields ==
  ASSUME NEW r \in RevealRound, NEW p \in Party, NEW h \in Values \X Salts, now \in Int,
         NEW k, k = [hash |-> h, at |-> now, revealed |-> FALSE]
  PROVE  /\ k \in Commitment /\ k.at = now
         /\ commit(r, p, h) \in RevealRound
         /\ commit(r, p, h).status = r.status /\ commit(r, p, h).commit_end = r.commit_end
         /\ commit(r, p, h).reveal_end = r.reveal_end /\ commit(r, p, h).commits = Entered(r.commits, p, k)
         /\ commit(r, p, h).reveals = r.reveals /\ commit(r, p, h).commit_count = r.commit_count + 1
         /\ commit(r, p, h).reveal_count = r.reveal_count
<1> DEFINE cs == Entered(r.commits, p, k)
           m == r.commit_count + 1
<1>1. k \in Commitment /\ k.at = now
  BY DEF Commitment
<1>2. cs \in [Party -> Commitment \cup {None}] /\ m \in Nat
  <2>1. r.commits \in [Party -> Commitment \cup {None}] /\ r.commit_count \in Nat
    BY RoundFields
  <2>2. cs \in [Party -> Commitment \cup {None}]
    BY <1>1, <2>1, CommitEntered
  <2> HIDE DEF cs
  <2> QED BY <2>1, <2>2
<1>3. commit(r, p, h) = [r EXCEPT !.commits = cs, !.commit_count = m]
  BY DEF commit
<1> HIDE DEF cs, m
<1> DEFINE e == [r EXCEPT !.commits = cs, !.commit_count = m]
<1>4. /\ e \in RevealRound /\ e.status = r.status /\ e.commit_end = r.commit_end /\ e.reveal_end = r.reveal_end
      /\ e.commits = cs /\ e.reveals = r.reveals /\ e.commit_count = m /\ e.reveal_count = r.reveal_count
  BY <1>2 DEF RevealRound
<1> HIDE DEF e
<1>5. commit(r, p, h) = e
  BY <1>3 DEF e
<1> QED BY <1>1, <1>4, <1>5 DEF cs, m
LEMMA Committed ==
  ASSUME RoundsAt(secrets, now), now \in Int, NEW p \in Party, NEW i \in DOMAIN secrets, NEW v \in Values, NEW salt \in Salts,
         commit_to_round(p, i, compute_commitment(v, salt))
  PROVE  RoundsAt(secrets', now)
<1> DEFINE r == secrets[i]
           h == compute_commitment(v, salt)
           k == [hash |-> h, at |-> now, revealed |-> FALSE]
           e == commit(r, p, h)
<1>1. r \in RevealRound /\ PhasedAt(r, now)
  BY RoundAt
<1>2. h \in Values \X Salts
  BY DEF compute_commitment
<1>3. r.status = "Committing" /\ now < r.commit_end /\ r.commits[p] = None /\ secrets' = [secrets EXCEPT ![i] = e]
  BY DEF commit_to_round, RoundsAt
<1>k. k = [hash |-> h, at |-> now, revealed |-> FALSE]
  OBVIOUS
<1> HIDE DEF r, h, k
<1>4. /\ k \in Commitment /\ k.at = now /\ e \in RevealRound
      /\ e.status = r.status /\ e.commit_end = r.commit_end /\ e.reveal_end = r.reveal_end
      /\ e.commits = Entered(r.commits, p, k) /\ e.reveals = r.reveals
      /\ e.commit_count = r.commit_count + 1 /\ e.reveal_count = r.reveal_count
  BY <1>1, <1>2, <1>k, CommitFields
<1> HIDE DEF e
<1>5. /\ r.commits \in [Party -> Commitment \cup {None}] /\ r.commit_end \in Int /\ r.reveal_end \in Int
      /\ r.commit_count \in Nat
  BY <1>1, RoundFields
<1>6. Phased("Committing", r.commit_end, r.reveal_end, r.commits, r.reveals, r.commit_count, r.reveal_count, now)
  BY <1>1, <1>3 DEF PhasedAt
<1>7. Phased("Committing", r.commit_end, r.reveal_end, Entered(r.commits, p, k), r.reveals, r.commit_count + 1, r.reveal_count, now)
  BY <1>3, <1>4, <1>5, <1>6, PhasedByCommit
<1>8. PhasedAt(e, now)
  BY <1>3, <1>4, <1>7 DEF PhasedAt
<1> QED BY <1>3, <1>4, <1>8, RoundChanged
LEMMA RevealedFields ==
  ASSUME NEW r \in RevealRound, NEW p \in Party, NEW v \in Values, now \in Int, r.commits[p] # None,
         NEW k, k = [value |-> v, at |-> now]
  PROVE  /\ k \in Reveal /\ k.at = now /\ k.value = v
         /\ reveal(r, p, v) \in RevealRound
         /\ reveal(r, p, v).status = r.status /\ reveal(r, p, v).commit_end = r.commit_end
         /\ reveal(r, p, v).reveal_end = r.reveal_end
         /\ reveal(r, p, v).commits = Entered(r.commits, p, Opened(r.commits[p]))
         /\ reveal(r, p, v).reveals = Entered(r.reveals, p, k)
         /\ reveal(r, p, v).commit_count = r.commit_count
         /\ reveal(r, p, v).reveal_count = r.reveal_count + 1
<1> DEFINE cs == Entered(r.commits, p, Opened(r.commits[p]))
           rs == Entered(r.reveals, p, k)
           m == r.reveal_count + 1
<1>1. k \in Reveal /\ k.at = now /\ k.value = v
  BY DEF Reveal
<1>2. cs \in [Party -> Commitment \cup {None}] /\ rs \in [Party -> Reveal \cup {None}] /\ m \in Nat
  <2>1. /\ r.commits \in [Party -> Commitment \cup {None}] /\ r.reveals \in [Party -> Reveal \cup {None}]
        /\ r.reveal_count \in Nat
    BY RoundFields
  <2>2. Opened(r.commits[p]) \in Commitment
    BY <2>1, CommitmentFields
  <2>3. cs \in [Party -> Commitment \cup {None}]
    BY <2>1, <2>2, CommitEntered
  <2>4. rs \in [Party -> Reveal \cup {None}]
    BY <1>1, <2>1, RevealEntered
  <2> HIDE DEF cs, rs
  <2> QED BY <2>1, <2>3, <2>4
<1>3. reveal(r, p, v) = [r EXCEPT !.commits = cs, !.reveals = rs, !.reveal_count = m]
  BY DEF reveal
<1> HIDE DEF cs, rs, m
<1> DEFINE e == [r EXCEPT !.commits = cs, !.reveals = rs, !.reveal_count = m]
<1>4. /\ e \in RevealRound /\ e.status = r.status /\ e.commit_end = r.commit_end /\ e.reveal_end = r.reveal_end
      /\ e.commits = cs /\ e.reveals = rs /\ e.commit_count = r.commit_count /\ e.reveal_count = m
  BY <1>2 DEF RevealRound
<1> HIDE DEF e
<1>5. reveal(r, p, v) = e
  BY <1>3 DEF e
<1> QED BY <1>1, <1>4, <1>5 DEF cs, rs, m
LEMMA Revealed ==
  ASSUME RoundsAt(secrets, now), now \in Int, NEW p \in Party, NEW i \in DOMAIN secrets, NEW v \in Values, NEW salt \in Salts,
         reveal_commitment(p, i, v, salt)
  PROVE  RoundsAt(secrets', now)
<1> DEFINE r == secrets[i]
           k == [value |-> v, at |-> now]
           e == reveal(r, p, v)
<1>1. r \in RevealRound /\ PhasedAt(r, now)
  BY RoundAt
<1>3. /\ r.status = "Revealing" /\ now < r.reveal_end /\ r.commits[p] # None /\ ~r.commits[p].revealed
      /\ <<v, salt>> = r.commits[p].hash /\ secrets' = [secrets EXCEPT ![i] = e]
  BY DEF reveal_commitment, compute_commitment
<1>k. k = [value |-> v, at |-> now]
  OBVIOUS
<1> HIDE DEF r, k
<1>4. /\ k \in Reveal /\ k.at = now /\ k.value = v /\ e \in RevealRound
      /\ e.status = r.status /\ e.commit_end = r.commit_end /\ e.reveal_end = r.reveal_end
      /\ e.commits = Entered(r.commits, p, Opened(r.commits[p])) /\ e.reveals = Entered(r.reveals, p, k)
      /\ e.commit_count = r.commit_count /\ e.reveal_count = r.reveal_count + 1
  BY <1>1, <1>3, <1>k, RevealedFields
<1> HIDE DEF e
<1>5. /\ r.commits \in [Party -> Commitment \cup {None}] /\ r.reveals \in [Party -> Reveal \cup {None}]
      /\ r.commit_end \in Int /\ r.reveal_end \in Int /\ r.reveal_count \in Nat
  BY <1>1, RoundFields
<1>6. Phased("Revealing", r.commit_end, r.reveal_end, r.commits, r.reveals, r.commit_count, r.reveal_count, now)
  BY <1>1, <1>3 DEF PhasedAt
<1>h. k.value = r.commits[p].hash[1]
  BY <1>3, <1>4
<1>7. Phased("Revealing", r.commit_end, r.reveal_end, Entered(r.commits, p, Opened(r.commits[p])),
             Entered(r.reveals, p, k), r.commit_count, r.reveal_count + 1, now)
  <2> DEFINE cs == r.commits
             rs == r.reveals
             end == r.commit_end
             stop == r.reveal_end
             m == r.commit_count
             n == r.reveal_count
  <2>1. /\ end \in Int /\ stop \in Int /\ n \in Nat /\ now \in Int /\ k \in Reveal
        /\ cs \in [Party -> Commitment \cup {None}] /\ rs \in [Party -> Reveal \cup {None}]
        /\ cs[p] # None /\ ~cs[p].revealed /\ k.at = now /\ k.value = cs[p].hash[1] /\ now < stop
        /\ Phased("Revealing", end, stop, cs, rs, m, n, now)
    BY <1>3, <1>4, <1>5, <1>6, <1>h
  <2> HIDE DEF cs, rs, end, stop, m, n
  <2>2. Phased("Revealing", end, stop, Entered(cs, p, Opened(cs[p])), Entered(rs, p, k), m, n + 1, now)
    BY <2>1, PhasedByReveal
  <2> QED BY <2>2 DEF cs, rs, end, stop, m, n
<1>8. PhasedAt(e, now)
  BY <1>3, <1>4, <1>7 DEF PhasedAt
<1> QED BY <1>3, <1>4, <1>8, RoundChanged

\* A round moves on to another status.
MovedTo(r, e, status) ==
  /\ e \in RevealRound /\ e.status = status /\ e.commit_end = r.commit_end /\ e.reveal_end = r.reveal_end
  /\ e.commits = r.commits /\ e.reveals = r.reveals
  /\ e.commit_count = r.commit_count /\ e.reveal_count = r.reveal_count
LEMMA PhaseFields ==
  ASSUME NEW r \in RevealRound, NEW status \in {"Committing", "Revealing", "Finalized", "Cancelled"}
  PROVE  MovedTo(r, Phase(r, status), status)
BY DEF MovedTo, Phase, RevealRound
LEMMA FinalizedFields ==
  ASSUME NEW r \in RevealRound
  PROVE  MovedTo(r, finalize_round(r), "Finalized")
BY DEF MovedTo, finalize_round, RevealRound
LEMMA RoundMoved ==
  ASSUME RoundsAt(secrets, now), now \in Int, NEW i \in DOMAIN secrets, NEW e, NEW status,
         MovedTo(secrets[i], e, status), status = "Revealing" => secrets[i].commit_end <= now,
         secrets' = [secrets EXCEPT ![i] = e]
  PROVE  RoundsAt(secrets', now)
<1> DEFINE r == secrets[i]
<1>1. r \in RevealRound /\ PhasedAt(r, now) /\ r.commit_end \in Int
  BY RoundAt, RoundFields
<1>2. MovedTo(r, e, status) /\ (status = "Revealing" => r.commit_end <= now)
  OBVIOUS
<1> HIDE DEF r
<1>3. Phased(status, r.commit_end, r.reveal_end, r.commits, r.reveals, r.commit_count, r.reveal_count, now)
  BY <1>1, <1>2, PhasedLater DEF PhasedAt
<1>4. e \in RevealRound /\ PhasedAt(e, now)
  BY <1>2, <1>3 DEF PhasedAt, MovedTo
<1> QED BY <1>4, RoundChanged
LEMMA RevealStep ==
  ASSUME RevealInv, now \in Int, RevealNext, now' = now
  PROVE  RevealInv'
<1>1. RoundsAt(secrets, now)
  BY RevealParts
<1>2. CASE \E p \in Party, kind \in {"TipAuction", "Vote"}, d \in Phases : create_commit_reveal_round(p, kind, d, 1)
  <2>1. RoundsAt(secrets', now)
    BY <1>1, <1>2, RoundCreated
  <2> QED BY <2>1, RevealParts
<1>3. ASSUME NEW i \in DOMAIN secrets,
             \/ \E p \in Party, v \in Values, salt \in Salts :
                  commit_to_round(p, i, compute_commitment(v, salt)) \/ reveal_commitment(p, i, v, salt)
             \/ start_reveal_phase(i) \/ finalize_commit_reveal_round(i)
             \/ \E p \in Party : cancel_commit_reveal_round(p, i)
      PROVE  RevealInv'
  <2>0. secrets[i] \in RevealRound
    BY <1>1, RoundAt
  <2>1. CASE \E p \in Party, v \in Values, salt \in Salts :
                  commit_to_round(p, i, compute_commitment(v, salt)) \/ reveal_commitment(p, i, v, salt)
    <3>1. RoundsAt(secrets', now)
      BY <1>1, <2>1, Committed, Revealed
    <3> QED BY <3>1, RevealParts
  <2>2. CASE start_reveal_phase(i)
    <3>1. /\ secrets' = [secrets EXCEPT ![i] = Phase(secrets[i], "Revealing")] /\ now >= secrets[i].commit_end
      BY <2>2 DEF start_reveal_phase
    <3>2. MovedTo(secrets[i], Phase(secrets[i], "Revealing"), "Revealing") /\ secrets[i].commit_end <= now
      BY <2>0, <3>1, PhaseFields, RoundFields
    <3>3. RoundsAt(secrets', now)
      BY <1>1, <3>1, <3>2, RoundMoved
    <3> QED BY <3>3, RevealParts
  <2>3. CASE finalize_commit_reveal_round(i)
    <3>1. secrets' = [secrets EXCEPT ![i] = finalize_round(secrets[i])]
      BY <2>3 DEF finalize_commit_reveal_round
    <3>2. MovedTo(secrets[i], finalize_round(secrets[i]), "Finalized")
      BY <2>0, FinalizedFields
    <3>3. RoundsAt(secrets', now)
      BY <1>1, <3>1, <3>2, RoundMoved
    <3> QED BY <3>3, RevealParts
  <2>4. CASE \E p \in Party : cancel_commit_reveal_round(p, i)
    <3>1. secrets' = [secrets EXCEPT ![i] = Phase(secrets[i], "Cancelled")]
      BY <2>4 DEF cancel_commit_reveal_round, cancel_round
    <3>2. MovedTo(secrets[i], Phase(secrets[i], "Cancelled"), "Cancelled")
      BY <2>0, PhaseFields
    <3>3. RoundsAt(secrets', now)
      BY <1>1, <3>1, <3>2, RoundMoved
    <3> QED BY <3>3, RevealParts
  <2> QED BY <1>3, <2>1, <2>2, <2>3, <2>4
<1> QED BY <1>2, <1>3 DEF RevealNext
LEMMA RevealLater ==
  ASSUME RevealInv, now \in Int, now' \in Int, now <= now', UNCHANGED secrets
  PROVE  RevealInv'
<1>1. RoundsAt(secrets, now)
  BY RevealParts
<1>2. ASSUME NEW i \in DOMAIN secrets PROVE PhasedAt(secrets[i], now')
  <2> DEFINE r == secrets[i]
  <2>1. r \in RevealRound /\ PhasedAt(r, now) /\ r.commit_end \in Int
    BY <1>1, RoundAt, RoundFields
  <2> HIDE DEF r
  <2>2. r.status = "Revealing" => r.commit_end <= now'
    BY <2>1 DEF PhasedAt, Phased
  <2>3. Phased(r.status, r.commit_end, r.reveal_end, r.commits, r.reveals, r.commit_count, r.reveal_count, now')
    BY <2>1, <2>2, PhasedLater DEF PhasedAt
  <2> QED BY <2>3 DEF PhasedAt, r
<1>3. RoundsAt(secrets', now')
  BY <1>1, <1>2 DEF RoundsAt
<1> QED BY <1>3, RevealParts
LEMMA PhasesFollow ==
  ASSUME RevealInv
  PROVE  PhasesApart
<1> SUFFICES ASSUME NEW i \in DOMAIN secrets PROVE RevealedInTime(secrets[i])
  BY DEF PhasesApart
<1> DEFINE r == secrets[i]
<1>1. r \in RevealRound /\ PhasedAt(r, now)
  BY RevealParts, RoundAt
<1> HIDE DEF r
<1>2. /\ r.commits \in [Party -> Commitment \cup {None}] /\ r.reveals \in [Party -> Reveal \cup {None}]
      /\ r.commit_end \in Int /\ r.reveal_end \in Int
  BY <1>1, RoundFields
<1>3. ASSUME NEW p \in With(r.reveals)
      PROVE  /\ p \in With(r.commits)
             /\ r.commits[p].hash[1] = r.reveals[p].value
             /\ \A q \in With(r.commits) : r.commits[q].at < r.reveals[p].at
             /\ r.reveals[p].at < r.reveal_end
  <2>1. /\ p \in With(r.commits) /\ r.commits[p].hash[1] = r.reveals[p].value
        /\ r.commit_end <= r.reveals[p].at /\ r.reveals[p].at < r.reveal_end
    BY <1>1 DEF PhasedAt, Phased
  <2>2. r.reveals[p].at \in Int
    BY <1>2, RevealFields DEF With
  <2>3. ASSUME NEW q \in With(r.commits) PROVE r.commits[q].at < r.reveals[p].at
    <3>1. r.commits[q].at \in Int
      BY <1>2, CommitmentFields DEF With
    <3>2. r.commits[q].at < r.commit_end
      BY <1>1 DEF PhasedAt, Phased
    <3> QED BY <1>2, <2>1, <2>2, <3>1, <3>2
  <2> QED BY <2>1, <2>3
<1>4. r.commit_count = Cardinality(With(r.commits)) /\ r.reveal_count = Cardinality(With(r.reveals))
  BY <1>1 DEF PhasedAt, Phased
<1> QED BY <1>3, <1>4 DEF RevealedInTime, r

-----------------------------------------------------------------------------
(* Proofs with nullifiers *)

\* A private tip rests on a proof that was verified.
Rests(k, list) ==
  /\ k.proof \in DOMAIN list
  /\ list[k.proof].status \in {"Verified", "Revoked"}
  /\ list[k.proof].nullifier = k.nullifier
  /\ k.claims <= 1
ProofsIn(list, used) ==
  /\ list \in Seq(ZkProof)
  /\ \A i \in DOMAIN list : list[i].nullifier \in used
  /\ \A i, j \in DOMAIN list : list[i].nullifier = list[j].nullifier => i = j
TipsRest(tips, list) == tips \in Seq(PrivateTipOf) /\ \A i \in DOMAIN tips : Rests(tips[i], list)
LEMMA ZkParts ==
  /\ ZkInv <=> circuits \in Seq(Circuit) /\ ProofsIn(zkProofs, nullifiers) /\ TipsRest(privateTips, zkProofs)
  /\ ZkInv' <=> circuits' \in Seq(Circuit) /\ ProofsIn(zkProofs', nullifiers') /\ TipsRest(privateTips', zkProofs')
BY DEF ZkInv, ProofsIn, TipsRest, Rests, NullifierOnce

LEMMA ProofMoved ==
  ASSUME ZkInv, NEW i \in DOMAIN zkProofs, NEW s \in {"Verified", "Invalid", "Revoked"},
         s = "Revoked" \/ zkProofs[i].status = "Pending",
         zkProofs' = [zkProofs EXCEPT ![i].status = s], UNCHANGED <<circuits, nullifiers, privateTips>>
  PROVE  ZkInv'
<1> DEFINE k == zkProofs[i]
           e == [k EXCEPT !.status = s]
<1>1. zkProofs \in Seq(ZkProof) /\ k \in ZkProof
  BY ZkParts DEF ProofsIn
<1>2. e \in ZkProof /\ e.status = s /\ e.nullifier = k.nullifier
  <2> HIDE DEF k
  <2> QED BY <1>1 DEF ZkProof
<1>3. zkProofs' = [zkProofs EXCEPT ![i] = e]
  OBVIOUS
<1> HIDE DEF e
<1>4. /\ zkProofs' \in Seq(ZkProof) /\ DOMAIN zkProofs' = DOMAIN zkProofs
      /\ \A j \in DOMAIN zkProofs : zkProofs'[j] = IF j = i THEN e ELSE zkProofs[j]
  BY <1>1, <1>2, <1>3, SeqUpdated
<1>5. \A j \in DOMAIN zkProofs : zkProofs'[j].nullifier = zkProofs[j].nullifier
  BY <1>2, <1>4
<1>6. ProofsIn(zkProofs', nullifiers')
  BY <1>4, <1>5, ZkParts DEF ProofsIn
<1>7. ASSUME NEW j \in DOMAIN privateTips PROVE Rests(privateTips[j], zkProofs')
  <2>1. Rests(privateTips[j], zkProofs)
    BY ZkParts DEF TipsRest
  <2> DEFINE q == privateTips[j]
  <2>2. q.proof \in DOMAIN zkProofs' /\ zkProofs'[q.proof].nullifier = q.nullifier /\ q.claims <= 1
    BY <1>4, <1>5, <2>1 DEF Rests
  <2>3. zkProofs'[q.proof].status \in {"Verified", "Revoked"}
    BY <1>2, <1>4, <2>1 DEF Rests
  <2> QED BY <2>2, <2>3 DEF Rests
<1>8. TipsRest(privateTips', zkProofs') /\ circuits' \in Seq(Circuit)
  BY <1>7, ZkParts DEF TipsRest
<1> QED BY <1>6, <1>8, ZkParts
LEMMA ProofSubmitted ==
  ASSUME ZkInv, NEW p \in Party, NEW i \in DOMAIN circuits, NEW n \in Nullifiers, submit_zk_proof(p, i, n)
  PROVE  ZkInv'
<1> DEFINE e == [prover |-> p, circuit |-> i, nullifier |-> n, status |-> "Pending"]
           m == Len(zkProofs)
<1>1. zkProofs \in Seq(ZkProof) /\ i \in Nat
  BY ZkParts DEF ProofsIn
<1>2. e \in ZkProof /\ e.nullifier = n
  BY <1>1 DEF ZkProof
<1>3. /\ n \notin nullifiers /\ zkProofs' = Append(zkProofs, e) /\ nullifiers' = nullifiers \cup {n}
      /\ UNCHANGED <<circuits, privateTips>>
  BY DEF submit_zk_proof, submit_proof
<1> HIDE DEF e
<1>4. /\ zkProofs' \in Seq(ZkProof) /\ DOMAIN zkProofs = 1 .. m /\ DOMAIN zkProofs' = 1 .. m + 1
      /\ (\A j \in DOMAIN zkProofs : zkProofs'[j] = zkProofs[j]) /\ zkProofs'[m + 1] = e /\ m \in Nat
  BY <1>1, <1>2, <1>3, SeqAppended
<1> HIDE DEF m
<1>5. (\A j \in DOMAIN zkProofs' : j \in DOMAIN zkProofs \/ j = m + 1) /\ (\A j \in DOMAIN zkProofs : j \in DOMAIN zkProofs')
  BY <1>4
<1>6. \A j \in DOMAIN zkProofs : zkProofs[j].nullifier \in nullifiers /\ zkProofs[j].nullifier # n
  BY <1>3, ZkParts DEF ProofsIn
<1>7. \A j \in DOMAIN zkProofs' : zkProofs'[j].nullifier \in nullifiers'
  BY <1>2, <1>3, <1>4, <1>5, <1>6
<1>8. \A j, k \in DOMAIN zkProofs' : zkProofs'[j].nullifier = zkProofs'[k].nullifier => j = k
  BY <1>2, <1>4, <1>5, <1>6, ZkParts DEF ProofsIn
<1>9. ASSUME NEW j \in DOMAIN privateTips PROVE Rests(privateTips[j], zkProofs')
  BY <1>4, <1>5, ZkParts DEF TipsRest, Rests
<1>10. TipsRest(privateTips', zkProofs') /\ circuits' \in Seq(Circuit)
  BY <1>3, <1>9, ZkParts DEF TipsRest
<1> QED BY <1>4, <1>7, <1>8, <1>10, ZkParts DEF ProofsIn
LEMMA PrivateTipMade ==
  ASSUME ZkInv, NEW p \in Party, NEW i \in DOMAIN zkProofs, NEW n \in Nullifiers, create_zk_private_tip(p, i, n)
  PROVE  ZkInv'
<1> DEFINE e == [creator |-> p, proof |-> i, nullifier |-> n, claims |-> 0]
           m == Len(privateTips)
<1>1. privateTips \in Seq(PrivateTipOf) /\ zkProofs \in Seq(ZkProof) /\ i \in Nat
  BY ZkParts DEF TipsRest, ProofsIn
<1>2. e \in PrivateTipOf /\ e.proof = i /\ e.nullifier = n /\ e.claims = 0
  BY <1>1 DEF PrivateTipOf
<1>3. /\ zkProofs[i].status = "Verified" /\ zkProofs[i].nullifier = n
      /\ privateTips' = Append(privateTips, e) /\ UNCHANGED <<circuits, zkProofs, nullifiers>>
  BY DEF create_zk_private_tip, create_private_tip
<1> HIDE DEF e
<1>4. /\ privateTips' \in Seq(PrivateTipOf) /\ DOMAIN privateTips = 1 .. m /\ DOMAIN privateTips' = 1 .. m + 1
      /\ (\A j \in DOMAIN privateTips : privateTips'[j] = privateTips[j]) /\ privateTips'[m + 1] = e /\ m \in Nat
  BY <1>1, <1>2, <1>3, SeqAppended
<1> HIDE DEF m
<1>5. \A j \in DOMAIN privateTips' : j \in DOMAIN privateTips \/ j = m + 1
  BY <1>4
<1>6. Rests(e, zkProofs)
  BY <1>2, <1>3 DEF Rests
<1>7. \A j \in DOMAIN privateTips : Rests(privateTips[j], zkProofs)
  BY ZkParts DEF TipsRest
<1>8. TipsRest(privateTips', zkProofs)
  BY <1>4, <1>5, <1>6, <1>7 DEF TipsRest
<1> QED BY <1>3, <1>8, ZkParts
LEMMA PrivateTipClaimed ==
  ASSUME ZkInv, NEW p, NEW i \in DOMAIN privateTips, claim_zk_private_tip(p, i)
  PROVE  ZkInv'
<1> DEFINE k == privateTips[i]
           x == k.claims + 1
           e == [k EXCEPT !.claims = x]
<1>1. privateTips \in Seq(PrivateTipOf) /\ k \in PrivateTipOf /\ Rests(k, zkProofs)
  BY ZkParts DEF TipsRest
<1>2. k.claims = 0 /\ UNCHANGED <<circuits, zkProofs, nullifiers>> /\ privateTips' = [privateTips EXCEPT ![i] = e]
  BY DEF claim_zk_private_tip, claim_private_tip
<1>3. x = 1
  BY <1>2
<1> HIDE DEF k, x
<1>4. e \in PrivateTipOf /\ e.proof = k.proof /\ e.nullifier = k.nullifier /\ e.claims = x
  BY <1>1, <1>3 DEF PrivateTipOf
<1> HIDE DEF e
<1>5. Rests(e, zkProofs)
  BY <1>1, <1>3, <1>4 DEF Rests
<1>6. /\ privateTips' \in Seq(PrivateTipOf) /\ DOMAIN privateTips' = DOMAIN privateTips
      /\ \A j \in DOMAIN privateTips : privateTips'[j] = IF j = i THEN e ELSE privateTips[j]
  BY <1>1, <1>2, <1>4, SeqUpdated
<1>7. TipsRest(privateTips', zkProofs)
  BY <1>5, <1>6, ZkParts DEF TipsRest
<1> QED BY <1>2, <1>7, ZkParts
LEMMA CircuitsChanged ==
  ASSUME ZkInv, circuits' \in Seq(Circuit), UNCHANGED <<zkProofs, nullifiers, privateTips>>
  PROVE  ZkInv'
BY ZkParts
LEMMA ZkStep ==
  ASSUME ZkInv, ZkNext
  PROVE  ZkInv'
<1>0. circuits \in Seq(Circuit)
  BY ZkParts
<1>1. PICK p \in Party :
        \/ register_zk_circuit(p)
        \/ \E i \in DOMAIN circuits :
             deactivate_zk_circuit(p, i) \/ \E n \in Nullifiers : submit_zk_proof(p, i, n)
        \/ \E i \in DOMAIN zkProofs :
             \/ \E valid \in BOOLEAN : verify_zk_proof(i, valid)
             \/ revoke_zk_proof(i)
             \/ \E n \in Nullifiers : create_zk_private_tip(p, i, n)
        \/ \E i \in DOMAIN privateTips : claim_zk_private_tip(p, i)
  BY DEF ZkNext
<1>2. CASE register_zk_circuit(p)
  <2>1. register_circuit(p) \in Circuit
    BY DEF register_circuit, Circuit
  <2>2. circuits' = Append(circuits, register_circuit(p)) /\ UNCHANGED <<zkProofs, nullifiers, privateTips>>
    BY <1>2 DEF register_zk_circuit
  <2>3. circuits' \in Seq(Circuit)
    BY <1>0, <2>1, <2>2, SeqAppended
  <2> QED BY <2>2, <2>3, CircuitsChanged
<1>3. ASSUME NEW i \in DOMAIN circuits, deactivate_zk_circuit(p, i) PROVE ZkInv'
  <2> DEFINE c == circuits[i]
             e == [c EXCEPT !.active = FALSE]
  <2>0. c \in Circuit
    BY <1>0
  <2>1. e \in Circuit
    <3> HIDE DEF c
    <3> QED BY <2>0 DEF Circuit
  <2>2. circuits' = [circuits EXCEPT ![i] = e] /\ UNCHANGED <<zkProofs, nullifiers, privateTips>>
    BY <1>3 DEF deactivate_zk_circuit, deactivate_circuit
  <2> HIDE DEF e
  <2>3. circuits' \in Seq(Circuit)
    BY <1>0, <2>1, <2>2, SeqUpdated
  <2> QED BY <2>2, <2>3, CircuitsChanged
<1>4. ASSUME NEW i \in DOMAIN zkProofs, NEW valid \in BOOLEAN, verify_zk_proof(i, valid) PROVE ZkInv'
  <2> DEFINE s == IF valid THEN "Verified" ELSE "Invalid"
  <2>1. /\ s \in {"Verified", "Invalid", "Revoked"} /\ zkProofs[i].status = "Pending"
        /\ zkProofs' = [zkProofs EXCEPT ![i].status = s] /\ UNCHANGED <<circuits, nullifiers, privateTips>>
    BY <1>4 DEF verify_zk_proof, verify_proof
  <2> HIDE DEF s
  <2> QED BY <2>1, ProofMoved
<1>5. ASSUME NEW i \in DOMAIN zkProofs, revoke_zk_proof(i) PROVE ZkInv'
  <2>1. /\ zkProofs' = [zkProofs EXCEPT ![i].status = "Revoked"] /\ UNCHANGED <<circuits, nullifiers, privateTips>>
    BY <1>5 DEF revoke_zk_proof, revoke_proof
  <2> QED BY <2>1, ProofMoved
<1> QED BY <1>1, <1>2, <1>3, <1>4, <1>5, ProofSubmitted, PrivateTipMade, PrivateTipClaimed

-----------------------------------------------------------------------------
(* Validity proofs and their aggregates *)

Tied(k, nonces) ==
  /\ k.commitment = build_commitment(k.sender, k.creator, k.token, k.amount, k.nonce)
  /\ k.nonce < nonces[k.sender]
ProofsTied(list, nonces) ==
  /\ list \in Seq(TipProof) /\ nonces \in [Party -> Nat]
  /\ \A i \in DOMAIN list : Tied(list[i], nonces)
  /\ \A i, j \in DOMAIN list : list[i].sender = list[j].sender /\ list[i].nonce = list[j].nonce => i = j
Sound(a, list) ==
  /\ ToSet(a.ids) \subseteq DOMAIN list
  /\ a.validity = "Valid" =>
       a.revoked = {} /\ \A i \in ToSet(a.ids) : list[i].validity \in {"Valid", "Revoked"}
AggregatesIn(aggs, list) == aggs \in Seq(Aggregate) /\ \A a \in ToSet(aggs) : Sound(a, list)

LEMMA TipProofFields ==
  ASSUME NEW k \in TipProof
  PROVE  /\ k.sender \in Party /\ k.creator \in Party /\ k.token \in Token /\ k.amount \in Nat /\ k.nonce \in Nat
         /\ k.commitment \in Party \X Party \X Token \X Nat \X Nat
BY DEF TipProof
LEMMA CommitmentsApart ==
  ASSUME NEW list, NEW nonces, ProofsTied(list, nonces), NEW i \in DOMAIN list, NEW j \in DOMAIN list,
         list[i].commitment = list[j].commitment
  PROVE  i = j
<1>1. Tied(list[i], nonces) /\ Tied(list[j], nonces)
  BY DEF ProofsTied
<1> DEFINE p1 == list[i].sender
           c1 == list[i].creator
           t1 == list[i].token
           x1 == list[i].amount
           n1 == list[i].nonce
           p2 == list[j].sender
           c2 == list[j].creator
           t2 == list[j].token
           x2 == list[j].amount
           n2 == list[j].nonce
<1>2. <<p1, c1, t1, x1, n1>> = <<p2, c2, t2, x2, n2>>
  BY <1>1 DEF Tied, build_commitment
<1> HIDE DEF p1, c1, t1, x1, n1, p2, c2, t2, x2, n2
<1>3. p1 = p2 /\ n1 = n2
  BY <1>2
<1>4. list[i].sender = list[j].sender /\ list[i].nonce = list[j].nonce
  BY <1>3 DEF p1, p2, n1, n2
<1> QED BY <1>4 DEF ProofsTied
LEMMA ValidityParts ==
  ASSUME ValidityInv
  PROVE  ProofsTied(tipProofs, proofNonce) /\ AggregatesIn(aggregates, tipProofs)
BY DEF ValidityInv, ProofsTied, AggregatesIn, Tied, Sound, AggregatesSound
LEMMA ValidityMade ==
  ASSUME ProofsTied(tipProofs', proofNonce'), AggregatesIn(aggregates', tipProofs')
  PROVE  ValidityInv'
<1>1. \A i, j \in DOMAIN tipProofs' : tipProofs'[i].commitment = tipProofs'[j].commitment => i = j
  BY CommitmentsApart
<1>2. \A a \in ToSet(aggregates') : Sound(a, tipProofs')
  BY DEF AggregatesIn
<1>3. AggregatesSound'
  BY <1>1, <1>2 DEF AggregatesSound, Sound
<1>4. \A i \in DOMAIN tipProofs' :
        /\ tipProofs'[i].commitment = build_commitment(tipProofs'[i].sender, tipProofs'[i].creator, tipProofs'[i].token,
                                                       tipProofs'[i].amount, tipProofs'[i].nonce)
        /\ tipProofs'[i].nonce < proofNonce'[tipProofs'[i].sender]
  BY DEF ProofsTied, Tied
<1>5. \A a \in ToSet(aggregates') : ToSet(a.ids) \subseteq DOMAIN tipProofs'
  BY <1>2 DEF Sound
<1> QED BY <1>3, <1>4, <1>5 DEF ValidityInv, ProofsTied, AggregatesIn, build_commitment

\* Only what is said of proofs changes, and never of one that counted as valid before,
\* but to be revoked.
SameProof(k, e) ==
  /\ e.sender = k.sender /\ e.creator = k.creator /\ e.token = k.token /\ e.amount = k.amount
  /\ e.nonce = k.nonce /\ e.commitment = k.commitment
  /\ k.validity \in {"Valid", "Revoked"} => e.validity \in {"Valid", "Revoked"}
LEMMA ValidityChanged ==
  ASSUME ValidityInv, tipProofs' \in Seq(TipProof), DOMAIN tipProofs' = DOMAIN tipProofs,
         \A i \in DOMAIN tipProofs : SameProof(tipProofs[i], tipProofs'[i]),
         UNCHANGED <<proofNonce, aggregates>>
  PROVE  ValidityInv'
<1>1. ProofsTied(tipProofs, proofNonce) /\ AggregatesIn(aggregates, tipProofs)
  BY ValidityParts
<1>2. ASSUME NEW i \in DOMAIN tipProofs PROVE Tied(tipProofs'[i], proofNonce)
  <2>1. Tied(tipProofs[i], proofNonce) /\ SameProof(tipProofs[i], tipProofs'[i])
    BY <1>1 DEF ProofsTied
  <2> QED BY <2>1 DEF Tied, SameProof
<1>3. \A i \in DOMAIN tipProofs : tipProofs'[i].sender = tipProofs[i].sender /\ tipProofs'[i].nonce = tipProofs[i].nonce
  BY DEF SameProof
<1>4. ProofsTied(tipProofs', proofNonce')
  BY <1>1, <1>2, <1>3 DEF ProofsTied
<1>5. ASSUME NEW a \in ToSet(aggregates) PROVE Sound(a, tipProofs')
  <2>1. Sound(a, tipProofs)
    BY <1>1 DEF AggregatesIn
  <2>2. \A i \in DOMAIN tipProofs : tipProofs[i].validity \in {"Valid", "Revoked"} => tipProofs'[i].validity \in {"Valid", "Revoked"}
    BY DEF SameProof
  <2> QED BY <2>1, <2>2 DEF Sound
<1>6. AggregatesIn(aggregates', tipProofs')
  BY <1>1, <1>5 DEF AggregatesIn
<1> QED BY <1>4, <1>6, ValidityMade
LEMMA MarkedProof ==
  ASSUME NEW k \in TipProof, NEW s \in {"Pending", "Valid", "Invalid", "Revoked"},
         s = "Revoked" \/ k.validity = "Pending"
  PROVE  [k EXCEPT !.validity = s] \in TipProof /\ SameProof(k, [k EXCEPT !.validity = s])
BY DEF TipProof, SameProof
LEMMA VerifiedProof ==
  ASSUME NEW k \in TipProof, k.validity = "Pending"
  PROVE  Verified(k) \in TipProof /\ SameProof(k, Verified(k))
<1> DEFINE s == IF k.commitment = build_commitment(k.sender, k.creator, k.token, k.amount, k.nonce)
                THEN "Valid" ELSE "Invalid"
<1>1. s \in {"Pending", "Valid", "Invalid", "Revoked"}
  OBVIOUS
<1>2. Verified(k) = [k EXCEPT !.validity = s]
  BY DEF Verified
<1> HIDE DEF s
<1> QED BY <1>1, <1>2, MarkedProof
LEMMA SameProofs ==
  ASSUME NEW k
  PROVE  SameProof(k, k)
BY DEF SameProof
LEMMA OneProofChanged ==
  ASSUME ValidityInv, NEW i \in DOMAIN tipProofs, NEW e \in TipProof, SameProof(tipProofs[i], e),
         tipProofs' = [tipProofs EXCEPT ![i] = e], UNCHANGED <<proofNonce, aggregates>>
  PROVE  ValidityInv'
<1>1. tipProofs \in Seq(TipProof)
  BY ValidityParts DEF ProofsTied
<1>2. /\ tipProofs' \in Seq(TipProof) /\ DOMAIN tipProofs' = DOMAIN tipProofs
      /\ \A j \in DOMAIN tipProofs : tipProofs'[j] = IF j = i THEN e ELSE tipProofs[j]
  BY <1>1, SeqUpdated
<1>3. \A j \in DOMAIN tipProofs : SameProof(tipProofs[j], tipProofs'[j])
  BY <1>2, SameProofs
<1> QED BY <1>2, <1>3, ValidityChanged
LEMMA ProofVerified ==
  ASSUME ValidityInv, NEW i \in DOMAIN tipProofs, vp_verify(i)
  PROVE  ValidityInv'
<1> DEFINE k == tipProofs[i]
<1>1. k \in TipProof
  BY ValidityParts DEF ProofsTied
<1>2. k.validity = "Pending" /\ tipProofs' = [tipProofs EXCEPT ![i] = Verified(k)] /\ UNCHANGED <<proofNonce, aggregates>>
  BY DEF vp_verify
<1>3. Verified(k) \in TipProof /\ SameProof(tipProofs[i], Verified(k))
  BY <1>1, <1>2, VerifiedProof
<1> HIDE DEF k
<1> QED BY <1>2, <1>3, OneProofChanged
LEMMA ProofRevoked ==
  ASSUME ValidityInv, NEW i \in DOMAIN tipProofs, vp_revoke(i)
  PROVE  ValidityInv'
<1> DEFINE k == tipProofs[i]
           e == [k EXCEPT !.validity = "Revoked"]
<1>1. k \in TipProof
  BY ValidityParts DEF ProofsTied
<1>2. tipProofs' = [tipProofs EXCEPT ![i] = e] /\ UNCHANGED <<proofNonce, aggregates>>
  BY DEF vp_revoke
<1>3. e \in TipProof /\ SameProof(tipProofs[i], e)
  BY <1>1, MarkedProof
<1> HIDE DEF e
<1> QED BY <1>2, <1>3, OneProofChanged
LEMMA BatchVerified ==
  ASSUME ValidityInv, NEW ids, vp_batch_verify(ids)
  PROVE  ValidityInv'
<1> DEFINE n == Len(tipProofs)
<1>1. tipProofs \in Seq(TipProof) /\ n \in Nat /\ DOMAIN tipProofs = 1 .. n
  BY ValidityParts DEF ProofsTied
<1>2. /\ \A i \in ToSet(ids) : tipProofs[i].validity = "Pending"
      /\ tipProofs' = [i \in DOMAIN tipProofs |-> IF i \in ToSet(ids) THEN Verified(tipProofs[i]) ELSE tipProofs[i]]
      /\ UNCHANGED <<proofNonce, aggregates>>
  BY DEF vp_batch_verify
<1>3. ASSUME NEW i \in DOMAIN tipProofs PROVE tipProofs'[i] \in TipProof /\ SameProof(tipProofs[i], tipProofs'[i])
  <2>1. tipProofs[i] \in TipProof
    BY <1>1
  <2>2. tipProofs'[i] = IF i \in ToSet(ids) THEN Verified(tipProofs[i]) ELSE tipProofs[i]
    BY <1>2
  <2>3. CASE i \in ToSet(ids)
    BY <1>2, <2>1, <2>2, <2>3, VerifiedProof
  <2>4. CASE i \notin ToSet(ids)
    BY <2>1, <2>2, <2>4, SameProofs
  <2> QED BY <2>3, <2>4
<1>4. DOMAIN tipProofs' = DOMAIN tipProofs /\ tipProofs' = [i \in 1 .. n |-> tipProofs'[i]]
  BY <1>1, <1>2
<1> HIDE DEF n
<1>5. tipProofs' \in Seq(TipProof)
  <2>1. \A i \in 1 .. n : tipProofs'[i] \in TipProof
    BY <1>1, <1>3
  <2> DEFINE f == tipProofs'
  <2>2. n \in Nat /\ f = [i \in 1 .. n |-> f[i]] /\ \A i \in 1 .. n : f[i] \in TipProof
    BY <1>1, <1>4, <2>1
  <2> HIDE DEF f
  <2>3. f \in [1 .. n -> TipProof]
    BY <2>2
  <2>4. f \in Seq(TipProof)
    BY <2>2, <2>3, SeqDef
  <2> QED BY <2>4 DEF f
<1> QED BY <1>2, <1>3, <1>4, <1>5, ValidityChanged
LEMMA ProofGenerated ==
  ASSUME ValidityInv, NEW p \in Party, NEW c \in Party, NEW t \in Token, NEW x \in Nat, vp_generate(p, c, t, x)
  PROVE  ValidityInv'
<1> DEFINE z == proofNonce[p]
           e == [sender |-> p, creator |-> c, token |-> t, amount |-> x, nonce |-> z,
                 commitment |-> build_commitment(p, c, t, x, z), validity |-> "Pending"]
           n == Len(tipProofs)
<1>1. /\ tipProofs \in Seq(TipProof) /\ proofNonce \in [Party -> Nat] /\ z \in Nat
      /\ ProofsTied(tipProofs, proofNonce) /\ AggregatesIn(aggregates, tipProofs)
  BY ValidityParts DEF ProofsTied
<1>2. tipProofs' = Append(tipProofs, e) /\ proofNonce' = [proofNonce EXCEPT ![p] = z + 1] /\ aggregates' = aggregates
  BY DEF vp_generate, bump_nonce
<1>z. z = proofNonce[p]
  OBVIOUS
<1> HIDE DEF z
<1>3. /\ e \in TipProof /\ e.sender = p /\ e.nonce = z
      /\ e.commitment = build_commitment(e.sender, e.creator, e.token, e.amount, e.nonce)
  BY <1>1 DEF TipProof, build_commitment
<1> HIDE DEF e
<1>4. proofNonce' \in [Party -> Nat] /\ (\A q \in Party : proofNonce[q] <= proofNonce'[q]) /\ z < proofNonce'[p]
  BY <1>1, <1>2, <1>z
<1>5. /\ tipProofs' \in Seq(TipProof) /\ DOMAIN tipProofs = 1 .. n /\ DOMAIN tipProofs' = 1 .. n + 1
      /\ (\A j \in DOMAIN tipProofs : tipProofs'[j] = tipProofs[j]) /\ tipProofs'[n + 1] = e /\ n \in Nat
  BY <1>1, <1>2, <1>3, SeqAppended
<1> HIDE DEF n
<1>6. (\A j \in DOMAIN tipProofs' : j \in DOMAIN tipProofs \/ j = n + 1) /\ (\A j \in DOMAIN tipProofs : j \in DOMAIN tipProofs')
  BY <1>5
<1>7. ASSUME NEW j \in DOMAIN tipProofs
      PROVE  Tied(tipProofs[j], proofNonce') /\ (tipProofs[j].sender = p => tipProofs[j].nonce # z)
  <2> DEFINE k == tipProofs[j]
  <2>1. k \in TipProof /\ Tied(k, proofNonce)
    BY <1>1 DEF ProofsTied
  <2> HIDE DEF k
  <2>2. k.sender \in Party /\ k.nonce \in Nat /\ k.nonce < proofNonce[k.sender]
    BY <2>1, TipProofFields DEF Tied
  <2>3. proofNonce[k.sender] \in Nat /\ proofNonce'[k.sender] \in Nat /\ proofNonce[k.sender] <= proofNonce'[k.sender]
    BY <1>1, <1>4, <2>2
  <2>4. k.nonce < proofNonce'[k.sender]
    BY <2>2, <2>3
  <2>5. k.sender = p => k.nonce # z
    BY <1>1, <1>z, <2>2
  <2> QED BY <2>1, <2>4, <2>5 DEF Tied, k
<1>8. Tied(e, proofNonce')
  BY <1>3, <1>4 DEF Tied
<1>9. \A j \in DOMAIN tipProofs' : Tied(tipProofs'[j], proofNonce')
  BY <1>5, <1>6, <1>7, <1>8
<1>10. \A i, j \in DOMAIN tipProofs' :
         tipProofs'[i].sender = tipProofs'[j].sender /\ tipProofs'[i].nonce = tipProofs'[j].nonce => i = j
  BY <1>1, <1>3, <1>5, <1>6, <1>7 DEF ProofsTied
<1>11. ProofsTied(tipProofs', proofNonce')
  BY <1>4, <1>5, <1>9, <1>10 DEF ProofsTied
<1>12. AggregatesIn(aggregates', tipProofs')
  <2> SUFFICES ASSUME NEW a \in ToSet(aggregates) PROVE Sound(a, tipProofs')
    BY <1>1, <1>2 DEF AggregatesIn
  <2>1. Sound(a, tipProofs)
    BY <1>1 DEF AggregatesIn
  <2> QED BY <1>5, <1>6, <2>1 DEF Sound
<1> QED BY <1>11, <1>12, ValidityMade

ListsOf(Ids) == {<<i>> : i \in Ids} \cup (Ids \X Ids)
LEMMA ListOfProofs ==
  ASSUME tipProofs \in Seq(TipProof), NEW Ids, Ids = DOMAIN tipProofs,
         NEW ids \in ListsOf(Ids)
  PROVE  ids \in Seq(Nat) /\ ids \in Seq(Ids) /\ (\A k \in DOMAIN ids : ids[k] \in Ids)
         /\ ToSet(ids) = {ids[k] : k \in DOMAIN ids}
<1>0. Ids \subseteq Nat
  OBVIOUS
<1>1. CASE ids \in {<<i>> : i \in Ids}
  <2>1. PICK i \in Ids : ids = <<i>>
    BY <1>1
  <2> QED BY <1>0, <2>1 DEF ToSet
<1>2. CASE ids \in Ids \X Ids
  <2>1. PICK i \in Ids, j \in Ids : ids = <<i, j>>
    BY <1>2
  <2> QED BY <1>0, <2>1 DEF ToSet
<1> QED BY <1>1, <1>2 DEF ListsOf
\* When as many are valid as there are, all are.
LEMMA AllValid ==
  ASSUME NEW n \in Nat, NEW P, P \subseteq 1 .. n, Cardinality(P) = n
  PROVE  P = 1 .. n
<1>1. IsFiniteSet(1 .. n) /\ Cardinality(1 .. n) = n
  BY FS_Interval
<1> QED BY <1>1, FS_Subset
LEMMA ProofsAggregated ==
  ASSUME ValidityInv, NEW ids \in ListsOf(DOMAIN tipProofs), vp_aggregate(ids)
  PROVE  ValidityInv'
<1> DEFINE Ids == DOMAIN tipProofs
           Revoked == {i \in ToSet(ids) : tipProofs[i].validity = "Revoked"}
           s == IF ValidIn(ids) = Len(ids) THEN "Valid" ELSE "Invalid"
           root == [i \in DOMAIN ids |-> tipProofs[ids[i]].commitment]
           z == ValidIn(ids)
           e == [ids |-> ids, root |-> root, count |-> z, validity |-> s, revoked |-> Revoked]
           C == Party \X Party \X Token \X Nat \X Nat
           n == Len(ids)
           P == {k \in DOMAIN ids : tipProofs[ids[k]].validity = "Valid"}
<1>1. tipProofs \in Seq(TipProof) /\ ProofsTied(tipProofs, proofNonce) /\ AggregatesIn(aggregates, tipProofs)
  BY ValidityParts DEF ProofsTied
<1>2. /\ ids \in Seq(Nat) /\ ids \in Seq(Ids) /\ (\A k \in DOMAIN ids : ids[k] \in Ids)
      /\ ToSet(ids) = {ids[k] : k \in DOMAIN ids}
  BY <1>1, ListOfProofs
<1>3. aggregates' = Append(aggregates, e) /\ tipProofs' = tipProofs /\ proofNonce' = proofNonce
  BY DEF vp_aggregate
<1>4. n \in Nat /\ DOMAIN ids = 1 .. n /\ Ids \subseteq Nat
  BY <1>1, <1>2
<1>5. z = Cardinality(P) /\ P \subseteq 1 .. n
  BY <1>4 DEF ValidIn
<1>6. z \in Nat
  <2> HIDE DEF P, n
  <2>0. IsFiniteSet(1 .. n)
    BY <1>4, FS_Interval
  <2>1. IsFiniteSet(P)
    BY <1>5, <2>0, FS_Subset
  <2> QED BY <1>5, <2>1, FS_CardinalityType
<1>7. root \in Seq(C)
  <2>1. \A k \in DOMAIN ids : tipProofs[ids[k]] \in TipProof
    BY <1>1, <1>2
  <2>2. \A k \in 1 .. n : tipProofs[ids[k]].commitment \in C
    BY <1>4, <2>1, TipProofFields
  <2> HIDE DEF C, n
  <2>3. root \in [1 .. n -> C]
    BY <1>4, <2>2
  <2> HIDE DEF root
  <2> QED BY <1>4, <2>3, SeqDef
<1>8. s \in {"Valid", "Invalid"} /\ Revoked \in SUBSET Nat /\ ToSet(ids) \subseteq Ids
  BY <1>2, <1>4
<1>9. s = "Valid" => \A i \in ToSet(ids) : tipProofs[i].validity = "Valid"
  <2> SUFFICES ASSUME s = "Valid" PROVE \A k \in DOMAIN ids : tipProofs[ids[k]].validity = "Valid"
    BY <1>2
  <2>1. z = n
    OBVIOUS
  <2>2. P = 1 .. n
    <3> HIDE DEF P, n, z
    <3> QED BY <1>4, <1>5, <2>1, AllValid
  <2> QED BY <1>4, <2>2
<1>10. s = "Valid" => Revoked = {}
  BY <1>9
<1> HIDE DEF s, root, z, Revoked
<1>11. e \in Aggregate /\ e.ids = ids /\ e.validity = s /\ e.revoked = Revoked
  BY <1>2, <1>6, <1>7, <1>8 DEF Aggregate
<1> HIDE DEF e
<1>12. Sound(e, tipProofs)
  BY <1>8, <1>9, <1>10, <1>11 DEF Sound
<1>13. aggregates \in Seq(Aggregate) /\ \A a \in ToSet(aggregates) : Sound(a, tipProofs)
  BY <1>1 DEF AggregatesIn
<1>14. aggregates' \in Seq(Aggregate) /\ \A a \in ToSet(aggregates') : a = e \/ a \in ToSet(aggregates)
  BY <1>3, <1>11, <1>13 DEF ToSet
<1>15. AggregatesIn(aggregates', tipProofs')
  BY <1>3, <1>12, <1>13, <1>14 DEF AggregatesIn
<1>16. ProofsTied(tipProofs', proofNonce')
  BY <1>1, <1>3
<1> QED BY <1>15, <1>16, ValidityMade
LEMMA ValidityStep ==
  ASSUME ValidityInv, ValidityNext
  PROVE  ValidityInv'
<1> DEFINE Ids == DOMAIN tipProofs
<1>1. ASSUME NEW p \in Party, NEW c \in Party, NEW t \in Token, NEW x \in Amounts, vp_generate(p, c, t, x)
      PROVE  ValidityInv'
  <2>1. x \in Nat
    BY LedgerAssumption
  <2> QED BY <1>1, <2>1, ProofGenerated
<1>2. ASSUME NEW i \in Ids, vp_verify(i) \/ vp_revoke(i) PROVE ValidityInv'
  BY <1>2, ProofVerified, ProofRevoked
<1>3. ASSUME NEW ids \in ListsOf(DOMAIN tipProofs), vp_batch_verify(ids) \/ vp_aggregate(ids)
      PROVE  ValidityInv'
  BY <1>3, BatchVerified, ProofsAggregated
<1> QED BY <1>1, <1>2, <1>3 DEF ValidityNext, ListsOf

-----------------------------------------------------------------------------
(* Credentials *)

Spent(k, at) == k.status # "Active" \/ (k.expires # None /\ ~(at <= k.expires))
LEMMA CredentialsLapse ==
  ASSUME CredentialsInv, now \in Int, now' \in Int, now <= now', UNCHANGED credentials
  PROVE  /\ CredentialsInv'
         /\ \A i \in DOMAIN credentials : Spent(credentials[i], now) => Spent(credentials'[i], now')
<1>1. CredentialsInv'
  BY DEF CredentialsInv
<1>2. ASSUME NEW i \in DOMAIN credentials, Spent(credentials[i], now) PROVE Spent(credentials[i], now')
  <2> DEFINE k == credentials[i]
             x == k.expires
  <2>1. k \in Credential
    BY DEF CredentialsInv
  <2>2. x \in Int \/ x = None
    BY <2>1 DEF Credential
  <2>3. k.status # "Active" \/ (x # None /\ ~(now <= x))
    BY <1>2 DEF Spent
  <2> HIDE DEF x
  <2>4. k.status # "Active" \/ (x # None /\ ~(now' <= x))
    BY <2>2, <2>3
  <2> QED BY <2>4 DEF Spent, x
<1> QED BY <1>1, <1>2
LEMMA CredentialIssued ==
  ASSUME CredentialsInv, now \in Int, NEW p \in Party, NEW q \in Party, NEW life \in Lifetimes, vc_issue(p, q, life)
  PROVE  CredentialsInv' /\ \A i \in DOMAIN credentials : credentials'[i] = credentials[i]
<1> DEFINE x == IF life = None THEN None ELSE now + life
           e == [issuer |-> p, subject |-> q, status |-> "Active", expires |-> x]
<1>1. x \in Int \cup {None}
  BY IdentityAssumption
<1>2. credentials' = Append(credentials, e)
  BY DEF vc_issue, issue_credential
<1> HIDE DEF x
<1>3. e \in Credential
  BY <1>1 DEF Credential
<1> HIDE DEF e
<1> QED BY <1>2, <1>3, SeqAppended DEF CredentialsInv
LEMMA CredentialRevoked ==
  ASSUME CredentialsInv, NEW p \in Party, NEW j \in DOMAIN credentials, vc_revoke(p, j)
  PROVE  /\ CredentialsInv'
         /\ \A i \in DOMAIN credentials : Spent(credentials[i], now) => Spent(credentials'[i], now)
<1> DEFINE k == credentials[j]
           e == [k EXCEPT !.status = "Revoked"]
<1>1. k \in Credential
  BY DEF CredentialsInv
<1>2. credentials' = [credentials EXCEPT ![j] = e]
  BY DEF vc_revoke, revoke_credential
<1>3. e \in Credential /\ e.status # "Active"
  BY <1>1 DEF Credential
<1> HIDE DEF e
<1>4. CredentialsInv' /\ \A i \in DOMAIN credentials : credentials'[i] = IF i = j THEN e ELSE credentials[i]
  BY <1>2, <1>3, SeqUpdated DEF CredentialsInv
<1> QED BY <1>3, <1>4 DEF Spent
LEMMA CredentialsStep ==
  ASSUME CredentialsInv, now \in Int, DidNext, now' = now
  PROVE  /\ CredentialsInv'
         /\ \A i \in DOMAIN credentials : Spent(credentials[i], now) => Spent(credentials'[i], now')
<1>1. CASE UNCHANGED credentials
  BY <1>1, CredentialsLapse
<1>2. CASE \E p, q \in Party, life \in Lifetimes : vc_issue(p, q, life)
  BY <1>2, CredentialIssued
<1>3. CASE \E p \in Party, i \in DOMAIN credentials : vc_revoke(p, i)
  BY <1>3, CredentialRevoked
<1> QED BY <1>1, <1>2, <1>3 DEF DidNext

-----------------------------------------------------------------------------
(* What one call does to the whole *)

ChannelsMove ==
  \A k \in ChannelId : MovesOn(channels[k], channels'[k]) /\ MovesOn(tipChannels[k], tipChannels'[k])
LEMMA ChannelsParts ==
  /\ ChannelsInv <=> ChannelsOf /\ TipsOf
  /\ ChannelsInv' <=> ChannelsOf' /\ TipsOf'
BY DEF ChannelsInv, ChannelsOf, TipsOf, TipEntriesAddUp, AddsUp, ListsAll, IsOpen
LEMMA Stays ==
  ASSUME NEW c, c = None \/ c.nonce \in Int
  PROVE  MovesOn(c, c)
BY DEF MovesOn
LEMMA AllHold ==
  ASSUME ChannelsInv
  PROVE  /\ Holding(channels) /\ Holding(tipChannels)
         /\ DOMAIN channels = ChannelId /\ DOMAIN tipChannels = ChannelId
         /\ \A k \in ChannelId : MovesOn(channels[k], channels[k]) /\ MovesOn(tipChannels[k], tipChannels[k])
<1>1. ChannelsOf /\ TipsOf
  BY ChannelsParts
<1>2. /\ \A k \in ChannelId : channels[k] = None \/ channels[k] \in Channel
      /\ \A k \in ChannelId : tipChannels[k] = None \/ tipChannels[k] \in TipChannel
      /\ DOMAIN channels = ChannelId /\ DOMAIN tipChannels = ChannelId
  BY <1>1 DEF ChannelsOf, TipsOf
<1>3. ASSUME NEW k \in ChannelId
      PROVE  /\ Held(channels[k]) /\ Held(tipChannels[k])
             /\ MovesOn(channels[k], channels[k]) /\ MovesOn(tipChannels[k], tipChannels[k])
  <2> DEFINE c == channels[k]
             d == tipChannels[k]
  <2>1. (c = None \/ c \in Channel) /\ (d = None \/ d \in TipChannel)
    BY <1>2
  <2> HIDE DEF c, d
  <2>2. (c = None \/ (c.deposit \in Int /\ c.nonce \in Int)) /\ (d = None \/ (d.deposit \in Int /\ d.nonce \in Int))
    BY <2>1, ChannelFields, TipFields
  <2>3. Held(c) /\ Held(d) /\ MovesOn(c, c) /\ MovesOn(d, d)
    BY <2>2, Stays DEF Held
  <2> QED BY <2>3 DEF c, d
<1> QED BY <1>2, <1>3 DEF Holding

StaysBacked == ChannelsInv' /\ ChannelsAccounted' /\ ChannelsMove /\ wallet' \in Wallets
LEMMA PaymentKept ==
  ASSUME wallet \in Wallets, books \in Books, ChannelsInv, ChannelsAccounted, focus' = focus,
         NEW k \in ChannelId, NEW e, ChannelStep(k, e)
  PROVE  StaysBacked
<1>1. /\ channels' = [channels EXCEPT ![k] = e] /\ e \in Channel /\ MovesOn(channels[k], e)
      /\ Gets(wallet, wallet', k.token, HeldIn(e) - HeldIn(channels[k]))
      /\ books' = books /\ tipChannels' = tipChannels
  BY DEF ChannelStep
<1>2. ChannelsOf /\ TipsOf /\ Holding(channels) /\ Holding(tipChannels) /\ DOMAIN channels = ChannelId
  BY ChannelsParts, AllHold
<1>3. Held(e) /\ HeldIn(e) - HeldIn(channels[k]) \in Int
  <2>1. Held(e) /\ Held(channels[k])
    BY <1>1, <1>2, ChannelFields DEF Held, Holding
  <2> QED BY <2>1, HeldType
<1>4. ChannelsOf' /\ TipsOf'
  <2>1. ChannelsOf'
    BY <1>1, <1>2 DEF ChannelsOf
  <2>2. TipsOf'
    BY <1>1, <1>2 DEF TipsOf, AddsUp, IsOpen, ListsAll
  <2> QED BY <2>1, <2>2
<1>5. \A j \in ChannelId : channels'[j] = IF j = k THEN e ELSE channels[j]
  BY <1>1, <1>2
<1>6. ChannelsMove
  BY <1>1, <1>5, AllHold DEF ChannelsMove
<1>7. ChannelsAccounted'
  <2> SUFFICES ASSUME focus # "rollup" PROVE Backed(wallet', books', channels', tipChannels')
    BY AccountedIsBacked
  <2>1. Backed(wallet, books, channels, tipChannels)
    BY AccountedIsBacked
  <2> DEFINE x == HeldIn(e) - HeldIn(channels[k])
             t == k.token
             ds == [channels EXCEPT ![k] = e]
  <2>2. Escrows(channels, ds, t, x)
    BY <1>2, <1>3, ChannelChanged
  <2>3. Gets(wallet, wallet', t, x) /\ x \in Int
    BY <1>1, <1>3
  <2> HIDE DEF x, t, ds
  <2>4. Backed(wallet', books, ds, tipChannels)
    BY <1>2, <2>1, <2>2, <2>3, BackedByPayment
  <2> QED BY <1>1, <2>4 DEF ds
<1>8. wallet' \in Wallets
  BY <1>1 DEF Gets
<1> QED BY <1>4, <1>6, <1>7, <1>8, ChannelsParts DEF StaysBacked
LEMMA TipsKept ==
  ASSUME wallet \in Wallets, books \in Books, ChannelsInv, ChannelsAccounted, focus' = focus,
         NEW k \in ChannelId, NEW e, TipStep(k, e), UNCHANGED <<books, channels>>
  PROVE  StaysBacked
<1>1. /\ tipChannels' = [tipChannels EXCEPT ![k] = e] /\ e \in TipChannel /\ MovesOn(tipChannels[k], e) /\ AddsUp(e)
      /\ Gets(wallet, wallet', k.token, HeldIn(e) - HeldIn(tipChannels[k]))
      /\ books' = books /\ channels' = channels
  BY DEF TipStep
<1>2. ChannelsOf /\ TipsOf /\ Holding(channels) /\ Holding(tipChannels) /\ DOMAIN tipChannels = ChannelId
  BY ChannelsParts, AllHold
<1>3. Held(e) /\ HeldIn(e) - HeldIn(tipChannels[k]) \in Int
  <2>1. Held(e) /\ Held(tipChannels[k])
    BY <1>1, <1>2, TipFields DEF Held, Holding
  <2> QED BY <2>1, HeldType
<1>5. \A j \in ChannelId : tipChannels'[j] = IF j = k THEN e ELSE tipChannels[j]
  BY <1>1, <1>2
<1>4. ChannelsOf' /\ TipsOf'
  <2>1. ChannelsOf'
    BY <1>1, <1>2 DEF ChannelsOf
  <2>2. tipChannels' \in [ChannelId -> TipChannel \cup {None}]
    BY <1>1, <1>2 DEF TipsOf
  <2>3. \A j \in ChannelId : AddsUp(tipChannels'[j])
    BY <1>1, <1>2, <1>5 DEF TipsOf
  <2>4. TipsOf'
    BY <2>2, <2>3 DEF TipsOf, AddsUp, IsOpen, ListsAll
  <2> QED BY <2>1, <2>4
<1>6. ChannelsMove
  BY <1>1, <1>5, AllHold DEF ChannelsMove
<1>7. ChannelsAccounted'
  <2> SUFFICES ASSUME focus # "rollup" PROVE Backed(wallet', books', channels', tipChannels')
    BY AccountedIsBacked
  <2> DEFINE x == HeldIn(e) - HeldIn(tipChannels[k])
             t == k.token
             ds == [tipChannels EXCEPT ![k] = e]
  <2>1. Backed(wallet, books, tipChannels, channels)
    BY <1>2, AccountedIsBacked, BackedTurned
  <2>2. Escrows(tipChannels, ds, t, x)
    BY <1>2, <1>3, ChannelChanged
  <2>3. Gets(wallet, wallet', t, x) /\ x \in Int
    BY <1>1, <1>3
  <2>h. Holding(ds)
    BY <1>1, <1>2, <1>3, <1>5 DEF Holding
  <2> HIDE DEF x, t, ds
  <2>4. Backed(wallet', books, ds, channels)
    BY <1>2, <2>1, <2>2, <2>3, BackedByPayment
  <2>5. Backed(wallet', books, channels, ds)
    BY <1>2, <2>4, <2>h, BackedTurned
  <2> QED BY <1>1, <2>5 DEF ds
<1>8. wallet' \in Wallets
  BY <1>1 DEF Gets
<1> QED BY <1>4, <1>6, <1>7, <1>8, ChannelsParts DEF StaysBacked
LEMMA ChannelsStay ==
  ASSUME ChannelsInv, UNCHANGED <<channels, tipChannels>>
  PROVE  ChannelsInv' /\ ChannelsMove
<1>1. ChannelsInv'
  BY DEF ChannelsInv, TipEntriesAddUp, IsOpen
<1> QED BY <1>1, AllHold DEF ChannelsMove
LEMMA CreditKept ==
  ASSUME wallet \in Wallets, books \in Books, ChannelsInv, ChannelsAccounted, focus' = focus,
         NEW c \in Party, NEW t \in Token, NEW x \in Nat, Gets(wallet, wallet', t, x),
         CreditedAs(books, books', c, t, x), UNCHANGED <<channels, tipChannels>>
  PROVE  StaysBacked
<1>1. Holding(channels) /\ Holding(tipChannels) /\ x \in Int
  BY AllHold
<1>2. ChannelsAccounted'
  <2> SUFFICES ASSUME focus # "rollup" PROVE Backed(wallet', books', channels', tipChannels')
    BY AccountedIsBacked
  <2>1. Backed(wallet, books, channels, tipChannels)
    BY AccountedIsBacked
  <2>2. Backed(wallet', books', channels, tipChannels)
    BY <1>1, <2>1, BackedByCredit
  <2> QED BY <2>2
<1>3. wallet' \in Wallets
  BY DEF Gets
<1> QED BY <1>2, <1>3, ChannelsStay DEF StaysBacked
LEMMA NothingMoves ==
  ASSUME wallet \in Wallets, ChannelsInv, ChannelsAccounted, focus' = focus,
         UNCHANGED <<wallet, books, channels, tipChannels>>
  PROVE  StaysBacked
<1>1. ChannelsAccounted'
  BY AccountedIsBacked
<1> QED BY <1>1, ChannelsStay DEF StaysBacked
LEMMA MetaKept ==
  ASSUME wallet \in Wallets, books \in Books, ChannelsInv, ChannelsAccounted, focus' = focus, MetaInv, MetaNext
  PROVE  StaysBacked /\ MetaInv' /\ books' \in Books
<1>1. MetaInv' /\ MetaStep /\ channels' = channels
  BY ChannelsParts, MetaNextStep
<1>2. CASE UNCHANGED <<wallet, books, tipChannels>>
  BY <1>1, <1>2, NothingMoves
<1>3. CASE (\E k \in ChannelId : \E e : TipStep(k, e)) /\ UNCHANGED books
  BY <1>1, <1>3, TipsKept
<1>4. CASE /\ \E c \in Party, t \in Token, x \in Nat : Gets(wallet, wallet', t, x) /\ CreditedAs(books, books', c, t, x)
           /\ UNCHANGED tipChannels
  <2>1. PICK c \in Party, t \in Token, x \in Nat : Gets(wallet, wallet', t, x) /\ CreditedAs(books, books', c, t, x)
    BY <1>4
  <2>2. StaysBacked
    BY <1>1, <1>4, <2>1, CreditKept
  <2>3. books' \in Books
    BY <2>1 DEF CreditedAs
  <2> QED BY <1>1, <2>2, <2>3
<1> QED BY <1>1, <1>2, <1>3, <1>4 DEF MetaStep

-----------------------------------------------------------------------------
(* Every step *)

CredentialsMove ==
  \A i \in DOMAIN credentials : Spent(credentials[i], now) => Spent(credentials'[i], now')
LEMMA RecordsParts ==
  ASSUME RecordsInv
  PROVE  /\ wallet \in Wallets /\ books \in Books /\ now \in Int /\ now \in 1 .. MaxTime /\ MaxTime \in Int
         /\ ChannelsAccounted /\ ChannelsInv /\ MetaInv /\ RollupInv /\ RevealInv /\ ZkInv /\ ValidityInv
         /\ CredentialsInv
BY LedgerAssumption DEF RecordsInv, LedgerTypeOK
LEMMA CreditsRecorded ==
  /\ CreditsRolledUp <=> CreditsMatch(books.total, submissions)
  /\ CreditsRolledUp' <=> CreditsMatch(books'.total, submissions')
BY DEF CreditsRolledUp, CreditsMatch, Credits, CreditOf
LEMMA LedgerStays ==
  ASSUME RecordsInv, wallet' \in Wallets, books' \in Books, UNCHANGED <<breaker, drift, now>>
  PROVE  LedgerTypeOK'
BY DEF RecordsInv, LedgerTypeOK
LEMMA MetaStays ==
  ASSUME MetaInv, UNCHANGED meta
  PROVE  MetaInv'
BY DEF MetaInv, MetaOnce, RequestsOf
LEMMA RollupStays ==
  ASSUME RollupInv, UNCHANGED rollupVars
  PROVE  RollupInv'
BY RollupParts, RollupPartsNext DEF rollupVars
LEMMA RevealStays ==
  ASSUME RecordsInv, UNCHANGED <<secrets, now>>
  PROVE  RevealInv'
BY RecordsParts, RevealLater
LEMMA ZkStays ==
  ASSUME ZkInv, UNCHANGED zkVars
  PROVE  ZkInv'
BY ZkParts DEF zkVars
LEMMA ValidityStays ==
  ASSUME ValidityInv, UNCHANGED validityVars
  PROVE  ValidityInv'
BY ValidityParts, ValidityMade DEF validityVars
LEMMA CredentialsStay ==
  ASSUME RecordsInv, UNCHANGED <<credentials, now>>
  PROVE  CredentialsInv' /\ CredentialsMove
BY RecordsParts, CredentialsLapse DEF CredentialsMove

\* What a call of one of the libraries leaves alone.
LEMMA OthersStay ==
  ASSUME RecordsInv, UNCHANGED <<proofVars, credentials, now>>
  PROVE  RevealInv' /\ ZkInv' /\ ValidityInv' /\ CredentialsInv' /\ CredentialsMove
<1>1. UNCHANGED <<secrets, now>> /\ UNCHANGED zkVars /\ UNCHANGED validityVars /\ UNCHANGED <<credentials, now>>
  BY DEF proofVars
<1> QED BY <1>1, RecordsParts, RevealStays, ZkStays, ValidityStays, CredentialsStay
LEMMA ChannelCall ==
  ASSUME RecordsInv, PaymentChannelNext \/ TipChannelNext \/ MetaNext, focus' = focus
  PROVE  StaysBacked /\ MetaInv' /\ books' \in Books
<1>1. CASE PaymentChannelNext
  <2>1. PICK k \in ChannelId : \E e : ChannelStep(k, e)
    BY <1>1, RecordsParts, ChannelsParts, PaymentStep
  <2>2. PICK e : ChannelStep(k, e)
    BY <2>1
  <2>3. StaysBacked
    BY <2>2, RecordsParts, PaymentKept
  <2>4. UNCHANGED <<books, meta>>
    BY <2>2 DEF ChannelStep
  <2> QED BY <2>3, <2>4, RecordsParts, MetaStays
<1>2. CASE TipChannelNext
  <2>1. (\E k \in ChannelId : \E e : TipStep(k, e)) /\ UNCHANGED <<books, channels, meta>>
    BY <1>2, RecordsParts, ChannelsParts, TipChannelStep
  <2>2. StaysBacked
    BY <2>1, RecordsParts, TipsKept
  <2> QED BY <2>1, <2>2, RecordsParts, MetaStays
<1>3. CASE MetaNext
  BY <1>3, RecordsParts, MetaKept
<1> QED BY <1>1, <1>2, <1>3

Moved == RecordsInv' /\ ChannelsMove /\ CredentialsMove
LEMMA ChannelCallKeeps ==
  ASSUME RecordsInv, PaymentChannelNext \/ TipChannelNext \/ MetaNext, focus' = focus, focus # "rollup",
         UNCHANGED <<rollupVars, proofVars, credentials, breaker, drift, now>>
  PROVE  Moved
<1>1. StaysBacked /\ MetaInv' /\ books' \in Books
  BY ChannelCall
<1>2. ChannelsInv' /\ ChannelsAccounted' /\ ChannelsMove /\ wallet' \in Wallets
  BY <1>1 DEF StaysBacked
<1>3. LedgerTypeOK'
  BY <1>1, <1>2, LedgerStays
<1>4. RollupInv'
  BY RecordsParts, RollupStays
<1>5. RevealInv' /\ ZkInv' /\ ValidityInv' /\ CredentialsInv' /\ CredentialsMove
  BY OthersStay
<1> QED BY <1>1, <1>2, <1>3, <1>4, <1>5 DEF RecordsInv, Moved
LEMMA RollupCallKeeps ==
  ASSUME RecordsInv, RollupNext, focus' = focus, focus = "rollup",
         UNCHANGED <<wallet, channelVars, proofVars, credentials, breaker, drift, now>>
  PROVE  Moved
<1>1. RollupInv' /\ books' \in Books /\ (CreditsRolledUp => CreditsRolledUp')
  BY RecordsParts, RollupStep, CreditsRecorded DEF RollupSteps
<1>2. ChannelsInv' /\ ChannelsMove /\ MetaInv'
  BY RecordsParts, ChannelsStay, MetaStays DEF channelVars
<1>3. ChannelsAccounted'
  BY DEF ChannelsAccounted
<1>4. LedgerTypeOK'
  BY <1>1, LedgerStays, RecordsParts
<1>5. RevealInv' /\ ZkInv' /\ ValidityInv' /\ CredentialsInv' /\ CredentialsMove
  BY OthersStay
<1>6. CreditsRolledUp'
  BY <1>1 DEF RecordsInv
<1> QED BY <1>1, <1>2, <1>3, <1>4, <1>5, <1>6 DEF RecordsInv, Moved
LEMMA PayingKeeps ==
  ASSUME RecordsInv, Paying, focus' = focus, UNCHANGED <<breaker, drift, now>>
  PROVE  Moved
<1>1. UNCHANGED <<proofVars, credentials>>
  BY DEF Paying, identityVars
<1>2. CASE (PaymentChannelNext \/ TipChannelNext \/ MetaNext) /\ focus # "rollup" /\ UNCHANGED rollupVars
  BY <1>1, <1>2, ChannelCallKeeps
<1>3. CASE RollupNext /\ focus = "rollup" /\ UNCHANGED <<wallet, channelVars>>
  BY <1>1, <1>3, RollupCallKeeps
<1> QED BY <1>2, <1>3 DEF Paying

\* The libraries that only record move no token and write no creator's book.
LEMMA FundsStay ==
  ASSUME RecordsInv, focus' = focus, UNCHANGED <<wallet, books, channelVars, rollupVars, breaker, drift, now>>
  PROVE  /\ LedgerTypeOK' /\ ChannelsAccounted' /\ ChannelsInv' /\ ChannelsMove /\ MetaInv' /\ RollupInv'
         /\ (focus' = "rollup" => CreditsRolledUp')
<1>1. wallet' \in Wallets /\ books' \in Books /\ books' = books /\ submissions' = submissions
  BY RecordsParts DEF rollupVars
<1>2. StaysBacked
  BY RecordsParts, NothingMoves DEF channelVars
<1>3. focus' = "rollup" => CreditsRolledUp'
  BY <1>1, CreditsRecorded DEF RecordsInv
<1>4. MetaInv' /\ RollupInv'
  BY RecordsParts, MetaStays, RollupStays DEF channelVars
<1> QED BY <1>1, <1>2, <1>3, <1>4, LedgerStays DEF StaysBacked
LEMMA ProofsKeep ==
  ASSUME RecordsInv, UNCHANGED <<credentials, now>>,
         \/ RevealNext /\ UNCHANGED <<zkVars, validityVars>>
         \/ ZkNext /\ UNCHANGED <<secrets, validityVars>>
         \/ ValidityNext /\ UNCHANGED <<secrets, zkVars>>
  PROVE  RevealInv' /\ ZkInv' /\ ValidityInv' /\ CredentialsInv' /\ CredentialsMove
<1>0. CredentialsInv' /\ CredentialsMove
  BY CredentialsStay
<1>1. CASE RevealNext /\ UNCHANGED <<zkVars, validityVars>>
  BY <1>0, <1>1, RecordsParts, RevealStep, ZkStays, ValidityStays
<1>2. CASE ZkNext /\ UNCHANGED <<secrets, validityVars>>
  BY <1>0, <1>2, RecordsParts, RevealStays, ZkStep, ValidityStays
<1>3. CASE ValidityNext /\ UNCHANGED <<secrets, zkVars>>
  BY <1>0, <1>3, RecordsParts, RevealStays, ZkStays, ValidityStep
<1> QED BY <1>1, <1>2, <1>3
LEMMA DidsKeep ==
  ASSUME RecordsInv, UNCHANGED <<proofVars, now>>, DidNext
  PROVE  RevealInv' /\ ZkInv' /\ ValidityInv' /\ CredentialsInv' /\ CredentialsMove
<1>1. UNCHANGED <<secrets, now>> /\ UNCHANGED zkVars /\ UNCHANGED validityVars
  BY DEF proofVars
<1> QED BY <1>1, RecordsParts, RevealStays, ZkStays, ValidityStays, CredentialsStep DEF CredentialsMove
LEMMA RecordingCases ==
  ASSUME Recording
  PROVE  \/ UNCHANGED <<proofVars, credentials>>
         \/ UNCHANGED credentials /\ RevealNext /\ UNCHANGED <<zkVars, validityVars>>
         \/ UNCHANGED credentials /\ ZkNext /\ UNCHANGED <<secrets, validityVars>>
         \/ UNCHANGED credentials /\ ValidityNext /\ UNCHANGED <<secrets, zkVars>>
         \/ UNCHANGED proofVars /\ DidNext
<1>1. UNCHANGED identityVars => UNCHANGED credentials
  BY DEF identityVars
<1>2. RepTokenNext \/ NftNext \/ RecoveryNext \/ DisputeNext => UNCHANGED credentials
  BY Zenon DEF RepTokenNext, NftNext, RecoveryNext, DisputeNext
<1> QED BY <1>1, <1>2, Zenon DEF Recording
LEMMA RecordingKeeps ==
  ASSUME RecordsInv, Recording, focus' = focus, UNCHANGED <<breaker, drift, now>>
  PROVE  Moved
<1>1. UNCHANGED <<wallet, books, channelVars, rollupVars>>
  BY Zenon DEF Recording
<1>2. RevealInv' /\ ZkInv' /\ ValidityInv' /\ CredentialsInv' /\ CredentialsMove
  BY RecordingCases, OthersStay, ProofsKeep, DidsKeep
<1> QED BY <1>1, <1>2, FundsStay DEF RecordsInv, Moved
LEMMA TickKeeps ==
  ASSUME RecordsInv, Tick, focus' = focus, UNCHANGED <<channelVars, rollupVars, proofVars, credentials>>
  PROVE  Moved
<1>1. now < MaxTime /\ now' = now + 1 /\ UNCHANGED <<wallet, books, breaker, drift>>
  BY DEF Tick
<1>2. now \in Int /\ now' \in Int /\ now <= now' /\ now' \in 1 .. MaxTime
  BY <1>1, RecordsParts
<1>3. LedgerTypeOK'
  BY <1>1, <1>2 DEF RecordsInv, LedgerTypeOK
<1>4. StaysBacked /\ MetaInv' /\ RollupInv'
  BY <1>1, RecordsParts, NothingMoves, MetaStays, RollupStays DEF channelVars
<1>5. focus' = "rollup" => CreditsRolledUp'
  BY <1>1, CreditsRecorded DEF RecordsInv, rollupVars
<1>6. RevealInv' /\ ZkInv' /\ ValidityInv'
  BY <1>2, RecordsParts, RevealLater, ZkStays, ValidityStays DEF proofVars
<1>7. CredentialsInv' /\ CredentialsMove
  BY <1>2, RecordsParts, CredentialsLapse DEF CredentialsMove
<1> QED BY <1>3, <1>4, <1>5, <1>6, <1>7 DEF RecordsInv, Moved, StaysBacked
LEMMA StepKeeps ==
  ASSUME RecordsInv, [Next]_vars
  PROVE  Moved
<1>1. CASE UNCHANGED vars
  <2>1. /\ focus' = focus /\ UNCHANGED <<wallet, books, channelVars, rollupVars, breaker, drift, now>>
        /\ UNCHANGED <<proofVars, credentials, now>>
    BY <1>1 DEF vars, ledgerVars, identityVars
  <2> QED BY <2>1, FundsStay, OthersStay DEF RecordsInv, Moved
<1>2. CASE Next
  <2>1. focus' = focus
    BY <1>2, Zenon DEF Next
  <2>2. CASE (Paying \/ Recording) /\ UNCHANGED <<adminVars, breaker, drift, now>>
    BY <2>1, <2>2, PayingKeeps, RecordingKeeps
  <2>3. CASE Tick /\ UNCHANGED <<breakerLibVars, channelVars, rollupVars, proofVars, sharesVars, shardVars, identityVars>>
    <3>1. UNCHANGED credentials
      BY <2>3 DEF identityVars
    <3> QED BY <2>1, <2>3, <3>1, TickKeeps
  <2> QED BY <1>2, <2>2, <2>3, Zenon DEF Next
<1> QED BY <1>1, <1>2

-----------------------------------------------------------------------------
\* At the start nothing is held, listed or asked for.
LEMMA StartsTyped ==
  ASSUME LedgerInit
  PROVE  LedgerTypeOK
<1>1. wallet \in Wallets
  BY LedgerAssumption DEF LedgerInit, Wallets, Account
<1>2. books \in Books
  BY DEF LedgerInit, Books, PerParty, PerToken
<1>3. breaker \in {None} \cup BreakerStates /\ now \in 1 .. MaxTime /\ drift \in Drifts
  BY LedgerAssumption DEF LedgerInit, Drifts, PerToken
<1> QED BY <1>1, <1>2, <1>3 DEF LedgerTypeOK
LEMMA NothingEscrowed ==
  ASSUME NEW cs, \A k \in ChannelId : cs[k] = None, NEW t
  PROVE  EscrowOf(cs, t) = 0
<1> DEFINE f == [k \in ChannelId |-> IF k.token = t THEN HeldIn(cs[k]) ELSE 0]
<1>1. \A k \in ChannelId : HeldIn(cs[k]) = 0
  BY DEF HeldIn
<1>2. f \in [ChannelId -> Int] /\ \A k \in ChannelId : f[k] = 0
  BY <1>1
<1>3. EscrowOf(cs, t) = SumFunction(f)
  BY DEF EscrowOf
<1> HIDE DEF f
<1> QED BY <1>2, <1>3, FiniteChannels, SumZero
LEMMA StartsAccounted ==
  ASSUME LedgerInit, ChannelsInit
  PROVE  ChannelsAccounted
<1> SUFFICES ASSUME NEW t \in Token PROVE wallet[t][Jar] = Recorded(t) + ChannelEscrow(t)
  BY DEF ChannelsAccounted
<1>1. wallet[t][Jar] = 0
  BY DEF LedgerInit
<1>2. SumFunction([c \in Party |-> books.balance[c][t]]) = 0 /\ books.fees[t] = 0 /\ books.reserves[t] = 0
  <2> DEFINE f == [c \in Party |-> books.balance[c][t]]
  <2>1. f \in [Party -> Int] /\ (\A c \in Party : f[c] = 0) /\ books.fees[t] = 0 /\ books.reserves[t] = 0
    BY DEF LedgerInit, PerParty, PerToken
  <2> QED BY <2>1, SumZero, LedgerAssumption
<1>3. Recorded(t) = 0
  BY <1>2 DEF Recorded, RecordedIn
<1>4. (\A k \in ChannelId : channels[k] = None) /\ (\A k \in ChannelId : tipChannels[k] = None)
  BY DEF ChannelsInit
<1>5. EscrowOf(channels, t) = 0 /\ EscrowOf(tipChannels, t) = 0
  BY <1>4, NothingEscrowed
<1> QED BY <1>1, <1>3, <1>5 DEF ChannelEscrow
LEMMA StartsInOrder ==
  ASSUME ChannelsInit
  PROVE  ChannelsInv /\ MetaInv
<1>1. ChannelsInv
  BY DEF ChannelsInit, ChannelsInv, TipEntriesAddUp, IsOpen
<1>2. meta.relayers = {} /\ meta.nonce = PerParty(0) /\ meta.consumed = {} /\ meta.records = <<>>
  BY DEF ChannelsInit
<1>3. meta \in Meta
  BY DEF ChannelsInit, Meta, PerParty
<1>4. \A p : RequestsOf(<<>>, p, Len(<<>>)) = {}
  BY DEF RequestsOf
<1>5. MetaOnce
  BY <1>2, <1>4, FS_EmptySet DEF MetaOnce, PerParty
<1> QED BY <1>1, <1>3, <1>5 DEF MetaInv
LEMMA StartsUncredited ==
  ASSUME LedgerInit, RollupInit
  PROVE  RollupInv /\ CreditsRolledUp
<1>1. /\ rollup \in Rollup /\ rollup.counter = 0 /\ rollup.pending = 0
      /\ batches \in [1 .. MaxBatch -> Batch \cup {None}] /\ submissions = <<>>
      /\ \A i \in 1 .. MaxBatch : batches[i] = None
  BY RollupAssumption DEF RollupInit, Rollup
<1>2. PendingUpTo(rollup.counter) = {}
  BY <1>1 DEF PendingUpTo
<1>3. rollup.pending <= Cardinality(PendingUpTo(rollup.counter))
  <2>1. Cardinality(PendingUpTo(rollup.counter)) = 0
    BY <1>2, FS_EmptySet, Zenon
  <2> QED BY <1>1, <2>1
<1>4. RollupInv
  BY <1>1, <1>3 DEF RollupInv
<1>5. ASSUME NEW c \in Party, NEW t \in Token
      PROVE  books.total[c][t] = SumFunction([k \in DOMAIN submissions |-> CreditOf(submissions[k], c, t)])
  <2> DEFINE f == [k \in DOMAIN submissions |-> CreditOf(submissions[k], c, t)]
  <2>1. f \in [{} -> Int]
    BY <1>1
  <2>2. books.total[c][t] = 0
    BY DEF LedgerInit, PerParty, PerToken
  <2> HIDE DEF f
  <2>3. SumFunction(f) = 0
    BY <2>1, SumEmpty
  <2> QED BY <2>2, <2>3 DEF f
<1> QED BY <1>4, <1>5 DEF CreditsRolledUp
LEMMA StartsUnproved ==
  ASSUME ProofsInit, IdentityInit
  PROVE  RevealInv /\ ZkInv /\ ValidityInv /\ CredentialsInv
<1>1. RevealInv
  BY DEF ProofsInit, RevealInv
<1>2. ZkInv
  BY DEF ProofsInit, ZkInv, NullifierOnce
<1>3. proofNonce \in [Party -> Nat] /\ tipProofs = <<>> /\ aggregates = <<>> /\ ToSet(aggregates) = {}
  BY DEF ProofsInit, PerParty, ToSet
<1>4. ValidityInv
  BY <1>3 DEF ValidityInv, AggregatesSound
<1>5. CredentialsInv
  BY DEF IdentityInit, CredentialsInv
<1> QED BY <1>1, <1>2, <1>4, <1>5
LEMMA InitSound ==
  ASSUME Init
  PROVE  RecordsInv
<1>1. LedgerInit /\ ChannelsInit /\ RollupInit /\ ProofsInit /\ IdentityInit
  BY DEF Init
<1> QED BY <1>1, StartsTyped, StartsAccounted, StartsInOrder, StartsUncredited, StartsUnproved DEF RecordsInv

-----------------------------------------------------------------------------
\* The invariant of the libraries that move tokens, open what was committed to or show
\* credentials: it ties each record to the ones it was made from.
THEOREM RecordsAlwaysTied == Spec => []RecordsInv
<1>1. Init => RecordsInv
  BY InitSound
<1>2. RecordsInv /\ [Next]_vars => RecordsInv'
  BY StepKeeps DEF Moved
<1> QED BY <1>1, <1>2, PTL DEF Spec

LEMMA CreditedOnce ==
  ASSUME RollupInv, CreditsRolledUp
  PROVE  RollupCreditsOnce
<1>1. /\ rollup \in Rollup /\ \A k \in DOMAIN submissions : SubmissionSound(submissions[k])
      /\ rollup.pending <= Cardinality(PendingUpTo(rollup.counter))
  BY DEF RollupInv
<1> DEFINE n == rollup.counter
           S == PendingIn(batches, n)
           T == PendingIn(batches, MaxBatch)
<1>2. n \in Int /\ n <= MaxBatch /\ MaxBatch \in Int /\ rollup.pending \in Int
  BY <1>1, RollupAssumption DEF Rollup
<1>3. PendingUpTo(rollup.counter) = S /\ PendingUpTo(MaxBatch) = T
  BY DEF PendingUpTo, PendingIn
<1>4. S \in SUBSET T
  BY <1>2 DEF PendingIn
<1>5. IsFiniteSet(T) /\ Cardinality(T) \in Nat /\ Cardinality(S) \in Nat
  BY <1>2, PendingFinite
<1> HIDE DEF n, S, T
<1>6. Cardinality(S) <= Cardinality(T)
  BY <1>4, <1>5, FS_Subset
<1>7. rollup.pending <= Cardinality(PendingUpTo(MaxBatch))
  BY <1>1, <1>2, <1>3, <1>5, <1>6
<1> QED BY <1>1, <1>7 DEF RollupCreditsOnce, CreditsRolledUp

\* What is done once is done once, and when it is due: no close, dispute or settlement of a
\* channel pays out of another's deposit; the tips listed for a channel add up to what its
\* tipper agreed to; a sender's requests run once and in order, whichever relayers submit
\* them; a rollup batch is credited once, after its challenge period, even when its number
\* is used again; no value is revealed while others can still commit; a nullifier serves
\* one proof; and a valid aggregate holds valid proofs only.
THEOREM AlwaysOnceAndInTime == Spec => []OnceAndInTime
<1>1. RecordsInv => OnceAndInTime
  <2> SUFFICES ASSUME RecordsInv PROVE OnceAndInTime
    OBVIOUS
  <2>1. TipEntriesAddUp /\ MetaOnce /\ NullifierOnce /\ AggregatesSound /\ ChannelsAccounted
    BY RecordsParts DEF ChannelsInv, MetaInv, ZkInv, ValidityInv
  <2>2. focus = "rollup" => RollupCreditsOnce
    BY RecordsParts, CreditedOnce DEF RecordsInv
  <2>3. PhasesApart
    BY RecordsParts, PhasesFollow
  <2> QED BY <2>1, <2>2, <2>3 DEF OnceAndInTime
<1> QED BY <1>1, RecordsAlwaysTied, PTL

\* What is over stays over: a channel that was paid out is never touched again, a dispute is
\* only answered by a newer claim within its window, and a credential that was revoked or
\* has expired never verifies again.
THEOREM AlwaysOneWay == Spec => OneWay
<1>1. RecordsInv /\ [Next]_vars =>
        [\A k \in ChannelId : MovesOn(channels[k], channels'[k]) /\ MovesOn(tipChannels[k], tipChannels'[k])]_channelVars
  BY StepKeeps DEF Moved, ChannelsMove
<1>2. RecordsInv /\ [Next]_vars =>
        [\A i \in DOMAIN credentials :
           ~verify_credential(credentials[i]) => ~verify_credential(credentials[i])']_<<credentials, now>>
  BY StepKeeps DEF Moved, CredentialsMove, Spent, verify_credential
<1> QED BY <1>1, <1>2, RecordsAlwaysTied, PTL DEF Spec, OneWay, ChannelsOneWay, CredentialsOneWay

-----------------------------------------------------------------------------
\* The enhanced breaker.

\* The tips that count from a time on, when one more is accepted and when none is left.
LEMMA TipAccepted ==
  ASSUME NEW s \in Seq(Tip), NEW x \in Nat, NEW t \in Nat, NEW u \in Nat, t <= u
  PROVE  LET r == Append(s, [time |-> u, amount |-> x])
         IN  VolumeSince(r, t) = VolumeSince(s, t) + x /\ CountSince(r, t) = CountSince(s, t) + 1
<1> DEFINE e == [time |-> u, amount |-> x]
           r == Append(s, e)
           n == Len(s)
           f == [k \in DOMAIN s |-> IF s[k].time >= t THEN s[k].amount ELSE 0]
           g == [k \in DOMAIN r |-> IF r[k].time >= t THEN r[k].amount ELSE 0]
           A == {k \in DOMAIN s : s[k].time >= t}
           B == {k \in DOMAIN r : r[k].time >= t}
<1>1. e \in Tip /\ e.time = u /\ e.amount = x
  BY DEF Tip
<1>2. \A k \in DOMAIN s : s[k].time \in Nat /\ s[k].amount \in Nat
  <2>1. \A k \in DOMAIN s : s[k] \in Tip
    OBVIOUS
  <2> QED BY <2>1 DEF Tip
<1> HIDE DEF e
<1>3. /\ DOMAIN s = 1 .. n /\ DOMAIN r = 1 .. n + 1 /\ n \in Nat
      /\ (\A j \in DOMAIN s : r[j] = s[j]) /\ r[n + 1] = e
  BY <1>1, SeqAppended
<1> HIDE DEF r, n
<1>4. f \in [1 .. n -> Int] /\ g \in [1 .. n + 1 -> Int] /\ (\A k \in 1 .. n : g[k] = f[k]) /\ g[n + 1] = x
  <2>1. \A k \in 1 .. n : f[k] \in Int /\ g[k] = f[k]
    BY <1>2, <1>3
  <2>2. g[n + 1] = x
    BY <1>1, <1>3
  <2>3. \A k \in 1 .. n + 1 : k \in 1 .. n \/ k = n + 1
    BY <1>3
  <2>4. f \in [DOMAIN s -> Int] /\ g \in [DOMAIN r -> Int]
    <3>1. \A k \in DOMAIN r : (IF r[k].time >= t THEN r[k].amount ELSE 0) \in Int
      BY <1>1, <1>2, <1>3, <2>3
    <3>2. \A k \in DOMAIN s : (IF s[k].time >= t THEN s[k].amount ELSE 0) \in Int
      BY <1>2
    <3> QED BY <3>1, <3>2
  <2> HIDE DEF f, g
  <2> QED BY <1>3, <2>1, <2>2, <2>4
<1>5. B = A \cup {n + 1} /\ n + 1 \notin A /\ A \in SUBSET (1 .. n)
  BY <1>1, <1>3
<1> HIDE DEF f, g, A, B
<1>6. SumFunction(g) = SumFunction(f) + x
  BY <1>3, <1>4, SumAppend
<1>7. Cardinality(B) = Cardinality(A) + 1
  <2>1. IsFiniteSet(1 .. n)
    BY <1>3, FS_Interval
  <2>2. IsFiniteSet(A)
    BY <1>5, <2>1, FS_Subset
  <2> QED BY <1>5, <2>2, FS_AddElement
<1>8. VolumeSince(r, t) = VolumeSince(s, t) + x
  BY <1>6 DEF VolumeSince, f, g
<1>9. CountSince(r, t) = CountSince(s, t) + 1
  BY <1>7 DEF CountSince, A, B
<1> QED BY <1>8, <1>9 DEF r, e

LEMMA NoneSince ==
  ASSUME NEW s \in Seq(Tip), NEW t \in Nat, \A k \in DOMAIN s : s[k].time < t
  PROVE  VolumeSince(s, t) = 0 /\ CountSince(s, t) = 0
<1> DEFINE D == DOMAIN s
           f == [k \in D |-> IF s[k].time >= t THEN s[k].amount ELSE 0]
           A == {k \in D : s[k].time >= t}
<1>1. \A k \in DOMAIN s : s[k].time \in Nat /\ ~(s[k].time >= t)
  <2>1. \A k \in DOMAIN s : s[k] \in Tip
    OBVIOUS
  <2> QED BY <2>1 DEF Tip
<1>2. f \in [D -> Int] /\ (\A k \in D : f[k] = 0) /\ A = {}
  BY <1>1
<1>3. IsFiniteSet(D)
  BY FiniteList
<1> HIDE DEF D, f, A
<1>4. SumFunction(f) = 0
  BY <1>2, <1>3, SumZero
<1>5. Cardinality(A) = 0
  BY <1>2, FS_EmptySet, Zenon
<1> QED BY <1>4, <1>5 DEF VolumeSince, CountSince, D, f, A

LEMMA CountType ==
  ASSUME NEW s \in Seq(Tip), NEW t
  PROVE  CountSince(s, t) \in Nat
<1> DEFINE D == DOMAIN s
           A == {k \in D : s[k].time >= t}
<1>1. IsFiniteSet(D) /\ A \in SUBSET D
  BY FiniteList
<1> HIDE DEF D, A
<1>2. Cardinality(A) \in Nat
  BY <1>1, FS_Subset, FS_CardinalityType
<1> QED BY <1>2 DEF CountSince, D, A

-----------------------------------------------------------------------------
\* The cooldown.  A product that is scaled down a few times is a natural number.
LEMMA Scaled ==
  ASSUME NEW x \in Nat, NEW m \in Nat
  PROVE  (x * m) \div Bps \in Nat
<1>1. x * m \in Nat /\ Bps \in Nat \ {0}
  BY Product, LedgerAssumption
<1> DEFINE y == x * m
<1> HIDE DEF y
<1>2. y \div Bps \in Nat
  BY <1>1 DEF y
<1> QED BY <1>2 DEF y

Growth(x, m, f) == [k \in 0 .. 5 |-> IF k = 0 THEN x ELSE (f[k - 1] * m) \div Bps]
LEMMA BackoffType ==
  ASSUME NEW x \in Nat, NEW m \in Nat, NEW n \in Nat
  PROVE  Backoff(x, m, n) \in Nat
<1> DEFINE g == CHOOSE f : f = Growth(x, m, f)
           Next1(v) == (v * m) \div Bps
           a1 == Next1(x)
           a2 == Next1(a1)
           a3 == Next1(a2)
           a4 == Next1(a3)
           a5 == Next1(a4)
           h == [k \in 0 .. 5 |-> IF k = 0 THEN x ELSE IF k = 1 THEN a1 ELSE IF k = 2 THEN a2
                                  ELSE IF k = 3 THEN a3 ELSE IF k = 4 THEN a4 ELSE a5]
<1>1. \A v \in Nat : Next1(v) \in Nat
  BY Scaled
<1>2. a1 \in Nat /\ a2 \in Nat /\ a3 \in Nat /\ a4 \in Nat /\ a5 \in Nat
  <2> HIDE DEF Next1
  <2> QED BY <1>1
<1>3. h = Growth(x, m, h)
  <2>1. a1 = Next1(x) /\ a2 = Next1(a1) /\ a3 = Next1(a2) /\ a4 = Next1(a3) /\ a5 = Next1(a4)
    OBVIOUS
  <2>2. \A v : Next1(v) = (v * m) \div Bps
    OBVIOUS
  <2> HIDE DEF a1, a2, a3, a4, a5, Next1
  <2>3. ASSUME NEW k \in 0 .. 5
        PROVE  h[k] = IF k = 0 THEN x ELSE Next1(h[k - 1])
    <3>1. k = 0 \/ k = 1 \/ k = 2 \/ k = 3 \/ k = 4 \/ k = 5
      OBVIOUS
    <3>2. h[0] = x /\ h[1] = a1 /\ h[2] = a2 /\ h[3] = a3 /\ h[4] = a4 /\ h[5] = a5
      OBVIOUS
    <3> HIDE DEF h
    <3> QED BY <2>1, <3>1, <3>2
  <2>4. h = [k \in 0 .. 5 |-> h[k]]
    OBVIOUS
  <2> HIDE DEF h
  <2>5. h = [k \in 0 .. 5 |-> IF k = 0 THEN x ELSE Next1(h[k - 1])]
    BY <2>3, <2>4
  <2> QED BY <2>2, <2>5 DEF Growth
<1>4. g = Growth(x, m, g)
  <2> HIDE DEF h
  <2> QED BY <1>3
<1> HIDE DEF g, h
<1>5. \A k \in 0 .. 5 : g[k] = IF k = 0 THEN x ELSE (g[k - 1] * m) \div Bps
  BY <1>4 DEF Growth
<1>6. g[0] \in Nat
  BY <1>5
<1>7. \A k \in 1 .. 5 : g[k - 1] \in Nat => g[k] \in Nat
  <2> TAKE k \in 1 .. 5
  <2>1. g[k] = (g[k - 1] * m) \div Bps
    BY <1>5
  <2> QED BY <2>1, Scaled
<1>8. g[1] \in Nat /\ g[2] \in Nat /\ g[3] \in Nat /\ g[4] \in Nat /\ g[5] \in Nat
  <2>1. 1 - 1 = 0 /\ 2 - 1 = 1 /\ 3 - 1 = 2 /\ 4 - 1 = 3 /\ 5 - 1 = 4
    OBVIOUS
  <2>2. g[1] \in Nat
    BY <1>6, <1>7, <2>1
  <2>3. g[2] \in Nat
    BY <2>2, <1>7, <2>1
  <2>4. g[3] \in Nat
    BY <2>3, <1>7, <2>1
  <2>5. g[4] \in Nat
    BY <2>4, <1>7, <2>1
  <2> QED BY <2>2, <2>3, <2>4, <2>5, <1>7, <2>1
<1>9. Smaller(n, 5) \in 0 .. 5
  BY DEF Smaller
<1>10. g[Smaller(n, 5)] \in Nat
  <2> DEFINE k == Smaller(n, 5)
  <2>1. k = 0 \/ k = 1 \/ k = 2 \/ k = 3 \/ k = 4 \/ k = 5
    <3> HIDE DEF k
    <3> QED BY <1>9 DEF k
  <2> HIDE DEF k
  <2> QED BY <1>6, <1>8, <2>1 DEF k
<1>11. Backoff(x, m, n) = g[Smaller(n, 5)]
  BY DEF Backoff, g, Growth
<1> QED BY <1>10, <1>11

LEMMA CooldownBounded ==
  ASSUME NEW c \in Checked, NEW severity, NEW n \in Nat
  PROVE  LET d == calculate_cooldown(c, severity, n)
         IN  d \in Nat /\ c.base <= d /\ d <= c.max /\ d > 0
<1>1. c.base \in Nat /\ c.max \in Nat /\ c.base # 0 /\ c.base <= c.max /\ c.backoff \in {None} \cup Nat
  BY DEF Checked, Config, validate
<1> DEFINE x == SeverityBase(c, severity)
           y == IF c.backoff # None /\ n > 0 THEN Backoff(x, c.backoff, n) ELSE x
<1>2. x \in Nat
  <2> DEFINE b == c.base
  <2>1. b \div 2 \in Nat /\ b * 2 \in Nat /\ b * 4 \in Nat /\ b \in Nat
    <3> HIDE DEF b
    <3>1. b \in Nat
      BY <1>1 DEF b
    <3> QED BY <3>1
  <2> QED BY <2>1 DEF SeverityBase
<1> HIDE DEF x
<1>3. y \in Nat
  <2>1. CASE c.backoff # None /\ n > 0
    BY <1>1, <1>2, <2>1, BackoffType
  <2>2. CASE ~(c.backoff # None /\ n > 0)
    BY <1>2, <2>2
  <2> QED BY <2>1, <2>2
<1>4. calculate_cooldown(c, severity, n) = Larger(c.base, Smaller(c.max, y))
  BY DEF calculate_cooldown, x
<1> HIDE DEF y
<1> QED BY <1>1, <1>3, <1>4 DEF Larger, Smaller

-----------------------------------------------------------------------------
\* What the calls make of a state.
LEMMA StateFields ==
  ASSUME NEW s \in State
  PROVE  /\ s.halted_until \in Nat /\ s.reason \in TriggerType /\ s.severity \in TriggerSeverity
         /\ s.windows \in [TimeWindow -> VolumeWindow] /\ s.rate \in [start : Nat, tips : Nat]
         /\ s.rate.start \in Nat /\ s.rate.tips \in Nat
         /\ s.triggers \in Nat /\ s.last \in Nat /\ s.halts \in Nat /\ s.duration \in Nat
         /\ \A w \in TimeWindow : s.windows[w] \in VolumeWindow
BY DEF State
LEMMA WindowFields ==
  ASSUME NEW v \in VolumeWindow
  PROVE  v.start \in Nat /\ v.volume \in Nat /\ v.tips \in Nat /\ v.largest \in Nat
BY DEF VolumeWindow
LEMMA CheckedFields ==
  ASSUME NEW c \in Checked
  PROVE  /\ c.max_single \in Nat /\ c.max_tips \in Nat /\ c.base \in Nat /\ c.max \in Nat
         /\ c.threshold \in [TimeWindow -> Nat] /\ c.base > 0
         /\ \A w \in TimeWindow : c.threshold[w] \in Nat
<1>1. c \in Config /\ validate(c)
  BY DEF Checked
<1>2. c.threshold \in [TimeWindow -> Int] /\ c.max_single \in Int /\ c.max_tips \in Nat /\ c.base \in Nat /\ c.max \in Nat
  BY <1>1 DEF Config
<1> DEFINE v == c.threshold
<1>3. \A w \in TimeWindow : v[w] \in Nat
  <2>1. /\ v["OneMinute"] \in Int /\ v["FiveMinutes"] \in Int /\ v["OneHour"] \in Int /\ v["TwentyFourHours"] \in Int
    BY <1>2 DEF TimeWindow
  <2>2. /\ 0 < v["OneMinute"] /\ v["OneMinute"] <= v["FiveMinutes"]
        /\ v["FiveMinutes"] <= v["OneHour"] /\ v["OneHour"] <= v["TwentyFourHours"]
    BY <1>1 DEF validate
  <2> HIDE DEF v
  <2> QED BY <2>1, <2>2 DEF TimeWindow
<1>4. v \in [TimeWindow -> Nat]
  <2> HIDE DEF v
  <2>1. v \in [TimeWindow -> Int]
    BY <1>2 DEF v
  <2> QED BY <1>3, <2>1
<1>5. c.max_single > 0 /\ c.base # 0
  BY <1>1 DEF validate
<1> HIDE DEF v
<1>6. c.max_single \in Nat /\ c.base > 0
  BY <1>2, <1>5
<1> QED BY <1>2, <1>3, <1>4, <1>6 DEF v

LEMMA NewWindow ==
  ASSUME NEW t \in Nat
  PROVE  /\ EmptyWindow(t) \in VolumeWindow
         /\ EmptyWindow(t).start = t /\ EmptyWindow(t).volume = 0 /\ EmptyWindow(t).tips = 0
BY DEF EmptyWindow, VolumeWindow
LEMMA EmptyFields ==
  ASSUME NEW t \in Nat
  PROVE  /\ [w \in TimeWindow |-> EmptyWindow(t)] \in [TimeWindow -> VolumeWindow]
         /\ [start |-> t, tips |-> 0] \in [start : Nat, tips : Nat]
BY NewWindow
LEMMA NewFields ==
  ASSUME NEW t \in Nat
  PROVE  /\ new(t) \in State /\ new(t).windows = [w \in TimeWindow |-> EmptyWindow(t)]
         /\ new(t).rate = [start |-> t, tips |-> 0] /\ new(t).halted_until = 0
<1> DEFINE ws == [w \in TimeWindow |-> EmptyWindow(t)]
           ra == [start |-> t, tips |-> 0]
<1>1. ws \in [TimeWindow -> VolumeWindow] /\ ra \in [start : Nat, tips : Nat]
  BY EmptyFields
<1> HIDE DEF ws, ra
<1>2. new(t) = [halted_until |-> 0, reason |-> "None", severity |-> "None",
                windows |-> ws, rate |-> ra, triggers |-> 0, last |-> 0, halts |-> 0, duration |-> 0]
  BY DEF new, ws, ra
<1>3. new(t) \in State /\ new(t).windows = ws /\ new(t).rate = ra /\ new(t).halted_until = 0
  BY <1>1, <1>2 DEF State, TriggerType, TriggerSeverity
<1> QED BY <1>3 DEF ws, ra
LEMMA RecoveredFields ==
  ASSUME NEW s \in State, NEW t \in Nat
  PROVE  LET r == perform_automatic_recovery(s, t)
         IN  /\ r \in State /\ r.windows = [w \in TimeWindow |-> EmptyWindow(t)]
             /\ r.rate = [start |-> t, tips |-> 0] /\ r.halted_until = 0
<1> DEFINE ws == [w \in TimeWindow |-> EmptyWindow(t)]
           ra == [start |-> t, tips |-> 0]
           a == [s EXCEPT !.halted_until = 0, !.reason = "None", !.severity = "None"]
           b == [a EXCEPT !.windows = ws]
           r == [b EXCEPT !.rate = ra]
<1>1. ws \in [TimeWindow -> VolumeWindow] /\ ra \in [start : Nat, tips : Nat]
  BY EmptyFields
<1>2. perform_automatic_recovery(s, t) = r
  BY DEF perform_automatic_recovery, reset_rate_limit_state, reset_volume_counters
<1> HIDE DEF ws, ra
<1>3. r \in State /\ r.windows = ws /\ r.rate = ra /\ r.halted_until = 0
  BY <1>1 DEF State, TriggerType, TriggerSeverity
<1> HIDE DEF r
<1> QED BY <1>2, <1>3 DEF ws, ra
LEMMA RateFields ==
  ASSUME NEW s \in State, NEW t \in Nat
  PROVE  LET r == update_rate_limit_state(s, t)
             over == t >= s.rate.start + Spans["OneMinute"]
         IN  /\ r \in State /\ r.windows = s.windows /\ r.halted_until = s.halted_until
             /\ r.reason = s.reason /\ r.last = s.last
             /\ r.rate.start = (IF over THEN t ELSE s.rate.start)
             /\ r.rate.tips = (IF over THEN 1 ELSE s.rate.tips + 1)
<1> DEFINE o == s.rate
           ra == IF t >= o.start + Spans["OneMinute"] THEN [start |-> t, tips |-> 1] ELSE [start |-> o.start, tips |-> o.tips + 1]
           r == [s EXCEPT !.rate = ra]
<1>0. update_rate_limit_state(s, t) = r
  BY DEF update_rate_limit_state
<1>1. o \in [start : Nat, tips : Nat]
  BY StateFields
<1>2. /\ ra \in [start : Nat, tips : Nat]
      /\ ra.start = (IF t >= o.start + Spans["OneMinute"] THEN t ELSE o.start)
      /\ ra.tips = (IF t >= o.start + Spans["OneMinute"] THEN 1 ELSE o.tips + 1)
  <2> HIDE DEF o
  <2> QED BY <1>1
<1> HIDE DEF ra
<1>3. /\ r \in State /\ r.windows = s.windows /\ r.halted_until = s.halted_until
      /\ r.reason = s.reason /\ r.last = s.last /\ r.rate = ra
  BY <1>2 DEF State
<1> HIDE DEF r
<1> QED BY <1>0, <1>2, <1>3
LEMMA ActivatedFields ==
  ASSUME NEW s \in State, NEW c \in Checked, NEW reason \in TriggerType, NEW severity \in TriggerSeverity,
         NEW t \in Nat
  PROVE  LET r == activate_halt(s, c, reason, severity, t)
         IN  /\ r \in State /\ r.windows = s.windows /\ r.rate = s.rate /\ r.reason = reason /\ r.last = t
             /\ r.halted_until > 0
             /\ c.base <= r.halted_until - r.last /\ r.halted_until - r.last <= c.max
<1> DEFINE d == calculate_cooldown(c, severity, s.triggers)
           until == t + d
           n == s.triggers + 1
           m == s.halts + 1
           e == s.duration + d
           r == [s EXCEPT !.halted_until = until, !.reason = reason, !.severity = severity,
                          !.triggers = n, !.last = t, !.halts = m, !.duration = e]
<1>0. activate_halt(s, c, reason, severity, t) = r
  BY DEF activate_halt
<1>1. d \in Nat /\ c.base <= d /\ d <= c.max /\ d > 0
  BY StateFields, CooldownBounded
<1>2. c.base \in Nat /\ c.max \in Nat
  BY CheckedFields
<1> HIDE DEF d
<1>3. until \in Nat /\ n \in Nat /\ m \in Nat /\ e \in Nat
  BY <1>1, StateFields
<1> HIDE DEF until, n, m, e
<1>4. /\ r \in State /\ r.windows = s.windows /\ r.rate = s.rate /\ r.reason = reason /\ r.last = t
      /\ r.halted_until = until
  BY <1>3 DEF State
<1> HIDE DEF r
<1> QED BY <1>0, <1>1, <1>2, <1>4 DEF until
Extends(v, x, t, span, r) ==
  /\ t >= v.start + span => r.start = t /\ r.volume = x /\ r.tips = 1
  /\ ~(t >= v.start + span) => r.start = v.start /\ r.volume = v.volume + x /\ r.tips = v.tips + 1
LEMMA WindowUpdated ==
  ASSUME NEW v \in VolumeWindow, NEW x \in Nat, NEW t \in Nat, NEW span \in Nat
  PROVE  LET r == update_volume_window(v, x, t, span)
         IN  /\ r \in VolumeWindow
             /\ Extends(v, x, t, span, r)
<1>1. v.start \in Nat /\ v.volume \in Nat /\ v.tips \in Nat /\ v.largest \in Nat
  BY WindowFields
<1>2. CASE t >= v.start + span
  <2>1. update_volume_window(v, x, t, span) = [start |-> t, volume |-> x, tips |-> 1, largest |-> x]
    BY <1>2 DEF update_volume_window
  <2> QED BY <1>2, <2>1 DEF VolumeWindow, Extends
<1>3. CASE ~(t >= v.start + span)
  <2> DEFINE y == v.volume + x
             n == v.tips + 1
             l == Larger(v.largest, x)
             r == [v EXCEPT !.volume = y, !.tips = n, !.largest = l]
  <2>1. update_volume_window(v, x, t, span) = r
    BY <1>3 DEF update_volume_window
  <2>2. y \in Nat /\ n \in Nat /\ l \in Nat
    BY <1>1 DEF Larger
  <2> HIDE DEF y, n, l
  <2>3. r \in VolumeWindow /\ r.start = v.start /\ r.volume = y /\ r.tips = n
    BY <2>2 DEF VolumeWindow
  <2> HIDE DEF r
  <2> QED BY <1>3, <2>1, <2>3 DEF y, n, Extends
<1> QED BY <1>2, <1>3
LEMMA WindowsFields ==
  ASSUME NEW s \in State, NEW x \in Nat, NEW t \in Nat
  PROVE  LET r == update_all_windows(s, x, t)
         IN  /\ r \in State /\ r.halted_until = s.halted_until /\ r.rate = s.rate /\ r.reason = s.reason
             /\ \A w \in TimeWindow : r.windows[w] = update_volume_window(s.windows[w], x, t, Spans[w])
<1> DEFINE ws == [w \in TimeWindow |-> update_volume_window(s.windows[w], x, t, Spans[w])]
           r == [s EXCEPT !.windows = ws]
<1>0. update_all_windows(s, x, t) = r
  BY DEF update_all_windows
<1>1. ASSUME NEW w \in TimeWindow PROVE update_volume_window(s.windows[w], x, t, Spans[w]) \in VolumeWindow
  <2>1. s.windows[w] \in VolumeWindow
    BY StateFields
  <2>2. Spans[w] \in Nat
    BY BreakerAssumption
  <2> QED BY <2>1, <2>2, WindowUpdated
<1>2. ws \in [TimeWindow -> VolumeWindow]
  BY <1>1
<1>3. \A w \in TimeWindow : ws[w] = update_volume_window(s.windows[w], x, t, Spans[w])
  OBVIOUS
<1> HIDE DEF ws
<1>4. r \in State /\ r.halted_until = s.halted_until /\ r.rate = s.rate /\ r.reason = s.reason /\ r.windows = ws
  BY <1>2 DEF State
<1> HIDE DEF r
<1> QED BY <1>0, <1>3, <1>4

-----------------------------------------------------------------------------
\* The counts of a state that is new, halted, or has accepted another tip.
LEMMA TipTimes ==
  ASSUME NEW h \in History
  PROVE  h.tips \in Seq(Tip) /\ h.extended \in Nat /\ \A k \in DOMAIN h.tips : h.tips[k] \in Tip /\ h.tips[k].time \in Nat
<1>1. h.tips \in Seq(Tip) /\ h.extended \in Nat
  BY DEF History
<1>2. \A k \in DOMAIN h.tips : h.tips[k] \in Tip
  BY <1>1
<1>3. \A k \in DOMAIN h.tips : h.tips[k].time \in Nat
  BY <1>2 DEF Tip
<1> QED BY <1>1, <1>2, <1>3
LEMMA EmptySound ==
  ASSUME now \in Nat, NEW c \in Checked, NEW s \in State, NEW h \in History, h.tips = <<>>,
         s.windows = [w \in TimeWindow |-> EmptyWindow(now)], s.rate = [start |-> now, tips |-> 0],
         s.halted_until = 0
  PROVE  Counts(s, c, h, now) /\ HaltSound(s, c, h)
<1>1. \A k \in DOMAIN h.tips : h.tips[k].time < now
  OBVIOUS
<1>2. VolumeSince(h.tips, now) = 0 /\ CountSince(h.tips, now) = 0
  BY <1>1, TipTimes, NoneSince
<1>3. \A span : Before(h.tips, now, span)
  BY DEF Before
<1>4. s.rate.start = now /\ s.rate.tips = 0
  OBVIOUS
<1>5. ASSUME NEW w \in TimeWindow
      PROVE  /\ s.windows[w].start = now /\ s.windows[w].volume = 0 /\ s.windows[w].tips = 0
             /\ s.windows[w].volume <= c.threshold[w] + c.max_single
  <2>1. s.windows[w] = EmptyWindow(now)
    OBVIOUS
  <2>2. s.windows[w].start = now /\ s.windows[w].volume = 0 /\ s.windows[w].tips = 0
    BY <2>1, NewWindow
  <2>3. c.threshold[w] \in Nat /\ c.max_single \in Nat
    BY CheckedFields
  <2> QED BY <2>2, <2>3
<1>6. Counts(s, c, h, now)
  BY <1>2, <1>3, <1>4, <1>5 DEF Counts
<1>7. HaltSound(s, c, h)
  BY <1>2, <1>4 DEF HaltSound
<1> QED BY <1>6, <1>7
LEMMA CountsAs ==
  ASSUME NEW s, NEW r, NEW c, NEW g, NEW h, Counts(s, c, h, now), r.windows = s.windows, r.rate = s.rate, g.tips = h.tips
  PROVE  Counts(r, c, g, now)
BY DEF Counts
LEMMA ActivatedSound ==
  ASSUME now \in Nat, NEW c \in Checked, NEW s \in State, NEW h \in History, Counts(s, c, h, now),
         NEW reason \in TriggerType, reason # "None", NEW severity \in TriggerSeverity
  PROVE  LET r == activate_halt(s, c, reason, severity, now)
             g == [h EXCEPT !.extended = 0]
         IN  r \in State /\ g \in History /\ g.tips = h.tips /\ Counts(r, c, g, now) /\ HaltSound(r, c, g)
<1> DEFINE r == activate_halt(s, c, reason, severity, now)
           g == [h EXCEPT !.extended = 0]
<1>1. /\ r \in State /\ r.windows = s.windows /\ r.rate = s.rate /\ r.reason = reason /\ r.last = now
      /\ r.halted_until > 0
      /\ c.base <= r.halted_until - r.last /\ r.halted_until - r.last <= c.max
  BY ActivatedFields
<1>2. g \in History /\ g.tips = h.tips /\ g.extended = 0
  BY DEF History
<1> HIDE DEF r, g
<1>3. Counts(r, c, g, now)
  BY <1>1, <1>2, CountsAs
<1>4. HaltSound(r, c, g)
  <2>1. r.halted_until \in Nat /\ r.last \in Nat
    BY <1>1, StateFields
  <2> QED BY <1>1, <1>2, <2>1 DEF HaltSound
<1> QED BY <1>1, <1>2, <1>3, <1>4 DEF r, g
LEMMA RateCounted ==
  ASSUME now \in Nat, NEW c \in Checked, NEW s \in State, NEW h \in History, Counts(s, c, h, now),
         \A k \in DOMAIN h.tips : h.tips[k].time <= now
  PROVE  Counts(update_rate_limit_state(s, now), c, h, now)
<1> DEFINE r == update_rate_limit_state(s, now)
<1>1. /\ r \in State /\ r.windows = s.windows
      /\ (r.rate.start = now \/ r.rate.start = s.rate.start)
  BY RateFields
<1> HIDE DEF r
<1>2. Before(h.tips, r.rate.start, Spans["OneMinute"]) /\ r.rate.start <= now
  <2>1. CASE r.rate.start = s.rate.start
    BY <2>1 DEF Counts
  <2>2. CASE r.rate.start = now
    <3>1. Spans["OneMinute"] \in Nat \ {0}
      BY BreakerAssumption DEF TimeWindow
    <3>2. \A k \in DOMAIN h.tips : h.tips[k].time \in Nat /\ h.tips[k].time < now + Spans["OneMinute"]
      <4>1. \A k \in DOMAIN h.tips : h.tips[k].time \in Nat
        BY TipTimes
      <4> DEFINE n == Spans["OneMinute"]
      <4> HIDE DEF n
      <4>2. n \in Nat \ {0}
        BY <3>1 DEF n
      <4> QED BY <4>1, <4>2 DEF n
    <3> QED BY <2>2, <3>2 DEF Before
  <2> QED BY <1>1, <2>1, <2>2
<1>3. Counts(r, c, h, now)
  BY <1>1, <1>2 DEF Counts
<1> QED BY <1>3 DEF r
LEMMA WindowHit ==
  ASSUME NEW s, NEW c, NEW t
  PROVE  LET over == {k \in 1 .. 4 : check_volume_threshold(s.windows[ShortestFirst[k]], c.threshold[ShortestFirst[k]], t,
                                                            Spans[ShortestFirst[k]])}
             hit == check_all_volume_thresholds(s, c, t)
         IN  /\ over = {} <=> hit = None
             /\ hit # None => hit \in Trigger /\ hit.reason # "None"
<1> DEFINE Exceeds(w) == check_volume_threshold(s.windows[w], c.threshold[w], t, Spans[w])
           over == {k \in 1 .. 4 : Exceeds(ShortestFirst[k])}
           w1 == ShortestFirst[Min(over)]
           e == [reason |-> w1, severity |-> WindowSeverity[w1]]
<1>1. check_all_volume_thresholds(s, c, t) = IF over = {} THEN None ELSE e
  BY DEF check_all_volume_thresholds
<1>2. over # {} => e \in Trigger /\ e.reason # "None"
  <2> HIDE DEF Exceeds
  <2>1. over \in SUBSET Nat /\ over \in SUBSET (1 .. 4)
    OBVIOUS
  <2> HIDE DEF over
  <2>2. over # {} => Min(over) \in over
    BY <2>1, LeastNat DEF Min
  <2>3. \A k \in 1 .. 4 : ShortestFirst[k] \in TimeWindow
    BY DEF ShortestFirst, TimeWindow
  <2>4. over # {} => w1 \in TimeWindow
    BY <2>1, <2>2, <2>3
  <2> HIDE DEF w1
  <2> QED BY <2>4 DEF Trigger, WindowSeverity, TriggerType, TriggerSeverity, TimeWindow
<1>3. e \in Trigger => e # None
  BY BreakerAssumption
<1> HIDE DEF e, over
<1>4. /\ over = {} <=> check_all_volume_thresholds(s, c, t) = None
      /\ check_all_volume_thresholds(s, c, t) # None =>
           e \in Trigger /\ e.reason # "None" /\ check_all_volume_thresholds(s, c, t) = e
  BY <1>1, <1>2, <1>3
<1> QED BY <1>4 DEF over
LEMMA NothingOver ==
  ASSUME NEW s, NEW c, NEW t, check_all_volume_thresholds(s, c, t) = None
  PROVE  \A w \in TimeWindow : ~check_volume_threshold(s.windows[w], c.threshold[w], t, Spans[w])
<1> DEFINE Exceeds(w) == check_volume_threshold(s.windows[w], c.threshold[w], t, Spans[w])
<1>1. \A k \in 1 .. 4 : ~Exceeds(ShortestFirst[k])
  BY WindowHit
<1> HIDE DEF Exceeds
<1>2. /\ ShortestFirst[1] = "OneMinute" /\ ShortestFirst[2] = "FiveMinutes"
      /\ ShortestFirst[3] = "OneHour" /\ ShortestFirst[4] = "TwentyFourHours"
  BY DEF ShortestFirst
<1>3. ~Exceeds("OneMinute") /\ ~Exceeds("FiveMinutes") /\ ~Exceeds("OneHour") /\ ~Exceeds("TwentyFourHours")
  BY <1>1, <1>2
<1>4. \A w \in TimeWindow : ~Exceeds(w)
  BY <1>3 DEF TimeWindow
<1> QED BY <1>4 DEF Exceeds

\* One window, and the rate limit, when a tip is accepted.
LEMMA WindowCounts ==
  ASSUME NEW t \in Nat, NEW tips \in Seq(Tip), \A k \in DOMAIN tips : tips[k].time <= t,
         NEW v \in VolumeWindow, NEW span \in Nat \ {0}, NEW x \in Nat, NEW limit \in Nat, NEW most \in Nat,
         v.volume = VolumeSince(tips, v.start), v.tips = CountSince(tips, v.start),
         Before(tips, v.start, span), v.start <= t, x <= most,
         ~check_volume_threshold(v, limit, t, span)
  PROVE  LET r == update_volume_window(v, x, t, span)
             more == Append(tips, [time |-> t, amount |-> x])
         IN  /\ r.volume = VolumeSince(more, r.start) /\ r.tips = CountSince(more, r.start)
             /\ Before(more, r.start, span) /\ r.start <= t /\ r.volume <= limit + most
<1> DEFINE r == update_volume_window(v, x, t, span)
           e == [time |-> t, amount |-> x]
           more == Append(tips, e)
<1>1. v.start \in Nat /\ v.volume \in Nat /\ v.tips \in Nat
  BY WindowFields
<1>2. /\ t >= v.start + span => r.start = t /\ r.volume = x /\ r.tips = 1
      /\ ~(t >= v.start + span) => r.start = v.start /\ r.volume = v.volume + x /\ r.tips = v.tips + 1
  <2>1. span \in Nat
    OBVIOUS
  <2>2. Extends(v, x, t, span, r)
    BY <2>1, WindowUpdated
  <2> HIDE DEF r
  <2> QED BY <2>2 DEF Extends
<1>3. \A u \in Nat : u <= t => VolumeSince(more, u) = VolumeSince(tips, u) + x /\ CountSince(more, u) = CountSince(tips, u) + 1
  BY TipAccepted
<1>4. e \in Tip /\ e.time = t
  BY DEF Tip
<1>5. \A k \in DOMAIN tips : tips[k].time \in Nat
  <2>1. \A k \in DOMAIN tips : tips[k] \in Tip
    OBVIOUS
  <2> QED BY <2>1 DEF Tip
<1>6. \A k \in DOMAIN more :
        more[k].time \in Nat /\ more[k].time <= t /\ (more[k].time = t \/ \E j \in DOMAIN tips : more[k].time = tips[j].time)
  <2> HIDE DEF e
  <2>1. /\ DOMAIN tips = 1 .. Len(tips) /\ DOMAIN more = 1 .. Len(tips) + 1 /\ Len(tips) \in Nat
        /\ (\A j \in DOMAIN tips : more[j] = tips[j]) /\ more[Len(tips) + 1] = e
    BY <1>4, SeqAppended
  <2> HIDE DEF more
  <2>2. \A k \in DOMAIN more : k \in DOMAIN tips \/ k = Len(tips) + 1
    BY <2>1
  <2> QED BY <1>4, <1>5, <2>1, <2>2
<1> HIDE DEF r, e, more
<1>7. CASE t >= v.start + span
  <2>1. \A k \in DOMAIN tips : tips[k].time < t
    <3> TAKE k \in DOMAIN tips
    <3>1. tips[k].time < v.start + span /\ tips[k].time \in Nat
      BY <1>5 DEF Before
    <3> DEFINE u == tips[k].time
    <3> HIDE DEF u
    <3>2. u < v.start + span /\ u \in Nat
      BY <3>1 DEF u
    <3>3. u < t
      BY ONLY <1>1, <1>7, <3>2, t \in Nat, span \in Nat \ {0}
    <3> QED BY <3>3 DEF u
  <2>2. VolumeSince(tips, t) = 0 /\ CountSince(tips, t) = 0
    BY <2>1, NoneSince
  <2>3. r.start = t /\ r.volume = x /\ r.tips = 1
    BY <1>2, <1>7
  <2>4. VolumeSince(more, t) = x /\ CountSince(more, t) = 1
    BY <1>3, <2>2
  <2>5. Before(more, t, span)
    BY <1>6 DEF Before
  <2> QED BY <2>3, <2>4, <2>5 DEF r, more, e
<1>8. CASE ~(t >= v.start + span)
  <2>1. r.start = v.start /\ r.volume = v.volume + x /\ r.tips = v.tips + 1
    BY <1>2, <1>8
  <2>2. t < v.start + span
    BY <1>1, <1>8
  <2>3. v.volume <= limit
    BY <1>1, <2>2 DEF check_volume_threshold
  <2>4. Before(more, v.start, span)
    <3>1. \A k \in DOMAIN tips : tips[k].time < v.start + span
      BY DEF Before
    <3> QED BY <1>6, <2>2, <3>1 DEF Before
  <2>5. VolumeSince(more, v.start) = v.volume + x /\ CountSince(more, v.start) = v.tips + 1
    BY <1>1, <1>3
  <2>6. v.volume + x <= limit + most
    BY <1>1, <2>3
  <2>7. /\ r.volume = VolumeSince(more, r.start) /\ r.tips = CountSince(more, r.start)
        /\ Before(more, r.start, span) /\ r.start <= t /\ r.volume <= limit + most
    BY <2>1, <2>4, <2>5, <2>6
  <2> QED BY <2>7 DEF r, more, e
<1> QED BY <1>7, <1>8

LEMMA AcceptedSound ==
  ASSUME now \in Nat, NEW c \in Checked, NEW s \in State, NEW h \in History, Counts(s, c, h, now), HaltSound(s, c, h),
         \A k \in DOMAIN h.tips : h.tips[k].time <= now, s.halted_until = 0,
         NEW x \in Nat, x <= c.max_single,
         check_all_volume_thresholds(update_rate_limit_state(s, now), c, now) = None
  PROVE  LET r == batch_state_updates(update_rate_limit_state(s, now), x)
             g == [h EXCEPT !.tips = Append(@, [time |-> now, amount |-> x])]
         IN  /\ r \in State /\ g \in History /\ Counts(r, c, g, now) /\ HaltSound(r, c, g)
             /\ \A k \in DOMAIN g.tips : g.tips[k].time <= now
<1> DEFINE a == update_rate_limit_state(s, now)
           b == update_all_windows(a, x, now)
           r == update_rate_limit_state(b, now)
           e == [time |-> now, amount |-> x]
           more == Append(h.tips, e)
           g == [h EXCEPT !.tips = more]
           n == Spans["OneMinute"]
<1>0. r = batch_state_updates(a, x) /\ g = [h EXCEPT !.tips = Append(@, [time |-> now, amount |-> x])]
  BY DEF batch_state_updates
<1>1. /\ a \in State /\ a.windows = s.windows /\ a.halted_until = s.halted_until
      /\ a.rate.start = (IF now >= s.rate.start + n THEN now ELSE s.rate.start)
      /\ a.rate.tips = (IF now >= s.rate.start + n THEN 1 ELSE s.rate.tips + 1)
  BY RateFields
<1>2. \A w \in TimeWindow : ~check_volume_threshold(a.windows[w], c.threshold[w], now, Spans[w])
  BY NothingOver
<1> HIDE DEF a
<1>3. /\ b \in State /\ b.halted_until = a.halted_until /\ b.rate = a.rate
      /\ \A w \in TimeWindow : b.windows[w] = update_volume_window(a.windows[w], x, now, Spans[w])
  BY <1>1, WindowsFields
<1> HIDE DEF b
<1>4. /\ r \in State /\ r.windows = b.windows /\ r.halted_until = b.halted_until
      /\ r.rate.start = (IF now >= b.rate.start + n THEN now ELSE b.rate.start)
      /\ r.rate.tips = (IF now >= b.rate.start + n THEN 1 ELSE b.rate.tips + 1)
  BY <1>3, RateFields
<1> HIDE DEF r
<1>5. h.tips \in Seq(Tip) /\ \A k \in DOMAIN h.tips : h.tips[k].time \in Nat
  BY TipTimes
<1>6. e \in Tip /\ e.time = now
  BY DEF Tip
<1> HIDE DEF e
<1>7. /\ more \in Seq(Tip)
      /\ \A k \in DOMAIN more :
           more[k].time \in Nat /\ more[k].time <= now
           /\ (more[k].time = now \/ \E j \in DOMAIN h.tips : more[k].time = h.tips[j].time)
  <2>1. /\ more \in Seq(Tip)
        /\ DOMAIN h.tips = 1 .. Len(h.tips) /\ DOMAIN more = 1 .. Len(h.tips) + 1 /\ Len(h.tips) \in Nat
        /\ (\A j \in DOMAIN h.tips : more[j] = h.tips[j]) /\ more[Len(h.tips) + 1] = e
    BY <1>5, <1>6, SeqAppended
  <2> HIDE DEF more
  <2>2. \A k \in DOMAIN more : k \in DOMAIN h.tips \/ k = Len(h.tips) + 1
    BY <2>1
  <2> QED BY <1>5, <1>6, <2>1, <2>2
<1>8. \A u \in Nat : u <= now => CountSince(more, u) = CountSince(h.tips, u) + 1
  BY <1>5, TipAccepted DEF e
<1>9. \A w \in TimeWindow :
        /\ r.windows[w].volume = VolumeSince(more, r.windows[w].start)
        /\ r.windows[w].tips = CountSince(more, r.windows[w].start)
        /\ Before(more, r.windows[w].start, Spans[w])
        /\ r.windows[w].start <= now
        /\ r.windows[w].volume <= c.threshold[w] + c.max_single
  <2> TAKE w \in TimeWindow
  <2> DEFINE v == s.windows[w]
             span == Spans[w]
             limit == c.threshold[w]
             most == c.max_single
  <2>1. /\ v.volume = VolumeSince(h.tips, v.start) /\ v.tips = CountSince(h.tips, v.start)
        /\ Before(h.tips, v.start, span) /\ v.start <= now
    BY DEF Counts
  <2>2. v \in VolumeWindow /\ span \in Nat \ {0} /\ limit \in Nat /\ most \in Nat /\ x <= most
    BY StateFields, CheckedFields, BreakerAssumption
  <2>3. ~check_volume_threshold(v, limit, now, span)
    BY <1>1, <1>2
  <2>4. r.windows[w] = update_volume_window(v, x, now, span)
    BY <1>1, <1>3, <1>4
  <2> HIDE DEF v, span, limit, most
  <2>5. LET q == update_volume_window(v, x, now, span)
            all == Append(h.tips, [time |-> now, amount |-> x])
        IN  /\ q.volume = VolumeSince(all, q.start) /\ q.tips = CountSince(all, q.start)
            /\ Before(all, q.start, span) /\ q.start <= now /\ q.volume <= limit + most
    BY <1>5, <2>1, <2>2, <2>3, WindowCounts
  <2> QED BY <2>4, <2>5 DEF v, span, limit, most, more, e
<1>10. g \in History /\ g.tips = more
  <2> HIDE DEF more
  <2> QED BY <1>7 DEF History
<1>11. n \in Nat \ {0} /\ s.rate.start \in Nat /\ s.rate.tips \in Nat /\ s.rate.start <= now /\ Before(h.tips, s.rate.start, n)
  BY StateFields, BreakerAssumption DEF TimeWindow, Counts
<1>12. s.rate.tips = 2 * CountSince(h.tips, s.rate.start)
  BY DEF HaltSound
<1> HIDE DEF n, more, g
<1>13. /\ r.rate.tips = 2 * CountSince(more, r.rate.start)
       /\ Before(more, r.rate.start, n) /\ r.rate.start <= now
  <2> DEFINE u == s.rate.start
  <2>1. CASE now >= u + n
    <3>1. \A k \in DOMAIN h.tips : h.tips[k].time < now
      <4> TAKE k \in DOMAIN h.tips
      <4>1. h.tips[k].time < u + n /\ h.tips[k].time \in Nat /\ u \in Nat /\ n \in Nat
        BY <1>5, <1>11 DEF Before
      <4> DEFINE y == h.tips[k].time
      <4> HIDE DEF y, u
      <4>2. y < u + n /\ y \in Nat /\ u \in Nat /\ n \in Nat /\ now >= u + n
        BY <2>1, <4>1 DEF y
      <4>3. y < now
        BY ONLY <4>2, now \in Nat
      <4> QED BY <4>3 DEF y
    <3>2. CountSince(h.tips, now) = 0
      BY <1>5, <3>1, NoneSince
    <3>3. a.rate.start = now /\ a.rate.tips = 1
      BY <1>1, <2>1
    <3>4. ~(now >= now + n)
      BY <1>11
    <3>5. r.rate.start = now /\ r.rate.tips = 2
      BY <1>3, <1>4, <3>3, <3>4
    <3>6. CountSince(more, now) = 1
      BY <1>8, <3>2
    <3>7. Before(more, now, n)
      BY <1>7, <1>11 DEF Before
    <3> QED BY <3>5, <3>6, <3>7
  <2>2. CASE ~(now >= u + n)
    <3>1. a.rate.start = u /\ a.rate.tips = s.rate.tips + 1
      BY <1>1, <2>2
    <3>2. r.rate.start = u /\ r.rate.tips = s.rate.tips + 1 + 1
      BY <1>3, <1>4, <2>2, <3>1
    <3>3. CountSince(more, u) = CountSince(h.tips, u) + 1 /\ CountSince(h.tips, u) \in Nat
      BY <1>5, <1>8, <1>11, CountType
    <3>4. Before(more, u, n)
      <4>1. \A k \in DOMAIN h.tips : h.tips[k].time < u + n
        BY <1>11 DEF Before
      <4>2. now < u + n
        BY <1>11, <2>2
      <4> QED BY <1>7, <4>1, <4>2 DEF Before
    <3> DEFINE m == CountSince(h.tips, u)
               l == CountSince(more, u)
    <3> HIDE DEF m, l
    <3>5. r.rate.tips = 2 * l
      <4>1. s.rate.tips = 2 * m /\ l = m + 1 /\ m \in Nat
        BY <1>12, <3>3 DEF m, l
      <4> QED BY <3>2, <4>1
    <3> QED BY <1>11, <3>2, <3>4, <3>5 DEF l
  <2> QED BY <2>1, <2>2
<1>14. r.halted_until = 0
  BY <1>1, <1>3, <1>4
<1>15. Counts(r, c, g, now)
  BY <1>9, <1>10, <1>13 DEF Counts, n
<1>16. HaltSound(r, c, g)
  BY <1>10, <1>13, <1>14 DEF HaltSound
<1>17. \A k \in DOMAIN g.tips : g.tips[k].time <= now
  BY <1>7, <1>10
<1> QED BY <1>0, <1>4, <1>10, <1>15, <1>16, <1>17 DEF a

-----------------------------------------------------------------------------
\* The calls.
LEMMA GuardParts ==
  ASSUME GuardInv
  PROVE  /\ settings \in Settings /\ past \in History /\ (\A k \in DOMAIN past.tips : past.tips[k].time <= now)
         /\ (halt = None => past.tips = <<>>)
         /\ (halt # None => /\ halt \in State /\ settings.cached # None
                            /\ Counts(halt, settings.cached, past, now) /\ HaltSound(halt, settings.cached, past))
BY DEF GuardInv
LEMMA SettingsFields ==
  ASSUME settings \in Settings
  PROVE  /\ settings.entry \in {None} \cup Checked /\ settings.stored \in {None} \cup Checked
         /\ settings.cached \in {None} \cup Checked
         /\ settings.creators \in [Party -> {None} \cup Int] /\ settings.tokens \in [Token -> {None} \cup Int]
         /\ \A c \in {None} \cup Checked :
              /\ [settings EXCEPT !.entry = c] \in Settings
              /\ [settings EXCEPT !.stored = c] \in Settings
              /\ [settings EXCEPT !.cached = c] \in Settings
              /\ [settings EXCEPT !.entry = c].cached = settings.cached
              /\ [settings EXCEPT !.stored = c].cached = settings.cached
              /\ [settings EXCEPT !.cached = c].cached = c
BY DEF Settings
LEMMA GuardGoesOn ==
  ASSUME now' = now, settings' \in Settings, past' \in History,
         \A k \in DOMAIN past'.tips : past'.tips[k].time <= now,
         halt' \in State, settings'.cached # None,
         Counts(halt', settings'.cached, past', now), HaltSound(halt', settings'.cached, past')
  PROVE  GuardInv'
<1>1. halt' # None
  BY BreakerAssumption
<1> QED BY <1>1 DEF GuardInv
\* A call that changes only the settings, and not the configuration in use.
LEMMA GuardResettled ==
  ASSUME GuardInv, now' = now, UNCHANGED <<halt, past>>, settings' \in Settings,
         halt # None => settings'.cached = settings.cached
  PROVE  GuardInv'
<1>1. CASE halt = None
  BY <1>1, GuardParts DEF GuardInv
<1>2. CASE halt # None
  BY <1>2, GuardParts, GuardGoesOn
<1> QED BY <1>1, <1>2

LEMMA ConfigInUse ==
  ASSUME GuardInv, get_cached_config # None
  PROVE  /\ get_cached_config \in Checked
         /\ (halt # None => get_cached_config = settings.cached)
         /\ [settings EXCEPT !.cached = get_cached_config] \in Settings
         /\ [settings EXCEPT !.cached = get_cached_config].cached = get_cached_config
<1>1. get_cached_config \in Checked
  BY GuardParts, SettingsFields DEF get_cached_config
<1>2. halt # None => get_cached_config = settings.cached
  BY GuardParts DEF get_cached_config
<1> QED BY <1>1, <1>2, GuardParts, SettingsFields
LEMMA NoHistory ==
  /\ [tips |-> <<>>, extended |-> 0] \in History /\ [tips |-> <<>>, extended |-> 0].tips = <<>>
  /\ [tips |-> <<>>, extended |-> 0].extended = 0
<1>1. <<>> \in Seq(Tip)
  OBVIOUS
<1> QED BY <1>1 DEF History
LEMMA StateInUse ==
  ASSUME GuardInv, now \in Nat
  PROVE  /\ get_cached_state \in State
         /\ \A c \in Checked : (halt # None => c = settings.cached) =>
              Counts(get_cached_state, c, past, now) /\ HaltSound(get_cached_state, c, past)
<1>1. CASE halt = None
  <2>1. get_cached_state = new(now)
    BY <1>1 DEF get_cached_state
  <2>2. past \in History /\ past.tips = <<>>
    BY <1>1, GuardParts
  <2> QED BY <2>1, <2>2, NewFields, EmptySound
<1>2. CASE halt # None
  <2>1. get_cached_state = halt
    BY <1>2 DEF get_cached_state
  <2> QED BY <1>2, <2>1, GuardParts
<1> QED BY <1>1, <1>2

\* The state and the history that a tip is checked against: both start over with a recovery.
LEMMA ReadyState ==
  ASSUME GuardInv, now \in Nat, NEW c \in Checked, halt # None => c = settings.cached, c.enabled,
         NEW s, NEW seen,
         s = IF check_automatic_recovery(get_cached_state, now)
             THEN perform_automatic_recovery(get_cached_state, now) ELSE get_cached_state,
         seen = IF check_automatic_recovery(get_cached_state, now) THEN [tips |-> <<>>, extended |-> 0] ELSE past,
         ~should_block_operations(s, c, now)
  PROVE  /\ s \in State /\ seen \in History /\ Counts(s, c, seen, now) /\ HaltSound(s, c, seen)
         /\ (\A k \in DOMAIN seen.tips : seen.tips[k].time <= now) /\ s.halted_until = 0
         /\ ~is_halted(s, now)
<1> DEFINE stale == get_cached_state
<1>0. stale \in State /\ Counts(stale, c, past, now) /\ HaltSound(stale, c, past)
  BY StateInUse
<1> HIDE DEF stale
<1>1. ~is_halted(s, now)
  BY DEF should_block_operations
<1>2. CASE check_automatic_recovery(stale, now)
  <2>1. s = perform_automatic_recovery(stale, now) /\ seen = [tips |-> <<>>, extended |-> 0]
    BY <1>2 DEF stale
  <2>2. seen \in History /\ seen.tips = <<>>
    BY <2>1, NoHistory
  <2>3. /\ s \in State /\ s.windows = [w \in TimeWindow |-> EmptyWindow(now)]
        /\ s.rate = [start |-> now, tips |-> 0] /\ s.halted_until = 0
    BY <1>0, <2>1, RecoveredFields
  <2>4. Counts(s, c, seen, now) /\ HaltSound(s, c, seen)
    BY <2>2, <2>3, EmptySound
  <2> QED BY <1>1, <2>2, <2>3, <2>4
<1>3. CASE ~check_automatic_recovery(stale, now)
  <2>1. s = stale /\ seen = past
    BY <1>3 DEF stale
  <2>2. s.halted_until = 0
    <3>1. stale.halted_until \in Nat
      BY <1>0, StateFields
    <3>2. ~(stale.halted_until > 0 /\ now >= stale.halted_until) /\ ~(stale.halted_until > now)
      BY <1>1, <1>3, <2>1 DEF check_automatic_recovery, is_halted
    <3> QED BY <2>1, <3>1, <3>2
  <2> QED BY <1>0, <1>1, <2>1, <2>2, GuardParts
<1> QED BY <1>2, <1>3

\* What the checks find, and which state they go on with.
LEMMA TipChecked ==
  ASSUME now \in Nat, NEW s \in State, NEW c \in Checked, NEW x \in Nat, ~is_halted(s, now)
  PROVE  LET o == optimized_check_sequence(s, c, x)
         IN  /\ o.state = s \/ o.state = update_rate_limit_state(s, now)
             /\ o.hit # None => o.hit.reason \in TriggerType /\ o.hit.reason # "None" /\ o.hit.severity \in TriggerSeverity
             /\ o.hit = None => /\ x <= c.max_single /\ o.state = update_rate_limit_state(s, now)
                                /\ check_all_volume_thresholds(update_rate_limit_state(s, now), c, now) = None
<1> DEFINE a == update_rate_limit_state(s, now)
           hit == check_all_volume_thresholds(a, c, now)
           spike == [reason |-> "SingleTipSpike", severity |-> "High"]
           rate == [reason |-> "RateLimit", severity |-> "Medium"]
<1>1. optimized_check_sequence(s, c, x) =
        IF x > c.max_single THEN [state |-> s, hit |-> spike]
        ELSE IF check_global_rate_limit(a, c, now) THEN [state |-> a, hit |-> rate]
        ELSE [state |-> a, hit |-> hit]
  BY DEF optimized_check_sequence
<1>2. /\ spike \in Trigger /\ rate \in Trigger /\ spike.reason # "None" /\ rate.reason # "None"
      /\ spike # None /\ rate # None
  BY BreakerAssumption DEF Trigger, TriggerType, TriggerSeverity
<1>3. hit # None => hit \in Trigger /\ hit.reason # "None"
  BY WindowHit
<1>4. \A h \in Trigger : h.reason \in TriggerType /\ h.severity \in TriggerSeverity
  BY DEF Trigger
<1>5. c.max_single \in Nat
  BY CheckedFields
<1> HIDE DEF a, hit, spike, rate
<1> QED BY <1>1, <1>2, <1>3, <1>4, <1>5 DEF a, hit

LEMMA GuardCall ==
  ASSUME GuardInv, now \in Nat, now' = now, NEW x \in Nat, guard(x)
  PROVE  GuardInv'
<1> DEFINE c == get_cached_config
           stale == get_cached_state
           recovers == check_automatic_recovery(stale, now)
           s == IF recovers THEN perform_automatic_recovery(stale, now) ELSE stale
           seen == IF recovers THEN [tips |-> <<>>, extended |-> 0] ELSE past
           checked == optimized_check_sequence(s, c, x)
<1>1. c # None /\ settings' = [settings EXCEPT !.cached = c]
  BY Zenon DEF guard
<1>2. \/ UNCHANGED <<halt, past>>
      \/ /\ c.enabled /\ ~should_block_operations(s, c, now) /\ checked.hit # None
         /\ halt' = activate_halt(checked.state, c, checked.hit.reason, checked.hit.severity, now)
         /\ past' = [seen EXCEPT !.extended = 0]
      \/ /\ c.enabled /\ ~should_block_operations(s, c, now) /\ checked.hit = None
         /\ halt' = batch_state_updates(checked.state, x)
         /\ past' = [seen EXCEPT !.tips = Append(@, [time |-> now, amount |-> x])]
  BY Zenon DEF guard
<1>3. c \in Checked /\ (halt # None => c = settings.cached) /\ settings' \in Settings /\ settings'.cached = c
  BY <1>1, ConfigInUse
<1>4. settings'.cached # None
  BY <1>1, <1>3
<1>5. CASE UNCHANGED <<halt, past>>
  BY <1>3, <1>5, GuardResettled
<1>6. CASE c.enabled /\ ~should_block_operations(s, c, now)
  <2>1. /\ s \in State /\ seen \in History /\ Counts(s, c, seen, now) /\ HaltSound(s, c, seen)
        /\ (\A k \in DOMAIN seen.tips : seen.tips[k].time <= now) /\ s.halted_until = 0
        /\ ~is_halted(s, now)
    <3> HIDE DEF c
    <3> QED BY <1>3, <1>6, ReadyState
  <2> HIDE DEF s, seen, c
  <2>2. /\ checked.state = s \/ checked.state = update_rate_limit_state(s, now)
        /\ checked.hit # None => /\ checked.hit.reason \in TriggerType /\ checked.hit.reason # "None"
                                 /\ checked.hit.severity \in TriggerSeverity
        /\ checked.hit = None => /\ x <= c.max_single /\ checked.state = update_rate_limit_state(s, now)
                                 /\ check_all_volume_thresholds(update_rate_limit_state(s, now), c, now) = None
    BY <1>3, <2>1, TipChecked
  <2> HIDE DEF checked
  <2>3. CASE /\ checked.hit # None
             /\ halt' = activate_halt(checked.state, c, checked.hit.reason, checked.hit.severity, now)
             /\ past' = [seen EXCEPT !.extended = 0]
    <3>1. checked.state \in State /\ Counts(checked.state, c, seen, now)
      <4> DEFINE a == update_rate_limit_state(s, now)
      <4>1. a \in State
        BY <2>1, RateFields
      <4>2. Counts(a, c, seen, now)
        BY <1>3, <2>1, RateCounted
      <4> HIDE DEF a
      <4> QED BY <2>1, <2>2, <4>1, <4>2 DEF a
    <3>2. halt' \in State /\ past' \in History /\ past'.tips = seen.tips
          /\ Counts(halt', c, past', now) /\ HaltSound(halt', c, past')
      BY <1>3, <2>1, <2>2, <2>3, <3>1, ActivatedSound
    <3> QED BY <1>3, <1>4, <2>1, <3>2, GuardGoesOn
  <2>4. CASE /\ checked.hit = None /\ halt' = batch_state_updates(checked.state, x)
             /\ past' = [seen EXCEPT !.tips = Append(@, [time |-> now, amount |-> x])]
    <3>1. /\ halt' \in State /\ past' \in History /\ Counts(halt', c, past', now) /\ HaltSound(halt', c, past')
          /\ \A k \in DOMAIN past'.tips : past'.tips[k].time <= now
      BY <1>3, <2>1, <2>2, <2>4, AcceptedSound
    <3> QED BY <1>3, <1>4, <3>1, GuardGoesOn
  <2> QED BY <1>2, <1>5, <2>3, <2>4
<1> QED BY <1>2, <1>5, <1>6

LEMMA BreakerStarted ==
  ASSUME GuardInv, now \in Nat, now' = now, initialize_circuit_breaker
  PROVE  GuardInv'
<1>1. /\ settings' = [settings EXCEPT !.cached = DefaultBreaker] /\ halt' = new(now)
      /\ past' = [tips |-> <<>>, extended |-> 0]
  BY DEF initialize_circuit_breaker
<1>2. DefaultBreaker \in Checked /\ DefaultBreaker # None
  BY BreakerAssumption DEF Checked
<1>3. settings' \in Settings /\ settings'.cached = DefaultBreaker
  BY <1>1, <1>2, GuardParts, SettingsFields
<1>4. past' \in History /\ past'.tips = <<>>
  BY <1>1, NoHistory
<1>5. halt' \in State /\ Counts(halt', DefaultBreaker, past', now) /\ HaltSound(halt', DefaultBreaker, past')
  BY <1>1, <1>2, <1>4, NewFields, EmptySound
<1>6. \A k \in DOMAIN past'.tips : past'.tips[k].time <= now
  BY <1>4
<1> QED BY <1>2, <1>3, <1>4, <1>5, <1>6, GuardGoesOn

\* The administration stores configurations it has checked, and limits.
LEMMA ModeSet ==
  ASSUME NEW c \in Checked, NEW b \in BOOLEAN
  PROVE  [c EXCEPT !["emergency"] = b] \in Checked /\ [c EXCEPT !["maintenance"] = b] \in Checked
<1>1. c \in Config /\ validate(c)
  BY DEF Checked
<1>2. ASSUME NEW d, d = [c EXCEPT !["emergency"] = b] \/ d = [c EXCEPT !["maintenance"] = b] PROVE d \in Checked
  <2>1. /\ d \in Config /\ d.threshold = c.threshold /\ d.max_single = c.max_single /\ d.max_tips = c.max_tips
        /\ d.confidence = c.confidence /\ d.base = c.base /\ d.max = c.max /\ d.backoff = c.backoff
    BY <1>1, <1>2 DEF Config
  <2>2. validate(d)
    BY <1>1, <2>1 DEF validate
  <2> QED BY <2>1, <2>2 DEF Checked
<1> QED BY <1>2
LEMMA Administered ==
  ASSUME GuardInv, now' = now,
         \/ \E c \in BreakerConfigs : set_enhanced_config(c) \/ set_enhanced_cb_config(c)
         \/ init_enhanced_cb
         \/ \E p \in Party, x \in Limits : set_creator_limit(p, x)
         \/ \E p \in Party : remove_creator_limit(p)
         \/ \E t \in Token, x \in Limits : set_token_limit(t, x)
         \/ enable_emergency_mode \/ disable_emergency_mode
         \/ enable_maintenance_mode \/ disable_maintenance_mode
  PROVE  GuardInv'
<1>0. settings \in Settings
  BY GuardParts
<1> SUFFICES UNCHANGED <<halt, past>> /\ settings' \in Settings /\ settings'.cached = settings.cached
  BY GuardResettled
<1>1. ASSUME NEW c \in BreakerConfigs, set_enhanced_config(c) \/ set_enhanced_cb_config(c)
      PROVE  UNCHANGED <<halt, past>> /\ settings' \in Settings /\ settings'.cached = settings.cached
  <2>1. c \in Checked
    BY <1>1, BreakerAssumption DEF set_enhanced_config, set_enhanced_cb_config, Checked
  <2> QED BY <1>0, <1>1, <2>1, SettingsFields DEF set_enhanced_config, set_enhanced_cb_config
<1>2. CASE init_enhanced_cb
  <2> DEFINE c == IF settings.entry # None THEN settings.entry ELSE DefaultBreaker
  <2>1. c \in {None} \cup Checked
    BY <1>0, SettingsFields, BreakerAssumption
  <2>2. settings' = [settings EXCEPT !.entry = c] /\ UNCHANGED <<halt, past>>
    BY <1>2 DEF init_enhanced_cb
  <2> HIDE DEF c
  <2> QED BY <1>0, <2>1, <2>2, SettingsFields
<1>3. ASSUME NEW p \in Party, NEW x \in {None} \cup Int, settings' = [settings EXCEPT !.creators[p] = x]
      PROVE  settings' \in Settings /\ settings'.cached = settings.cached
  <2> DEFINE f == [settings.creators EXCEPT ![p] = x]
  <2>1. f \in [Party -> {None} \cup Int]
    BY <1>0, SettingsFields
  <2>2. settings' = [settings EXCEPT !.creators = f]
    BY <1>3
  <2> HIDE DEF f
  <2> QED BY <1>0, <2>1, <2>2 DEF Settings
<1>4. ASSUME NEW t \in Token, NEW x \in {None} \cup Int, settings' = [settings EXCEPT !.tokens[t] = x]
      PROVE  settings' \in Settings /\ settings'.cached = settings.cached
  <2> DEFINE f == [settings.tokens EXCEPT ![t] = x]
  <2>1. f \in [Token -> {None} \cup Int]
    BY <1>0, SettingsFields
  <2>2. settings' = [settings EXCEPT !.tokens = f]
    BY <1>4
  <2> HIDE DEF f
  <2> QED BY <1>0, <2>1, <2>2 DEF Settings
<1>6. ASSUME NEW p \in Party, NEW x \in Limits, set_creator_limit(p, x)
      PROVE  UNCHANGED <<halt, past>> /\ settings' \in Settings /\ settings'.cached = settings.cached
  <2>1. x \in {None} \cup Int
    BY BreakerAssumption
  <2> QED BY <1>3, <1>6, <2>1 DEF set_creator_limit
<1>7. ASSUME NEW p \in Party, remove_creator_limit(p)
      PROVE  UNCHANGED <<halt, past>> /\ settings' \in Settings /\ settings'.cached = settings.cached
  BY <1>3, <1>7 DEF remove_creator_limit
<1>8. ASSUME NEW t \in Token, NEW x \in Limits, set_token_limit(t, x)
      PROVE  UNCHANGED <<halt, past>> /\ settings' \in Settings /\ settings'.cached = settings.cached
  <2>1. x \in {None} \cup Int
    BY BreakerAssumption
  <2> QED BY <1>4, <1>8, <2>1 DEF set_token_limit
<1>9. ASSUME NEW b \in BOOLEAN, Mode("emergency", b) \/ Mode("maintenance", b)
      PROVE  UNCHANGED <<halt, past>> /\ settings' \in Settings /\ settings'.cached = settings.cached
  <2> DEFINE c == settings.stored
             d == [c EXCEPT !["emergency"] = b]
             e == [c EXCEPT !["maintenance"] = b]
  <2>1. UNCHANGED <<halt, past>> /\ c # None
        /\ (settings' = [settings EXCEPT !.stored = d] \/ settings' = [settings EXCEPT !.stored = e])
    BY <1>9 DEF Mode
  <2>2. d \in Checked /\ e \in Checked
    <3>1. c \in Checked
      BY <1>0, <2>1, SettingsFields
    <3> HIDE DEF c
    <3> QED BY <3>1, ModeSet
  <2> HIDE DEF d, e
  <2>3. \A f \in Checked : [settings EXCEPT !.stored = f] \in Settings /\ [settings EXCEPT !.stored = f].cached = settings.cached
    BY <1>0, SettingsFields
  <2> QED BY <2>1, <2>2, <2>3
<1> QED BY <1>1, <1>2, <1>6, <1>7, <1>8, <1>9, Zenon
     DEF enable_emergency_mode, disable_emergency_mode, enable_maintenance_mode, disable_maintenance_mode

LEMMA HaltedByHand ==
  ASSUME GuardInv, now \in Nat, now' = now, NEW severity \in Severities, manual_trigger(severity)
  PROVE  GuardInv'
<1> DEFINE c == settings.cached
           s == get_cached_state
<1>1. /\ c # None /\ halt' = activate_halt(s, c, "Manual", severity, now)
      /\ past' = [past EXCEPT !.extended = 0] /\ settings' = settings
  BY DEF manual_trigger
<1>2. c \in Checked
  BY <1>1, GuardParts, SettingsFields
<1>3. s \in State /\ Counts(s, c, past, now) /\ severity \in TriggerSeverity /\ "Manual" \in TriggerType
  BY <1>2, StateInUse, BreakerAssumption DEF TriggerType
<1> HIDE DEF s
<1>4. halt' \in State /\ past' \in History /\ past'.tips = past.tips /\ Counts(halt', c, past', now) /\ HaltSound(halt', c, past')
  <2> HIDE DEF c
  <2> QED BY <1>1, <1>2, <1>3, GuardParts, ActivatedSound
<1> QED BY <1>1, <1>4, GuardParts, GuardGoesOn
LEMMA ResetByHand ==
  ASSUME GuardInv, now \in Nat, now' = now, NEW force, manual_reset(force)
  PROVE  GuardInv'
<1> DEFINE c == settings.cached
<1>1. /\ halt # None /\ halt' = perform_automatic_recovery(halt, now)
      /\ past' = [tips |-> <<>>, extended |-> 0] /\ settings' = settings
  BY DEF manual_reset
<1>2. c # None /\ c \in Checked /\ halt \in State
  BY <1>1, GuardParts, SettingsFields
<1>3. past' \in History /\ past'.tips = <<>>
  BY <1>1, NoHistory
<1>4. /\ halt' \in State /\ halt'.windows = [w \in TimeWindow |-> EmptyWindow(now)]
      /\ halt'.rate = [start |-> now, tips |-> 0] /\ halt'.halted_until = 0
  BY <1>1, <1>2, RecoveredFields
<1>5. Counts(halt', c, past', now) /\ HaltSound(halt', c, past')
  <2> HIDE DEF c
  <2> QED BY <1>2, <1>3, <1>4, EmptySound
<1>6. \A k \in DOMAIN past'.tips : past'.tips[k].time <= now
  BY <1>3
<1> QED BY <1>1, <1>2, <1>3, <1>4, <1>5, <1>6, GuardParts, GuardGoesOn
LEMMA HaltExtended ==
  ASSUME GuardInv, now \in Nat, now' = now, NEW d \in Nat, extend_halt(d)
  PROVE  GuardInv'
<1> DEFINE c == settings.cached
           until == halt.halted_until + d
           long == halt.duration + d
           more == past.extended + d
<1>1. /\ halt # None /\ halt.halted_until > now /\ halt' = [halt EXCEPT !.halted_until = until, !.duration = long]
      /\ past' = [past EXCEPT !.extended = more] /\ settings' = settings
  BY DEF extend_halt, is_halted
<1>2. c # None /\ c \in Checked /\ halt \in State /\ past \in History /\ Counts(halt, c, past, now) /\ HaltSound(halt, c, past)
  BY <1>1, GuardParts, SettingsFields
<1>3. /\ halt.halted_until \in Nat /\ halt.duration \in Nat /\ past.extended \in Nat /\ halt.last \in Nat
      /\ c.base \in Nat /\ c.max \in Nat
  BY <1>2, StateFields, TipTimes, CheckedFields
<1>4. until \in Nat /\ long \in Nat /\ more \in Nat /\ until > 0
  BY <1>1, <1>3
<1> HIDE DEF until, long, more, c
<1>5. /\ halt' \in State /\ halt'.windows = halt.windows /\ halt'.rate = halt.rate /\ halt'.reason = halt.reason
      /\ halt'.last = halt.last /\ halt'.halted_until = until
  BY <1>1, <1>2, <1>4 DEF State
<1>6. past' \in History /\ past'.tips = past.tips /\ past'.extended = more
  BY <1>1, <1>2, <1>4 DEF History
<1>7. Counts(halt', c, past', now)
  BY <1>2, <1>5, <1>6, CountsAs
<1>8. HaltSound(halt', c, past')
  <2>1. halt.halted_until # 0
    BY <1>1, <1>3
  <2>2. /\ halt.reason # "None" /\ c.base <= halt.halted_until - halt.last - past.extended
        /\ halt.halted_until - halt.last - past.extended <= c.max
    BY <1>2, <2>1 DEF HaltSound
  <2>3. until - halt.last - more = halt.halted_until - halt.last - past.extended
    BY <1>3 DEF until, more
  <2> QED BY <1>4, <1>5, <1>6, <2>2, <2>3 DEF HaltSound
<1> QED BY <1>1, <1>2, <1>5, <1>6, <1>7, <1>8, GuardParts, GuardGoesOn DEF c

LEMMA GuardStep ==
  ASSUME GuardInv, now \in Nat, now' = now, GuardNext
  PROVE  GuardInv'
<1>1. ASSUME NEW x \in Amounts, guard(x) PROVE GuardInv'
  <2>1. x \in Nat
    BY LedgerAssumption
  <2> QED BY <1>1, <2>1, GuardCall
<1>2. ASSUME NEW force \in BOOLEAN, manual_reset(force) PROVE GuardInv'
  BY <1>2, ResetByHand
<1>3. extend_halt(1) => GuardInv'
  BY HaltExtended
<1> QED BY <1>1, <1>2, <1>3, BreakerStarted, HaltedByHand, Administered, Zenon DEF GuardNext
LEMMA GuardLater ==
  ASSUME GuardInv, now \in Nat, now' \in Nat, now <= now', UNCHANGED <<settings, halt, past>>
  PROVE  GuardInv'
<1>1. \A k \in DOMAIN past.tips : past.tips[k].time <= now'
  <2>1. \A k \in DOMAIN past.tips : past.tips[k].time \in Nat
    BY GuardParts, TipTimes
  <2> QED BY <2>1, GuardParts
<1>2. ASSUME halt # None PROVE Counts(halt, settings.cached, past, now')
  <2>1. Counts(halt, settings.cached, past, now) /\ halt \in State
    BY <1>2, GuardParts
  <2>2. halt.rate.start \in Nat /\ \A w \in TimeWindow : halt.windows[w].start \in Nat
    BY <2>1, StateFields, WindowFields
  <2>3. halt.rate.start <= now' /\ \A w \in TimeWindow : halt.windows[w].start <= now'
    BY <2>1, <2>2 DEF Counts
  <2> QED BY <2>1, <2>3 DEF Counts
<1> QED BY <1>1, <1>2, GuardParts DEF GuardInv

-----------------------------------------------------------------------------
\* The statistics.  A quotient lies where its dividend does.
LEMMA DivBounds ==
  ASSUME NEW a \in Nat, NEW k \in Nat \ {0}
  PROVE  /\ a \div k \in Nat /\ a \div k <= a
         /\ \A m \in Nat : (m * k <= a => m <= a \div k) /\ (a <= m * k => a \div k <= m)
<1> DEFINE q == a \div k
<1>1. q \in Nat /\ k * q <= a /\ a < k * q + k
  OBVIOUS
<1> HIDE DEF q
<1>2. q <= a
  <2>1. q <= k * q
    BY <1>1
  <2> QED BY <1>1, <2>1, Product
<1>3. ASSUME NEW m \in Nat PROVE (m * k <= a => m <= q) /\ (a <= m * k => q <= m)
  <2>1. ASSUME m * k <= a, q + 1 <= m PROVE FALSE
    <3>1. (q + 1) * k <= m * k
      BY <1>1, <2>1
    <3>2. (q + 1) * k = k * q + k
      BY <1>1
    <3>3. m * k \in Nat /\ k * q \in Nat
      BY <1>1, Product
    <3> QED BY <1>1, <2>1, <3>1, <3>2, <3>3
  <2>2. ASSUME a <= m * k, m + 1 <= q PROVE FALSE
    <3>1. (m + 1) * k <= q * k
      BY <1>1, <2>2
    <3>2. (m + 1) * k = m * k + k /\ q * k = k * q
      BY <1>1
    <3>3. m * k \in Nat /\ k * q \in Nat
      BY <1>1, Product
    <3> QED BY <1>1, <2>2, <3>1, <3>2, <3>3
  <2> QED BY <1>1, <2>1, <2>2
<1> QED BY <1>1, <1>2, <1>3 DEF q

\* m lies between a and x.
Between(m, a, x) ==
  m \in Nat /\ (a <= x => a <= m /\ m <= x) /\ (x <= a => x <= m /\ m <= a)
LEMMA RollingMean ==
  ASSUME NEW a \in Nat, NEW x \in Nat, NEW n \in Nat \ {0}
  PROVE  /\ Between(a + Quotient(x - a, n), a, x) /\ Quotient(x - a, n) \in Int
         /\ n = 1 => a + Quotient(x - a, n) = x
<1>1. CASE a <= x
  <2> DEFINE d == x - a
             q == d \div n
  <2>1. d \in Nat /\ Quotient(x - a, n) = q
    BY <1>1 DEF Quotient
  <2>2. q \in Nat /\ q <= d
    <3> HIDE DEF d
    <3> QED BY <2>1, DivBounds
  <2>3. n = 1 => q = d
    <3> HIDE DEF d
    <3> QED BY <2>1
  <2> HIDE DEF q
  <2>4. a + q \in Nat /\ a <= a + q /\ a + q <= x /\ (x <= a => a + q = x) /\ (n = 1 => a + q = x)
    BY <1>1, <2>2, <2>3
  <2> QED BY <2>1, <2>2, <2>4 DEF Between
<1>2. CASE ~(a <= x)
  <2> DEFINE d == a - x
             q == d \div n
  <2>1. d \in Nat /\ Quotient(x - a, n) = -q
    <3>1. ~(x - a >= 0) /\ -(x - a) = d /\ d \in Nat
      BY <1>2
    <3> QED BY <3>1 DEF Quotient
  <2>2. q \in Nat /\ q <= d
    <3> HIDE DEF d
    <3> QED BY <2>1, DivBounds
  <2>3. n = 1 => q = d
    <3> HIDE DEF d
    <3> QED BY <2>1
  <2> HIDE DEF q
  <2>4. a + (-q) \in Nat /\ x <= a + (-q) /\ a + (-q) <= a /\ (n = 1 => a + (-q) = x)
    BY <1>2, <2>2, <2>3
  <2> QED BY <1>2, <2>1, <2>2, <2>4 DEF Between
<1> QED BY <1>1, <1>2
LEMMA WeightedMean ==
  ASSUME NEW a \in Nat, NEW x \in Nat, NEW s \in Nat
  PROVE  /\ Between((a * s + x) \div (s + 1), a, x)
         /\ s = 0 => (a * s + x) \div (s + 1) = x
<1> DEFINE k == s + 1
           b == a * s + x
           q == b \div k
<1>1. k \in Nat \ {0} /\ b \in Nat /\ a * s \in Nat /\ x * s \in Nat
  BY Product
<1>2. a * k = a * s + a /\ x * k = x * s + x
  OBVIOUS
<1>3. a <= x => a * s <= x * s
  OBVIOUS
<1>4. x <= a => x * s <= a * s
  OBVIOUS
<1>5. q \in Nat /\ \A m \in Nat : (m * k <= b => m <= q) /\ (b <= m * k => q <= m)
  <2> HIDE DEF k, b
  <2> QED BY <1>1, DivBounds
<1>6. a <= x => a * k <= b /\ b <= x * k
  BY <1>1, <1>2, <1>3
<1>7. x <= a => x * k <= b /\ b <= a * k
  BY <1>1, <1>2, <1>4
<1>8. s = 0 => q = x
  <2> SUFFICES ASSUME s = 0 PROVE q = x
    OBVIOUS
  <2>1. b = x /\ k = 1
    OBVIOUS
  <2> QED BY <2>1
<1> HIDE DEF k, b, q
<1>9. Between(q, a, x)
  BY <1>5, <1>6, <1>7 DEF Between
<1> QED BY <1>8, <1>9 DEF q, b, k

\* The mean of the samples and one more.
Centred(a, s) == s # <<>> => \E low, high \in ToSet(s) : low <= a /\ a <= high
LEMMA OneMoreSample ==
  ASSUME NEW s \in Seq(Nat), NEW a \in Nat, NEW x \in Nat, NEW m \in Nat, Centred(a, s),
         Between(m, a, x), Len(s) = 0 => m = x
  PROVE  Append(s, x) \in Seq(Nat) /\ Len(Append(s, x)) = Len(s) + 1 /\ Centred(m, Append(s, x))
<1>1. ToSet(Append(s, x)) = ToSet(s) \cup {x} /\ ToSet(s) \in SUBSET Nat
  <2>1. /\ DOMAIN s = 1 .. Len(s) /\ DOMAIN Append(s, x) = 1 .. Len(s) + 1 /\ Len(s) \in Nat
        /\ (\A j \in DOMAIN s : Append(s, x)[j] = s[j]) /\ Append(s, x)[Len(s) + 1] = x
    BY SeqAppended
  <2> DEFINE r == Append(s, x)
  <2> HIDE DEF r
  <2>2. /\ DOMAIN r = 1 .. Len(s) + 1 /\ (\A j \in DOMAIN s : r[j] = s[j]) /\ r[Len(s) + 1] = x
    BY <2>1 DEF r
  <2>3. \A j \in DOMAIN r : j \in DOMAIN s \/ j = Len(s) + 1
    BY <2>1, <2>2
  <2>4. DOMAIN s \in SUBSET DOMAIN r /\ Len(s) + 1 \in DOMAIN r
    BY <2>1, <2>2
  <2>5. {r[j] : j \in DOMAIN r} = {s[j] : j \in DOMAIN s} \cup {x}
    BY <2>2, <2>3, <2>4
  <2>6. \A j \in DOMAIN s : s[j] \in Nat
    OBVIOUS
  <2> QED BY <2>5, <2>6 DEF ToSet, r
<1>2. Append(s, x) \in Seq(Nat) /\ Len(Append(s, x)) = Len(s) + 1
  BY SeqAppended
<1>3. CASE s = <<>>
  <2>1. m = x
    BY <1>3
  <2>2. x \in ToSet(Append(s, x)) /\ x <= m /\ m <= x
    BY <1>1, <2>1
  <2> QED BY <1>2, <2>2 DEF Centred
<1>4. CASE s # <<>>
  <2>1. PICK low, high \in ToSet(s) : low <= a /\ a <= high
    BY <1>4 DEF Centred
  <2>2. low \in Nat /\ high \in Nat
    BY <1>1, <2>1
  <2>3. CASE a <= x
    <3>1. low <= m /\ m <= x
      BY <2>1, <2>2, <2>3 DEF Between
    <3> QED BY <1>1, <1>2, <2>1, <3>1 DEF Centred
  <2>4. CASE x <= a
    <3>1. x <= m /\ m <= high
      BY <2>1, <2>2, <2>4 DEF Between
    <3> QED BY <1>1, <1>2, <2>1, <3>1 DEF Centred
  <2> QED BY <2>3, <2>4
<1> QED BY <1>3, <1>4, <1>2

Rooted(n, f) == [k \in 0 .. 10 |-> IF k = 0 THEN n ELSE LET x == f[k - 1] IN Smaller(x, (x + n \div x) \div 2)]
LEMMA RootType ==
  ASSUME NEW n \in Int
  PROVE  sqrt_approx(n) \in Nat
<1> SUFFICES ASSUME n > 0 PROVE sqrt_approx(n) \in Nat
  BY DEF sqrt_approx
<1> DEFINE g == CHOOSE f : f = Rooted(n, f)
           Step(x) == Smaller(x, (x + n \div x) \div 2)
<1>1. \A x \in 1 .. n : Step(x) \in 1 .. n
  <2> TAKE x \in 1 .. n
  <2> DEFINE d == n \div x
             y == (x + d) \div 2
  <2>1. x \in Nat \ {0} /\ 1 * x <= n
    OBVIOUS
  <2>2. d >= 1 /\ d \in Nat
    BY <2>1
  <2> HIDE DEF d
  <2>3. y \in Nat /\ y >= 1
    BY <2>1, <2>2
  <2>4. Step(x) = Smaller(x, y)
    BY DEF d
  <2> HIDE DEF y
  <2> QED BY <2>1, <2>3, <2>4 DEF Smaller
<1>2. \E f : f = Rooted(n, f)
  <2>1. \A x : Step(x) = Smaller(x, (x + n \div x) \div 2)
    OBVIOUS
  <2> HIDE DEF Step
  <2>p1. PICK a1 : a1 = Step(n)
    OBVIOUS
  <2>p2. PICK a2 : a2 = Step(a1)
    OBVIOUS
  <2>p3. PICK a3 : a3 = Step(a2)
    OBVIOUS
  <2>p4. PICK a4 : a4 = Step(a3)
    OBVIOUS
  <2>p5. PICK a5 : a5 = Step(a4)
    OBVIOUS
  <2>p6. PICK a6 : a6 = Step(a5)
    OBVIOUS
  <2>p7. PICK a7 : a7 = Step(a6)
    OBVIOUS
  <2>p8. PICK a8 : a8 = Step(a7)
    OBVIOUS
  <2>p9. PICK a9 : a9 = Step(a8)
    OBVIOUS
  <2>p10. PICK a10 : a10 = Step(a9)
    OBVIOUS
  <2> DEFINE h == [k \in 0 .. 10 |-> IF k = 0 THEN n ELSE IF k = 1 THEN a1 ELSE IF k = 2 THEN a2 ELSE IF k = 3 THEN a3
                                    ELSE IF k = 4 THEN a4 ELSE IF k = 5 THEN a5 ELSE IF k = 6 THEN a6
                                    ELSE IF k = 7 THEN a7 ELSE IF k = 8 THEN a8 ELSE IF k = 9 THEN a9 ELSE a10]
  <2>2. /\ h[0] = n /\ h[1] = a1 /\ h[2] = a2 /\ h[3] = a3 /\ h[4] = a4 /\ h[5] = a5 /\ h[6] = a6 /\ h[7] = a7
        /\ h[8] = a8 /\ h[9] = a9 /\ h[10] = a10
    OBVIOUS
  <2>3. h = [k \in 0 .. 10 |-> h[k]]
    OBVIOUS
  <2> HIDE DEF h
  <2>4. ASSUME NEW k \in 0 .. 10
        PROVE  h[k] = IF k = 0 THEN n ELSE Step(h[k - 1])
    <3>1. k = 0 \/ k = 1 \/ k = 2 \/ k = 3 \/ k = 4 \/ k = 5 \/ k = 6 \/ k = 7 \/ k = 8 \/ k = 9 \/ k = 10
      OBVIOUS
    <3> QED BY <2>p1, <2>p2, <2>p3, <2>p4, <2>p5, <2>p6, <2>p7, <2>p8, <2>p9, <2>p10, <2>2, <3>1
  <2>5. h = [k \in 0 .. 10 |-> IF k = 0 THEN n ELSE Step(h[k - 1])]
    BY <2>3, <2>4
  <2>6. h = Rooted(n, h)
    BY <2>1, <2>5 DEF Rooted
  <2> QED BY <2>6
<1>3. g = Rooted(n, g)
  BY <1>2
<1> HIDE DEF g
<1>4. \A k \in 0 .. 10 : g[k] = IF k = 0 THEN n ELSE Step(g[k - 1])
  BY <1>3 DEF Rooted
<1> HIDE DEF Step
<1>5. g[0] \in 1 .. n
  BY <1>4
<1>6. \A k \in 1 .. 10 : g[k - 1] \in 1 .. n => g[k] \in 1 .. n
  <2> TAKE k \in 1 .. 10
  <2>1. g[k] = Step(g[k - 1])
    BY <1>4
  <2> QED BY <1>1, <2>1
<1>7. g[10] \in 1 .. n
  <2>1. 1 - 1 = 0 /\ 2 - 1 = 1 /\ 3 - 1 = 2 /\ 4 - 1 = 3 /\ 5 - 1 = 4
        /\ 6 - 1 = 5 /\ 7 - 1 = 6 /\ 8 - 1 = 7 /\ 9 - 1 = 8 /\ 10 - 1 = 9
    OBVIOUS
  <2>2. g[1] \in 1 .. n
    BY <1>5, <1>6, <2>1
  <2>3. g[2] \in 1 .. n
    BY <2>2, <1>6, <2>1
  <2>4. g[3] \in 1 .. n
    BY <2>3, <1>6, <2>1
  <2>5. g[4] \in 1 .. n
    BY <2>4, <1>6, <2>1
  <2>6. g[5] \in 1 .. n
    BY <2>5, <1>6, <2>1
  <2>7. g[6] \in 1 .. n
    BY <2>6, <1>6, <2>1
  <2>8. g[7] \in 1 .. n
    BY <2>7, <1>6, <2>1
  <2>9. g[8] \in 1 .. n
    BY <2>8, <1>6, <2>1
  <2>10. g[9] \in 1 .. n
    BY <2>9, <1>6, <2>1
  <2> QED BY <2>10, <1>6, <2>1
<1>8. sqrt_approx(n) = g[10]
  BY DEF sqrt_approx, g, Rooted
<1> QED BY <1>7, <1>8

\* Scores.
LEMMA CappedScore ==
  ASSUME NEW x \in Nat
  PROVE  Smaller(Full, x) \in 0 .. Full /\ 0 \in 0 .. Full /\ Full \in 0 .. Full
BY BreakerAssumption DEF Smaller
LEMMA DeviationScore ==
  ASSUME NEW x \in Nat, NEW a \in Nat, NEW d \in Nat
  PROVE  calculate_amount_deviation_score(x, a, d) \in 0 .. Full
<1> DEFINE off == IF x > a THEN x - a ELSE a - x
           z == (off * 100) \div d
           y == ((z - 200) * Full) \div 100
<1>1. Full \in Nat /\ 0 \in 0 .. Full /\ Full \in 0 .. Full
  BY BreakerAssumption
<1>2. ASSUME d # 0, z > 200 PROVE Smaller(Full, y) \in 0 .. Full
  <2>1. off \in Nat
    OBVIOUS
  <2> HIDE DEF off
  <2>2. off * 100 \in Nat /\ d \in Nat \ {0}
    BY <1>2, <2>1
  <2>3. z \in Nat
    <3> DEFINE b == off * 100
    <3> HIDE DEF b
    <3>1. b \in Nat
      BY <2>2 DEF b
    <3>2. b \div d \in Nat
      BY <2>2, <3>1, DivBounds
    <3> QED BY <3>2 DEF b
  <2> HIDE DEF z
  <2>4. z - 200 \in Nat
    BY <1>2, <2>3
  <2>5. (z - 200) * Full \in Nat
    BY <1>1, <2>4, Product
  <2>6. y \in Nat
    <3> DEFINE b == (z - 200) * Full
    <3> HIDE DEF b
    <3>1. b \in Nat
      BY <2>5 DEF b
    <3>2. b \div 100 \in Nat
      BY <3>1, DivBounds
    <3> QED BY <3>2 DEF b
  <2> HIDE DEF y
  <2> QED BY <2>6, CappedScore
<1>3. calculate_amount_deviation_score(x, a, d)
        = IF d = 0 \/ a = 0 THEN 0 ELSE IF z > 300 THEN Full ELSE IF z > 200 THEN Smaller(Full, y) ELSE 0
  BY Zenon DEF calculate_amount_deviation_score
<1> HIDE DEF off, z, y
<1> QED BY <1>1, <1>2, <1>3

\* The statistics hold the samples they were made of.
SampledAs(h) == h \in Stats /\ h.samples = Len(h.seen) /\ Centred(h.average, h.seen)
RatedAs(h) == IF h.rates = {} THEN h.rate = 0 ELSE \E r \in h.rates : h.rate <= r
LEMMA StatsFields ==
  ASSUME NEW h \in Stats
  PROVE  /\ h.average \in Nat /\ h.deviation \in Nat /\ h.rate \in Nat /\ h.senders \in Nat /\ h.samples \in Nat
         /\ h.score \in 0 .. Full /\ h.seen \in Seq(Nat) /\ h.rates \in SUBSET Nat
BY DEF Stats
LEMMA SampleAdded ==
  ASSUME NEW h \in Stats, SampledAs(h), RatedAs(h), NEW x \in Nat, NEW m \in Nat,
         Between(m, h.average, x), h.samples = 0 => m = x, NEW g \in Stats,
         g.average = m, g.samples = h.samples + 1, g.seen = Append(h.seen, x), g.rate = h.rate, g.rates = h.rates
  PROVE  SampledAs(g) /\ RatedAs(g)
<1> DEFINE s == h.seen
<1>1. s \in Seq(Nat) /\ h.average \in Nat /\ Centred(h.average, s) /\ (Len(s) = 0 => m = x)
  BY StatsFields DEF SampledAs
<1>2. g.seen = Append(s, x) /\ h.samples = Len(s)
  BY DEF SampledAs
<1> HIDE DEF s
<1>3. Append(s, x) \in Seq(Nat) /\ Len(Append(s, x)) = Len(s) + 1 /\ Centred(m, Append(s, x))
  BY <1>1, OneMoreSample
<1> QED BY <1>2, <1>3 DEF SampledAs, RatedAs

LEMMA QuotientType ==
  ASSUME NEW a \in Int, NEW n \in Nat \ {0}
  PROVE  Quotient(a, n) \in Int
BY DEF Quotient
LEMMA IntProduct == \A a, b \in Int : a * b \in Int
OBVIOUS
LEMMA RollingKept ==
  ASSUME NEW h \in Stats, SampledAs(h), RatedAs(h), NEW x \in Nat,
         NEW g, g = update_rolling_statistics(h, x)
  PROVE  SampledAs(g) /\ RatedAs(g)
<1> DEFINE n == h.samples + 1
           delta == x - h.average
           mean == h.average + Quotient(delta, n)
           spread == h.deviation * h.deviation * h.samples + delta * (x - mean)
           d == IF h.samples = 0 THEN h.deviation ELSE sqrt_approx(Quotient(spread, n))
<1>1. n \in Nat \ {0} /\ h.average \in Nat /\ h.deviation \in Nat /\ h.samples \in Nat /\ h.score \in 0 .. Full
  BY StatsFields
<1>2. Between(mean, h.average, x) /\ (n = 1 => mean = x)
  <2> DEFINE a == h.average
  <2>1. a \in Nat
    BY <1>1
  <2>2. mean = a + Quotient(x - a, n)
    OBVIOUS
  <2> HIDE DEF a, n, mean
  <2>3. Between(mean, a, x) /\ (n = 1 => mean = x)
    BY <1>1, <2>1, <2>2, RollingMean
  <2> QED BY <2>3 DEF a
<1>3. mean \in Nat
  BY <1>2 DEF Between
<1>4. d \in Nat
  <2> HIDE DEF mean
  <2>1. delta \in Int /\ x - mean \in Int
    BY <1>1, <1>3
  <2>2. delta * (x - mean) \in Int
    <3> DEFINE y == x - mean
    <3> HIDE DEF delta, y
    <3>1. delta \in Int /\ y \in Int
      BY <2>1 DEF y
    <3> QED BY <3>1, IntProduct DEF y
  <2>3. h.deviation * h.deviation * h.samples \in Int
    <3>1. h.deviation * h.deviation \in Int
      BY <1>1, IntProduct
    <3> DEFINE y == h.deviation * h.deviation
    <3> HIDE DEF y
    <3>2. y * h.samples \in Int
      BY <1>1, <3>1, IntProduct DEF y
    <3> QED BY <3>2 DEF y
  <2>4. spread \in Int
    <3> DEFINE y == h.deviation * h.deviation * h.samples
               z == delta * (x - mean)
    <3>1. spread = y + z /\ y \in Int /\ z \in Int
      BY <2>2, <2>3
    <3> HIDE DEF y, z, spread
    <3> QED BY <3>1
  <2> HIDE DEF n, spread
  <2>5. Quotient(spread, n) \in Int
    BY <1>1, <2>4, QuotientType
  <2> QED BY <1>1, <2>5, RootType
<1>5. g = [h EXCEPT !.average = mean, !.samples = n, !.seen = Append(h.seen, x), !.deviation = d]
  BY DEF update_rolling_statistics
<1>6. h.samples = 0 => mean = x
  <2>1. h.samples = 0 => n = 1
    OBVIOUS
  <2> HIDE DEF n, mean
  <2> QED BY <1>2, <2>1
<1>7. n = h.samples + 1
  OBVIOUS
<1> DEFINE s == Append(h.seen, x)
<1>8. s \in Seq(Nat)
  BY StatsFields, SeqAppended
<1> HIDE DEF n, mean, d, s
<1>9. g = [h EXCEPT !.average = mean, !.samples = n, !.seen = s, !.deviation = d]
  BY <1>5 DEF s
<1>10. /\ g \in Stats
       /\ g.average = mean /\ g.samples = n /\ g.seen = s /\ g.rate = h.rate /\ g.rates = h.rates
  BY <1>1, <1>3, <1>4, <1>8, <1>9 DEF Stats
<1> QED BY <1>2, <1>3, <1>6, <1>7, <1>10, SampleAdded DEF s
LEMMA AnomalyKept ==
  ASSUME NEW h \in Stats, SampledAs(h), RatedAs(h), NEW x \in Nat,
         NEW g, g = update_anomaly_state(h, x)
  PROVE  SampledAs(g) /\ RatedAs(g)
<1> DEFINE mean == (h.average * h.samples + x) \div (h.samples + 1)
           n == h.samples + 1
           p == calculate_amount_deviation_score(x, mean, h.deviation)
<1>1. h.average \in Nat /\ h.deviation \in Nat /\ h.samples \in Nat
  BY StatsFields
<1>2. Between(mean, h.average, x) /\ (h.samples = 0 => mean = x)
  <2> DEFINE a == h.average
             s == h.samples
  <2>1. a \in Nat /\ s \in Nat /\ mean = (a * s + x) \div (s + 1)
    BY <1>1
  <2> HIDE DEF a, s, mean
  <2>2. Between(mean, a, x) /\ (s = 0 => mean = x)
    BY <2>1, WeightedMean
  <2> QED BY <2>2 DEF a, s
<1>3. mean \in Nat
  BY <1>2 DEF Between
<1>4. g = [h EXCEPT !.average = mean, !.samples = n, !.seen = Append(h.seen, x), !.score = p]
  BY DEF update_anomaly_state
<1> HIDE DEF mean
<1>5. p \in 0 .. Full
  BY <1>1, <1>3, DeviationScore
<1>6. n = h.samples + 1
  OBVIOUS
<1> DEFINE s == Append(h.seen, x)
<1>7. s \in Seq(Nat) /\ n \in Nat
  BY <1>1, StatsFields, SeqAppended
<1> HIDE DEF n, p, s
<1>8. g = [h EXCEPT !.average = mean, !.samples = n, !.seen = s, !.score = p]
  BY <1>4 DEF s
<1>9. /\ g \in Stats
      /\ g.average = mean /\ g.samples = n /\ g.seen = s /\ g.rate = h.rate /\ g.rates = h.rates
  BY <1>3, <1>5, <1>7, <1>8 DEF Stats
<1> QED BY <1>2, <1>3, <1>6, <1>9, SampleAdded DEF s

LEMMA SmoothedType ==
  ASSUME NEW a \in Nat, NEW x \in Nat
  PROVE  Smoothed(a, x) \in Nat /\ (Smoothed(a, x) <= a \/ Smoothed(a, x) <= x) /\ (a = 0 => Smoothed(a, x) = x)
<1> DEFINE y == (a * 4 + x) \div 5
<1>1. y \in Nat /\ 5 * y <= a * 4 + x
  OBVIOUS
<1>2. y <= a \/ y <= x
  BY <1>1
<1>3. Smoothed(a, x) = IF a = 0 THEN x ELSE y
  BY DEF Smoothed
<1> HIDE DEF y
<1> QED BY <1>1, <1>2, <1>3
LEMMA FrequencyKept ==
  ASSUME NEW h \in Stats, SampledAs(h), RatedAs(h), NEW k \in Nat,
         NEW g, g = update_frequency_stats(h, k, 2)
  PROVE  SampledAs(g) /\ RatedAs(g)
<1> DEFINE x == k \div 2
           q == Smoothed(h.rate, x)
           w == h.rates \cup {x}
<1>1. x \in Nat
  OBVIOUS
<1>2. g = [h EXCEPT !.rate = q, !.rates = w]
  BY DEF update_frequency_stats
<1> HIDE DEF x
<1>3. /\ h.average \in Nat /\ h.deviation \in Nat /\ h.rate \in Nat /\ h.senders \in Nat /\ h.samples \in Nat
      /\ h.score \in 0 .. Full /\ h.seen \in Seq(Nat) /\ h.rates \in SUBSET Nat
  BY StatsFields
<1>4. q \in Nat /\ (q <= h.rate \/ q <= x) /\ (h.rate = 0 => q = x)
  BY <1>1, <1>3, SmoothedType
<1>5. w \in SUBSET Nat /\ x \in w /\ h.rates \in SUBSET w
  BY <1>1, <1>3
<1> HIDE DEF q, w
<1>8. /\ g \in Stats
      /\ g.average = h.average /\ g.samples = h.samples /\ g.seen = h.seen /\ g.rate = q /\ g.rates = w
  BY <1>2, <1>4, <1>5 DEF Stats
<1>9. \E r \in w : q <= r
  <2>1. CASE h.rates = {}
    <3>1. h.rate = 0
      BY <2>1 DEF RatedAs
    <3> QED BY <1>1, <1>4, <1>5, <3>1
  <2>2. CASE h.rates # {}
    <3>1. PICK r \in h.rates : h.rate <= r
      BY <2>2 DEF RatedAs
    <3>2. q <= r \/ q <= x
      BY <1>1, <1>3, <1>4, <3>1
    <3> QED BY <1>5, <3>1, <3>2
  <2> QED BY <2>1, <2>2
<1> QED BY <1>5, <1>8, <1>9 DEF SampledAs, RatedAs
LEMMA SendersKept ==
  ASSUME NEW h \in Stats, SampledAs(h), RatedAs(h), NEW k \in Nat,
         NEW g, g = update_sender_stats(h, k)
  PROVE  SampledAs(g) /\ RatedAs(g)
<1> DEFINE q == Smoothed(h.senders, k)
<1>1. g = [h EXCEPT !.senders = q]
  BY DEF update_sender_stats
<1>2. /\ h.average \in Nat /\ h.deviation \in Nat /\ h.rate \in Nat /\ h.senders \in Nat /\ h.samples \in Nat
      /\ h.score \in 0 .. Full /\ h.seen \in Seq(Nat) /\ h.rates \in SUBSET Nat
  BY StatsFields
<1>3. q \in Nat
  BY <1>2, SmoothedType
<1> HIDE DEF q
<1>4. /\ g \in Stats
      /\ g.average = h.average /\ g.samples = h.samples /\ g.seen = h.seen /\ g.rate = h.rate /\ g.rates = h.rates
  BY <1>1, <1>3 DEF Stats
<1> QED BY <1>4 DEF SampledAs, RatedAs
LEMMA NothingLearned ==
  ASSUME NEW p \in 0 .. Full, NEW g, g = [NoStats EXCEPT !.score = p]
  PROVE  SampledAs(g) /\ RatedAs(g)
<1>1. g = [average |-> 0, deviation |-> 0, rate |-> 0, senders |-> 0, samples |-> 0, score |-> p,
           seen |-> <<>>, rates |-> {}]
  BY DEF NoStats
<1>2. g \in Stats
  <2> DEFINE s == <<>>
             z == 0
             e == {}
  <2>1. s \in Seq(Nat) /\ z \in Nat /\ e \in SUBSET Nat
    OBVIOUS
  <2>2. g = [average |-> z, deviation |-> z, rate |-> z, senders |-> z, samples |-> z, score |-> p,
             seen |-> s, rates |-> e]
    BY <1>1
  <2> HIDE DEF s, z, e
  <2>3. p \in 0 .. Full
    OBVIOUS
  <2> QED BY ONLY <2>1, <2>2, <2>3, SMTT(20) DEF Stats
<1>3. g.samples = 0 /\ g.seen = <<>> /\ g.rate = 0 /\ g.rates = {} /\ Len(<<>>) = 0
  BY <1>1
<1> QED BY <1>2, <1>3 DEF SampledAs, RatedAs, Centred

LEMMA StatsAs == StatsInv <=> SampledAs(stats) /\ RatedAs(stats)
BY DEF StatsInv, SampledAs, RatedAs, Centred
LEMMA StatsAsNext == StatsInv' <=> SampledAs(stats') /\ RatedAs(stats')
BY DEF StatsInv, SampledAs, RatedAs, Centred
LEMMA LearnStep ==
  ASSUME StatsInv, Learn
  PROVE  StatsInv' /\ UNCHANGED <<settings, halt, past>>
<1> SUFFICES StatsInv'
  BY DEF Learn
<1>1. SampledAs(stats) /\ RatedAs(stats) /\ stats \in Stats
  BY StatsAs DEF SampledAs
<1>2. Amounts \in SUBSET Nat /\ Rates \in SUBSET Nat
  BY LedgerAssumption, BreakerAssumption
<1>3. CASE \E x \in Amounts : stats' \in {update_rolling_statistics(stats, x), update_anomaly_state(stats, x)}
  <2>1. PICK x \in Amounts : stats' = update_rolling_statistics(stats, x) \/ stats' = update_anomaly_state(stats, x)
    BY <1>3
  <2>2. x \in Nat
    BY <1>2
  <2>3. SampledAs(stats') /\ RatedAs(stats')
    BY <1>1, <2>1, <2>2, RollingKept, AnomalyKept
  <2> QED BY <2>3, StatsAsNext
<1>4. CASE \E n \in Rates : stats' \in {update_frequency_stats(stats, n, 2), update_sender_stats(stats, n)}
  <2>1. PICK n \in Rates : stats' = update_frequency_stats(stats, n, 2) \/ stats' = update_sender_stats(stats, n)
    BY <1>4
  <2>2. n \in Nat
    BY <1>2
  <2>3. SampledAs(stats') /\ RatedAs(stats')
    BY <1>1, <2>1, <2>2, FrequencyKept, SendersKept
  <2> QED BY <2>3, StatsAsNext
<1>5. CASE stats' = reset_statistics
  <2>1. stats.score \in 0 .. Full /\ stats' = [NoStats EXCEPT !.score = stats.score]
    BY <1>1, <1>5, StatsFields DEF reset_statistics
  <2> DEFINE p == stats.score
  <2> HIDE DEF p
  <2>2. p \in 0 .. Full /\ stats' = [NoStats EXCEPT !.score = p]
    BY <2>1 DEF p
  <2>3. SampledAs(stats') /\ RatedAs(stats')
    BY <2>2, NothingLearned
  <2> QED BY <2>3, StatsAsNext
<1> QED BY <1>3, <1>4, <1>5 DEF Learn

-----------------------------------------------------------------------------
\* The scores made of the statistics.
LEMMA VelocityScore ==
  ASSUME NEW r \in Nat, NEW a \in Nat, NEW k \in Nat \ {0}
  PROVE  calculate_velocity_anomaly_score(r, a, k) \in 0 .. Full
<1> DEFINE b == (r - a) * Full
           ratio == b \div a
           c == (ratio - k) * Full
           y == c \div k
<1>1. Full \in Nat /\ 0 \in 0 .. Full
  BY BreakerAssumption
<1>2. calculate_velocity_anomaly_score(r, a, k)
        = IF a = 0 \/ r <= a \/ ratio <= k THEN 0 ELSE Smaller(Full, y)
  BY DEF calculate_velocity_anomaly_score
<1>3. ASSUME a # 0, ~(r <= a), ~(ratio <= k) PROVE Smaller(Full, y) \in 0 .. Full
  <2>1. r - a \in Nat /\ a \in Nat \ {0}
    BY <1>3
  <2>2. b \in Nat
    BY <1>1, <2>1, Product
  <2> HIDE DEF b
  <2>3. ratio \in Nat
    BY <2>1, <2>2, DivBounds
  <2> HIDE DEF ratio
  <2>4. ratio - k \in Nat
    BY <1>3, <2>3
  <2>5. c \in Nat
    BY <1>1, <2>4, Product
  <2> HIDE DEF c
  <2>6. y \in Nat
    BY <2>5, DivBounds
  <2> HIDE DEF y
  <2> QED BY <2>6, CappedScore
<1> HIDE DEF ratio, y
<1> QED BY <1>1, <1>2, <1>3
LEMMA CreatorVelocity ==
  ASSUME NEW r \in Nat, NEW u \in Nat
  PROVE  analyze_creator_velocity(r, u) \in 0 .. Full
<1> DEFINE b == r * Full
           y == b \div u - 3 * Full
           z == (r - 100) * 100
<1>1. Full \in Nat /\ 0 \in 0 .. Full
  BY BreakerAssumption
<1>2. analyze_creator_velocity(r, u)
        = IF u = 0 THEN IF r > 100 THEN Smaller(Full, z) ELSE 0
          ELSE IF r > u * 3 THEN Smaller(Full, y) ELSE 0
  BY DEF analyze_creator_velocity
<1>3. ASSUME r > 100 PROVE Smaller(Full, z) \in 0 .. Full
  <2>1. z \in Nat
    BY <1>3
  <2> HIDE DEF z
  <2> QED BY <2>1, CappedScore
<1>4. ASSUME u # 0, r > u * 3 PROVE Smaller(Full, y) \in 0 .. Full
  <2>1. b \in Nat /\ 3 * Full \in Nat /\ u \in Nat \ {0}
    BY <1>1, <1>4, Product
  <2>2. 3 * Full * u <= b
    <3>1. u * 3 * Full <= r * Full
      <4> DEFINE v == u * 3
      <4>1. v \in Nat /\ v <= r
        BY <1>4
      <4> HIDE DEF v
      <4>2. v * Full <= r * Full
        BY <1>1, <4>1
      <4> QED BY <4>2 DEF v
    <3>2. 3 * Full * u = u * 3 * Full
      BY <1>1
    <3> QED BY <3>1, <3>2
  <2> DEFINE m == 3 * Full
             q == b \div u
  <2>3. m * u <= b /\ m \in Nat
    BY <2>1, <2>2
  <2> HIDE DEF b, m
  <2>4. q \in Nat /\ m <= q
    BY <2>1, <2>3, DivBounds
  <2> HIDE DEF q
  <2>5. q - m \in Nat
    BY <2>3, <2>4
  <2>6. y = q - m
    BY DEF q, m
  <2> HIDE DEF y
  <2> QED BY <2>5, <2>6, CappedScore
<1> HIDE DEF y, z
<1> QED BY <1>1, <1>2, <1>3, <1>4
LEMMA ClusteringScore ==
  ASSUME NEW s \in Seq(Nat), NEW k \in Nat \ {0}
  PROVE  calculate_sender_clustering_score(s, k) \in 0 .. Full
<1> DEFINE u == Cardinality(ToSet(s))
           b == (k - u) * Full
           y == b \div k
<1>1. u \in Nat
  <2>1. IsFiniteSet(DOMAIN s)
    BY FiniteList
  <2>2. ToSet(s) = {s[j] : j \in DOMAIN s}
    BY DEF ToSet
  <2>3. s \in Surjection(DOMAIN s, ToSet(s))
    BY <2>2 DEF Surjection
  <2>4. IsFiniteSet(ToSet(s))
    BY <2>1, <2>3, FS_Surjection, Zenon
  <2> QED BY <2>4, FS_CardinalityType
<1>2. Full \in Nat /\ 0 \in 0 .. Full
  BY BreakerAssumption
<1>3. calculate_sender_clustering_score(s, k) = IF s = <<>> \/ u >= k THEN 0 ELSE Smaller(Full, y)
  BY DEF calculate_sender_clustering_score
<1> HIDE DEF u
<1>4. ASSUME ~(u >= k) PROVE Smaller(Full, y) \in 0 .. Full
  <2>1. k - u \in Nat
    BY <1>1, <1>4
  <2>2. b \in Nat
    BY <1>2, <2>1, Product
  <2> HIDE DEF b
  <2>3. y \in Nat
    BY <2>2, DivBounds
  <2> HIDE DEF y
  <2> QED BY <2>3, CappedScore
<1> HIDE DEF y
<1> QED BY <1>2, <1>3, <1>4
LEMMA Confidence ==
  ASSUME NEW k \in 0 .. Full, NEW v \in 0 .. Full, NEW d \in 0 .. Full
  PROVE  calculate_overall_confidence(k, v, d) \in 0 .. Full /\ calculate_pattern_score(v, TRUE, k) \in 0 .. Full
<1>1. Full \in Nat
  BY BreakerAssumption
<1>2. calculate_overall_confidence(k, v, d) \in 0 .. Full
  <2> DEFINE b == k * 40 + v * 30 + d * 30
             q == b \div 100
  <2>1. b \in Nat /\ b <= 100 * Full
    BY <1>1
  <2>2. calculate_overall_confidence(k, v, d) = q
    BY DEF calculate_overall_confidence
  <2> HIDE DEF b
  <2>3. q \in Nat /\ 100 * q <= b
    BY <2>1
  <2> HIDE DEF q
  <2> QED BY <1>1, <2>1, <2>2, <2>3
<1>3. calculate_pattern_score(v, TRUE, k) \in 0 .. Full
  <2> DEFINE b == v + 3000 + k \div 2
  <2>1. b \in Nat
    BY <1>1
  <2>2. calculate_pattern_score(v, TRUE, k) = Smaller(Full, b)
    BY DEF calculate_pattern_score
  <2> HIDE DEF b
  <2> QED BY <2>1, <2>2, CappedScore
<1> QED BY <1>2, <1>3
LEMMA StatsBounded ==
  ASSUME StatsInv
  PROVE  StatsWithinSeen
<1>1. stats.rate \in Nat /\ stats.score \in 0 .. Full
  BY StatsFields DEF StatsInv
<1>2. Rates \in SUBSET Nat /\ Full \div 2 \in Nat \ {0}
  BY BreakerAssumption
<1> DEFINE velocity == {calculate_velocity_anomaly_score(r, stats.rate, Full \div 2) :
                           r \in {r \in Rates : r <= 15 * stats.rate}}
                         \cup {analyze_creator_velocity(r, stats.rate) : r \in Rates}
           clustering == {calculate_sender_clustering_score(s, 2) : s \in {<<1, 1>>, <<1, 2>>}}
<1>3. \A v \in velocity : v \in 0 .. Full
  <2> DEFINE k == Full \div 2
             u == stats.rate
  <2>1. k \in Nat \ {0} /\ u \in Nat
    BY <1>1, <1>2
  <2>2. velocity = {calculate_velocity_anomaly_score(r, u, k) : r \in {r \in Rates : r <= 15 * stats.rate}}
                     \cup {analyze_creator_velocity(r, u) : r \in Rates}
    OBVIOUS
  <2> HIDE DEF k, u, velocity
  <2>3. \A r \in Nat : calculate_velocity_anomaly_score(r, u, k) \in 0 .. Full /\ analyze_creator_velocity(r, u) \in 0 .. Full
    BY <2>1, VelocityScore, CreatorVelocity
  <2> QED BY <1>2, <2>2, <2>3
<1>4. \A k \in clustering : k \in 0 .. Full
  <2> DEFINE a == <<1, 1>>
             b == <<1, 2>>
             n == 2
  <2>1. a \in Seq(Nat) /\ b \in Seq(Nat) /\ n \in Nat \ {0}
    OBVIOUS
  <2>2. clustering = {calculate_sender_clustering_score(s, n) : s \in {a, b}}
    OBVIOUS
  <2> HIDE DEF a, b, n, clustering
  <2>3. \A s \in {a, b} : calculate_sender_clustering_score(s, n) \in 0 .. Full
    BY <2>1, ClusteringScore
  <2> QED BY <2>2, <2>3
<1>5. /\ stats.seen # <<>> => \E low, high \in ToSet(stats.seen) : low <= stats.average /\ stats.average <= high
      /\ stats.rates # {} => \E r \in stats.rates : stats.rate <= r
  BY DEF StatsInv
<1> HIDE DEF velocity, clustering
<1>6. \A v \in velocity, k \in clustering :
        /\ calculate_overall_confidence(k, v, stats.score) \in 0 .. Full
        /\ calculate_pattern_score(v, TRUE, k) \in 0 .. Full
  BY <1>1, <1>3, <1>4, Confidence
<1> QED BY <1>5, <1>6 DEF StatsWithinSeen, velocity, clustering

-----------------------------------------------------------------------------
\* What the invariants say of the breaker.
LEMMA GuardKeepsSound ==
  ASSUME GuardInv
  PROVE  WindowsCount /\ VolumeBounded /\ HaltsBounded
<1> SUFFICES ASSUME halt # None PROVE WindowsCount /\ VolumeBounded /\ HaltsBounded
  BY DEF WindowsCount, VolumeBounded, HaltsBounded
<1>1. /\ halt \in State /\ settings.cached # None
      /\ Counts(halt, settings.cached, past, now) /\ HaltSound(halt, settings.cached, past)
  BY DEF GuardInv
<1>2. WindowsCount
  <2>1. CountSince(past.tips, halt.rate.start) \in Nat
    <3>1. past.tips \in Seq(Tip)
      BY DEF GuardInv, History
    <3> QED BY <3>1, CountType
  <2>2. halt.halted_until = 0 => halt.rate.tips >= CountSince(past.tips, halt.rate.start)
    BY <1>1, <2>1 DEF HaltSound
  <2> QED BY <1>1, <2>2 DEF WindowsCount, Counts
<1>3. VolumeBounded
  BY <1>1 DEF VolumeBounded, Counts
<1>4. HaltsBounded
  <2> SUFFICES ASSUME halt.halted_until > 0 PROVE HaltsBounded
    BY DEF HaltsBounded
  <2>1. halt.halted_until # 0 /\ "OneMinute" \in TimeWindow
    BY DEF TimeWindow
  <2>2. halt.windows["OneMinute"].volume >= 0
    <3>1. halt.windows["OneMinute"] \in VolumeWindow
      BY <1>1, <2>1, StateFields
    <3> QED BY <3>1, WindowFields
  <2>3. /\ halt.reason # "None"
        /\ settings.cached.base <= halt.halted_until - halt.last - past.extended
        /\ halt.halted_until - halt.last - past.extended <= settings.cached.max
    BY <1>1, <2>1 DEF HaltSound
  <2> QED BY <2>2, <2>3 DEF HaltsBounded, validate_state_integrity
<1> QED BY <1>2, <1>3, <1>4

LEMMA StartsCounting ==
  ASSUME BreakerInit
  PROVE  GuardInv /\ StatsInv
<1>1. settings \in Settings
  <2> DEFINE c == PerParty(None)
             d == PerToken(None)
             z == None
             B == {None} \cup Checked
  <2>1. c \in [Party -> {None} \cup Int] /\ d \in [Token -> {None} \cup Int] /\ z \in B
    BY DEF PerParty, PerToken
  <2>2. settings = [entry |-> z, stored |-> z, cached |-> z, creators |-> c, tokens |-> d]
    BY DEF BreakerInit
  <2>3. Settings = [entry : B, stored : B, cached : B, creators : [Party -> {None} \cup Int],
                    tokens : [Token -> {None} \cup Int]]
    BY DEF Settings
  <2> HIDE DEF c, d, z, B
  <2> QED BY ONLY <2>1, <2>2, <2>3
<1>2. past \in History /\ past.tips = <<>> /\ halt = None
  BY DEF BreakerInit, History
<1>3. GuardInv
  BY <1>1, <1>2 DEF GuardInv
<1>4. stats = [NoStats EXCEPT !.score = 0] /\ 0 \in 0 .. Full
  BY BreakerAssumption DEF BreakerInit, NoStats
<1> DEFINE p == 0
<1>5. p \in 0 .. Full /\ stats = [NoStats EXCEPT !.score = p]
  BY <1>4
<1> HIDE DEF p
<1>6. SampledAs(stats) /\ RatedAs(stats)
  BY <1>5, NothingLearned
<1> QED BY <1>3, <1>6, StatsAs

LEMMA GuardLeavesStats ==
  ASSUME GuardNext
  PROVE  UNCHANGED stats
BY DEF GuardNext, guard, initialize_circuit_breaker, set_enhanced_config, set_enhanced_cb_config, init_enhanced_cb,
       set_creator_limit, remove_creator_limit, set_token_limit, enable_emergency_mode, disable_emergency_mode,
       enable_maintenance_mode, disable_maintenance_mode, Mode, manual_trigger, manual_reset, extend_halt
LEMMA StatsStay ==
  ASSUME StatsInv, UNCHANGED stats
  PROVE  StatsInv'
BY DEF StatsInv
\* A call is of the breaker, of its statistics or of another library; or time passes.
LEMMA BreakerMoves ==
  ASSUME Next
  PROVE  \/ GuardNext /\ now' = now
         \/ Learn /\ now' = now
         \/ UNCHANGED breakerLibVars /\ (now' = now \/ now' = now + 1)
<1>1. CASE Paying /\ now' = now
  BY <1>1, Zenon DEF Paying
<1>2. CASE Recording /\ now' = now
  BY <1>2, Zenon DEF Recording
<1>3. CASE Tick /\ UNCHANGED breakerLibVars
  BY <1>3, Zenon DEF Tick
<1> QED BY <1>1, <1>2, <1>3, Zenon DEF Next
LEMMA BreakerStep ==
  ASSUME now \in Nat, GuardInv, StatsInv, [Next]_vars
  PROVE  GuardInv' /\ StatsInv'
<1>1. CASE GuardNext /\ now' = now
  BY <1>1, GuardStep, GuardLeavesStats, StatsStay
<1>2. CASE Learn /\ now' = now
  BY <1>2, LearnStep, GuardLater
<1>3. CASE UNCHANGED breakerLibVars /\ (now' = now \/ now' = now + 1)
  BY <1>3, GuardLater, StatsStay DEF breakerLibVars
<1>4. UNCHANGED vars => UNCHANGED breakerLibVars /\ now' = now
  BY DEF vars, ledgerVars
<1> QED BY <1>1, <1>2, <1>3, <1>4, BreakerMoves

\* What every call of the breaker and its statistics keeps: no accepted tip is later than the
\* windows it counts towards, and the counts are made under the cached configuration, which
\* is replaced only together with the state they are kept in.
THEOREM BreakerAlwaysCounts == Spec => [](GuardInv /\ StatsInv)
<1>1. Init => GuardInv /\ StatsInv
  BY StartsCounting DEF Init
<1>2. RecordsInv => now \in Nat
  BY RecordsParts
<1>3. RecordsInv /\ GuardInv /\ StatsInv /\ [Next]_vars => GuardInv' /\ StatsInv'
  BY <1>2, BreakerStep
<1> QED BY <1>1, <1>3, RecordsAlwaysTied, PTL DEF Spec

\* The enhanced breaker's windows hold every tip it let through and none from before a recovery,
\* its rate limit misses none; what it lets through in a window passes the threshold by one tip at most; a halt names its reason
\* and lasts between the base and the longest cooldown, extensions aside, however often the
\* back-off was applied; and the means, rates and scores stay within what was observed.
THEOREM BreakerAlwaysSound == Spec => []BreakerSound
<1>1. GuardInv /\ StatsInv => BreakerSound
  BY GuardKeepsSound, StatsBounded DEF BreakerSound
<1> QED BY <1>1, BreakerAlwaysCounts, PTL

-----------------------------------------------------------------------------
\* The records that are kept in two places.
Put(f, k, v) == [f EXCEPT ![k] = v]

-----------------------------------------------------------------------------
\* Fractions.  What a pool's fields are.
LEMMA PoolFields ==
  ASSUME NEW f \in FractionPool
  PROVE  /\ f.supply \in Nat \ {0} /\ f.revenue \in Nat /\ f.per_fraction \in Nat
         /\ f.price \in Int /\ f.holders \in SUBSET Party /\ f.amount \in [Party -> Nat]
         /\ f.debt \in [Party -> Nat] /\ f.claimed \in Nat /\ f.outsider \in BOOLEAN
BY DEF FractionPool

\* What is owed to whom.
Dues(f) == [h \in Party |-> Owed(f, h)]
LEMMA DuesType ==
  ASSUME NEW f \in FractionPool, \A h \in Party : f.debt[h] <= f.per_fraction
  PROVE  Dues(f) \in [Party -> Nat] /\ Dues(f) \in [Party -> Int] /\ f.amount \in [Party -> Int]
<1>1. ASSUME NEW h \in Party PROVE Owed(f, h) \in Nat
  <2> DEFINE a == f.per_fraction - f.debt[h]
             b == f.amount[h]
  <2>1. a \in Nat /\ b \in Nat
    BY PoolFields
  <2>2. Owed(f, h) = a * b
    BY DEF Owed
  <2> HIDE DEF a, b
  <2> QED BY <2>1, <2>2
<1>2. f.amount \in [Party -> Nat]
  BY PoolFields
<1> QED BY <1>1, <1>2 DEF Dues

\* What the other parts of a pool's soundness say.
PoolBacked(f) ==
  ~f.outsider =>
    /\ \A h \in Party \ f.holders : f.amount[h] = 0
    /\ SumFunction(f.amount) = f.supply
    /\ f.claimed + SumFunction(Dues(f)) <= f.revenue
LEMMA SoundAs ==
  ASSUME NEW f
  PROVE  PoolSound(f) <=> f \in FractionPool /\ (\A h \in Party : f.debt[h] <= f.per_fraction) /\ PoolBacked(f)
BY Zenon DEF PoolSound, PoolBacked, Dues

LEMMA MintedSound ==
  ASSUME NEW c \in Party, NEW n \in Nat \ {0}, NEW price \in Int
  PROVE  PoolSound([supply |-> n, revenue |-> 0, per_fraction |-> 0, price |-> price, holders |-> {c},
                    amount |-> [h \in Party |-> IF h = c THEN n ELSE 0], debt |-> PerParty(0), claimed |-> 0,
                    outsider |-> FALSE])
<1> DEFINE A == [h \in Party |-> IF h = c THEN n ELSE 0]
           Z == PerParty(0)
           H == {c}
           o == FALSE
           f == [supply |-> n, revenue |-> 0, per_fraction |-> 0, price |-> price, holders |-> H,
                 amount |-> A, debt |-> Z, claimed |-> 0, outsider |-> o]
<1>1. A \in [Party -> Nat] /\ Z \in [Party -> Nat] /\ H \in SUBSET Party /\ o \in BOOLEAN
  BY DEF PerParty
<1>2. \A h \in Party : A[h] = (IF h = c THEN n ELSE 0) /\ Z[h] = 0 /\ (h \notin H => h # c)
  BY DEF PerParty
<1> HIDE DEF A, Z, H, o
<1>3. f \in FractionPool
  BY <1>1 DEF FractionPool
<1>4. /\ f.supply = n /\ f.per_fraction = 0 /\ f.amount = A /\ f.debt = Z /\ f.claimed = 0 /\ f.revenue = 0
      /\ f.holders = H
  OBVIOUS
<1> HIDE DEF f
<1>5. IsFiniteSet(Party)
  BY LedgerAssumption
<1>6. SumFunction(A) = n
  <2> DEFINE B == [h \in Party |-> 0]
  <2>1. B \in [Party -> Int] /\ (\A h \in Party : B[h] = 0) /\ A \in [Party -> Int]
    BY <1>1
  <2> HIDE DEF B
  <2>2. SumFunction(B) = 0
    BY <1>5, <2>1, SumZero
  <2>3. SumFunction(A) = SumFunction(B) + A[c] - B[c]
    BY <1>2, <1>5, <2>1, SumUpdate
  <2> QED BY <1>2, <2>1, <2>2, <2>3
<1>7. SumFunction(Dues(f)) = 0
  <2>1. \A h \in Party : f.debt[h] <= f.per_fraction
    BY <1>2, <1>4
  <2>2. Dues(f) \in [Party -> Int]
    BY <1>3, <2>1, DuesType
  <2>3. \A h \in Party : Dues(f)[h] = 0
    BY <1>1, <1>2, <1>4 DEF Dues, Owed
  <2> QED BY <1>5, <2>2, <2>3, SumZero
<1>8. PoolBacked(f)
  BY <1>2, <1>4, <1>6, <1>7 DEF PoolBacked
<1>9. \A h \in Party : f.debt[h] <= f.per_fraction
  BY <1>2, <1>4
<1>10. PoolSound(f)
  BY <1>3, <1>8, <1>9, SoundAs
<1> QED BY <1>10 DEF f, A, Z, H, o

LEMMA AccruedSound ==
  ASSUME NEW f, PoolSound(f), NEW x \in Nat
  PROVE  PoolSound(Accrued(f, x))
<1> DEFINE q == x \div f.supply
           r == f.revenue + x
           s == f.per_fraction + q
           g == [f EXCEPT !.revenue = r, !.per_fraction = s]
<1>1. f \in FractionPool /\ (\A h \in Party : f.debt[h] <= f.per_fraction) /\ PoolBacked(f)
  BY SoundAs
<1>2. f.supply \in Nat \ {0} /\ f.revenue \in Nat /\ f.per_fraction \in Nat /\ f.debt \in [Party -> Nat]
      /\ f.amount \in [Party -> Nat] /\ f.claimed \in Nat
  BY <1>1, PoolFields
<1>3. q \in Nat /\ f.supply * q <= x
  BY <1>2
<1>4. r \in Nat /\ s \in Nat /\ s = f.per_fraction + q /\ r = f.revenue + x /\ Accrued(f, x) = g
  BY <1>2, <1>3 DEF Accrued
<1> HIDE DEF q, r, s
<1>5. g \in FractionPool
  BY <1>1, <1>4 DEF FractionPool
<1>6. /\ g.supply = f.supply /\ g.revenue = r /\ g.per_fraction = s /\ g.holders = f.holders
      /\ g.amount = f.amount /\ g.debt = f.debt /\ g.claimed = f.claimed /\ g.outsider = f.outsider
  BY <1>1 DEF FractionPool
<1> HIDE DEF g
<1>7. \A h \in Party : g.debt[h] <= g.per_fraction
  BY <1>1, <1>2, <1>3, <1>4, <1>6
<1>8. ASSUME SumFunction(f.amount) = f.supply
      PROVE  SumFunction(Dues(g)) = SumFunction(Dues(f)) + q * f.supply
  <2> DEFINE E == [h \in Party |-> q * f.amount[h]]
  <2>0. IsFiniteSet(Party)
    BY LedgerAssumption
  <2>1. Dues(f) \in [Party -> Int] /\ Dues(g) \in [Party -> Int] /\ f.amount \in [Party -> Int]
    BY <1>1, <1>5, <1>7, DuesType
  <2>2. E \in [Party -> Int] /\ \A h \in Party : E[h] = q * f.amount[h]
    BY <1>2, <1>3
  <2> HIDE DEF E
  <2>3. \A h \in Party : Dues(g)[h] = Dues(f)[h] + E[h]
    <3> SUFFICES ASSUME NEW h \in Party PROVE Dues(g)[h] = Dues(f)[h] + E[h]
      OBVIOUS
    <3> DEFINE a == f.per_fraction
               d == f.debt[h]
               b == f.amount[h]
    <3>1. a \in Int /\ d \in Int /\ b \in Int /\ q \in Int
      BY <1>2, <1>3
    <3>2. Dues(g)[h] = (a + q - d) * b /\ Dues(f)[h] = (a - d) * b /\ E[h] = q * b
      <4>1. Dues(g)[h] = (s - d) * b /\ Dues(f)[h] = (a - d) * b
        BY <1>6, Zenon DEF Dues, Owed
      <4>2. E[h] = q * b
        BY <2>2
      <4>3. s = a + q
        BY <1>4
      <4> HIDE DEF a, d, b
      <4> QED BY ONLY <3>1, <4>1, <4>2, <4>3
    <3> HIDE DEF a, d, b
    <3> QED BY <3>1, <3>2
  <2>4. SumFunction(Dues(g)) = SumFunction(Dues(f)) + SumFunction(E)
    BY <2>0, <2>1, <2>2, <2>3, SumPlus
  <2>5. SumFunction(E) = q * SumFunction(f.amount)
    BY <1>3, <2>0, <2>1, <2>2, SumScaled
  <2> QED BY <1>8, <2>4, <2>5
<1>9. SumFunction(Dues(f)) \in Int
  <2>1. IsFiniteSet(Party)
    BY LedgerAssumption
  <2> QED BY <1>1, <2>1, DuesType, SumType
<1>10. PoolBacked(g)
  <2> SUFFICES ASSUME ~f.outsider
               PROVE  /\ \A h \in Party \ f.holders : f.amount[h] = 0
                      /\ SumFunction(f.amount) = f.supply
                      /\ f.claimed + SumFunction(Dues(g)) <= r
    BY <1>6 DEF PoolBacked
  <2>1. /\ \A h \in Party \ f.holders : f.amount[h] = 0
        /\ SumFunction(f.amount) = f.supply
        /\ f.claimed + SumFunction(Dues(f)) <= f.revenue
    BY <1>1 DEF PoolBacked
  <2>2. q * f.supply \in Int /\ q * f.supply <= x
    BY <1>2, <1>3
  <2> QED BY <1>2, <1>4, <1>8, <1>9, <2>1, <2>2
<1> QED BY <1>4, <1>5, <1>7, <1>10, SoundAs

LEMMA ClaimedSound ==
  ASSUME NEW f, PoolSound(f), NEW h \in Party
  PROVE  PoolSound(Claimed(f, h))
<1> DEFINE D == [f.debt EXCEPT ![h] = f.per_fraction]
           x == f.claimed + Owed(f, h)
           g == [f EXCEPT !.debt = D, !.claimed = x]
<1>1. f \in FractionPool /\ (\A k \in Party : f.debt[k] <= f.per_fraction) /\ PoolBacked(f)
  BY SoundAs
<1>2. f.per_fraction \in Nat /\ f.debt \in [Party -> Nat] /\ f.amount \in [Party -> Nat] /\ f.claimed \in Nat
  BY <1>1, PoolFields
<1>3. /\ D \in [Party -> Nat] /\ \A k \in Party : D[k] = IF k = h THEN f.per_fraction ELSE f.debt[k]
  BY <1>2
<1>4. x \in Nat /\ x = f.claimed + Owed(f, h)
  BY <1>1, <1>2, DuesType DEF Dues
<1>5. Claimed(f, h) = g
  BY DEF Claimed
<1> HIDE DEF D, x
<1>6. g \in FractionPool
  BY <1>1, <1>3, <1>4 DEF FractionPool
<1>7. /\ g.supply = f.supply /\ g.revenue = f.revenue /\ g.per_fraction = f.per_fraction /\ g.holders = f.holders
      /\ g.amount = f.amount /\ g.debt = D /\ g.claimed = x /\ g.outsider = f.outsider
  BY <1>1 DEF FractionPool
<1> HIDE DEF g
<1>8. \A k \in Party : g.debt[k] <= g.per_fraction
  BY <1>1, <1>2, <1>3, <1>7
<1>9. SumFunction(Dues(g)) = SumFunction(Dues(f)) - Owed(f, h) /\ SumFunction(Dues(f)) \in Int /\ Owed(f, h) \in Int
  <2>1. IsFiniteSet(Party)
    BY LedgerAssumption
  <2>2. Dues(f) \in [Party -> Int] /\ Dues(g) \in [Party -> Int]
    BY <1>1, <1>6, <1>8, DuesType
  <2>3. \A k \in Party \ {h} : Dues(g)[k] = Dues(f)[k]
    BY <1>3, <1>7 DEF Dues, Owed
  <2>4. Dues(g)[h] = 0 /\ Dues(f)[h] = Owed(f, h)
    BY <1>2, <1>3, <1>7 DEF Dues, Owed
  <2>5. SumFunction(Dues(g)) = SumFunction(Dues(f)) + Dues(g)[h] - Dues(f)[h]
    BY <2>1, <2>2, <2>3, SumUpdate
  <2>6. SumFunction(Dues(f)) \in Int
    BY <2>1, <2>2, SumType
  <2> QED BY <2>2, <2>4, <2>5, <2>6
<1>10. PoolBacked(g)
  BY <1>1, <1>2, <1>4, <1>7, <1>9 DEF PoolBacked
<1> QED BY <1>5, <1>6, <1>8, <1>10, SoundAs

\* What a transfer does to the fields.
LEMMA HandedSound ==
  ASSUME NEW f, PoolSound(f), NEW from \in Party, NEW to \in Party, NEW n \in Nat, f.amount[from] >= n
  PROVE  PoolSound(Handed(f, from, to, n))
<1> DEFINE D == [f.debt EXCEPT ![from] = IF Owed(f, from) > 0 THEN f.per_fraction ELSE @, ![to] = f.per_fraction]
           A1 == [f.amount EXCEPT ![from] = @ - n]
           A == [A1 EXCEPT ![to] = @ + n]
           H == f.holders \cup {to}
           g == [f EXCEPT !.debt = D, !.amount = A, !.holders = H]
<1>1. f \in FractionPool /\ (\A k \in Party : f.debt[k] <= f.per_fraction) /\ PoolBacked(f)
  BY SoundAs
<1>2. f.per_fraction \in Nat /\ f.debt \in [Party -> Nat] /\ f.amount \in [Party -> Nat] /\ f.claimed \in Nat
      /\ f.holders \in SUBSET Party
  BY <1>1, PoolFields
<1>3. /\ D \in [Party -> Nat]
      /\ \A k \in Party : D[k] = IF k = to THEN f.per_fraction
                                 ELSE IF k = from /\ Owed(f, from) > 0 THEN f.per_fraction ELSE f.debt[k]
  BY <1>2
<1>4. /\ A1 \in [Party -> Nat] /\ A1[from] = f.amount[from] - n /\ \A k \in Party \ {from} : A1[k] = f.amount[k]
  BY <1>2
<1>5. Handed(f, from, to, n) = g
  <2>1. [f.amount EXCEPT ![from] = @ - n, ![to] = @ + n] = A
    OBVIOUS
  <2> QED BY <2>1, Zenon DEF Handed
<1> HIDE DEF A1
<1>6. /\ A \in [Party -> Nat] /\ A[to] = A1[to] + n /\ \A k \in Party \ {to} : A[k] = A1[k]
  BY <1>4
<1>7. H \in SUBSET Party /\ H = f.holders \cup {to}
  BY <1>2
<1> HIDE DEF D, A, H
<1>8. g \in FractionPool
  BY <1>1, <1>3, <1>6, <1>7 DEF FractionPool
<1>9. /\ g.supply = f.supply /\ g.revenue = f.revenue /\ g.per_fraction = f.per_fraction /\ g.holders = H
      /\ g.amount = A /\ g.debt = D /\ g.claimed = f.claimed /\ g.outsider = f.outsider
  BY <1>1 DEF FractionPool
<1> HIDE DEF g
<1>10. \A k \in Party : g.debt[k] <= g.per_fraction
  BY <1>1, <1>2, <1>3, <1>9
<1>11. SumFunction(A) = SumFunction(f.amount)
  <2>1. IsFiniteSet(Party) /\ A \in [Party -> Int] /\ A1 \in [Party -> Int] /\ f.amount \in [Party -> Int]
    BY <1>2, <1>4, <1>6, LedgerAssumption
  <2>2. SumFunction(A1) = SumFunction(f.amount) + A1[from] - f.amount[from]
    <3>1. Alters(Party, f.amount, A1, from)
      BY <1>4, <2>1 DEF Alters
    <3> QED BY <2>1, <3>1, SumAltered
  <2>3. SumFunction(A) = SumFunction(A1) + A[to] - A1[to]
    BY <1>6, <2>1, SumUpdate
  <2>4. SumFunction(A1) \in Int /\ SumFunction(f.amount) \in Int
    BY <2>1, SumType
  <2>5. A[to] \in Int /\ A1[to] \in Int /\ A1[from] \in Int /\ f.amount[from] \in Int
    BY <2>1
  <2> QED BY <1>4, <1>6, <2>2, <2>3, <2>4, <2>5
\* Who is owed something starts at the present mark; who is not has nothing or is there already.
<1>12. \A k \in Party : Dues(g)[k] <= Dues(f)[k]
  <2> SUFFICES ASSUME NEW k \in Party PROVE Dues(g)[k] <= Dues(f)[k]
    OBVIOUS
  <2>0. Dues(f)[k] \in Nat /\ Dues(f)[k] = Owed(f, k)
    BY <1>1, DuesType DEF Dues
  <2>1. Dues(g)[k] = (f.per_fraction - D[k]) * A[k]
    BY <1>9, Zenon DEF Dues, Owed
  <2>2. CASE k = to \/ (k = from /\ Owed(f, from) > 0)
    <3>1. D[k] = f.per_fraction
      BY <1>3, <2>2
    <3>2. f.per_fraction - D[k] = 0 /\ A[k] \in Nat
      BY <1>2, <1>6, <3>1
    <3>3. Dues(g)[k] = 0
      BY <2>1, <3>2
    <3> QED BY <2>0, <3>3
  <2>3. CASE k # to /\ k # from
    <3>1. D[k] = f.debt[k] /\ A[k] = f.amount[k]
      BY <1>3, <1>4, <1>6, <2>3
    <3> QED BY <2>0, <2>1, <3>1 DEF Owed
  <2>4. CASE k # to /\ k = from /\ ~(Owed(f, from) > 0)
    <3> DEFINE a == f.per_fraction - f.debt[k]
               b == f.amount[k]
    <3>1. a \in Nat /\ b \in Nat /\ a * b = 0
      BY <1>1, <1>2, <2>0, <2>4 DEF Owed
    <3>2. Dues(g)[k] = a * (b - n) /\ n <= b
      BY <1>3, <1>4, <1>6, <2>1, <2>4
    <3> HIDE DEF a, b
    <3>3. a = 0 \/ b = 0
      BY <3>1
    <3>4. a * (b - n) = 0
      BY <3>1, <3>2, <3>3
    <3> QED BY <2>0, <3>2, <3>4
  <2> QED BY <2>2, <2>3, <2>4
<1>13. SumFunction(Dues(g)) <= SumFunction(Dues(f)) /\ SumFunction(Dues(g)) \in Int /\ SumFunction(Dues(f)) \in Int
  <2>1. IsFiniteSet(Party)
    BY LedgerAssumption
  <2>2. Dues(f) \in [Party -> Int] /\ Dues(g) \in [Party -> Int]
    BY <1>1, <1>8, <1>10, DuesType
  <2> QED BY <1>12, <2>1, <2>2, SumLeq, SumType
<1>14. PoolBacked(g)
  <2> SUFFICES ASSUME ~f.outsider
               PROVE  /\ \A k \in Party \ H : A[k] = 0
                      /\ SumFunction(A) = f.supply
                      /\ f.claimed + SumFunction(Dues(g)) <= f.revenue
    BY <1>9 DEF PoolBacked
  <2>1. /\ \A k \in Party \ f.holders : f.amount[k] = 0
        /\ SumFunction(f.amount) = f.supply
        /\ f.claimed + SumFunction(Dues(f)) <= f.revenue
    BY <1>1 DEF PoolBacked
  <2>2. ASSUME NEW k \in Party \ H PROVE A[k] = 0
    <3>1. k # to /\ f.amount[k] = 0
      BY <1>7, <2>1, <2>2
    <3>2. k # from => A[k] = 0
      BY <1>4, <1>6, <3>1
    <3>3. k = from => n = 0 /\ A[k] = 0
      BY <1>4, <1>6, <3>1
    <3> QED BY <3>2, <3>3
  <2>3. f.revenue \in Nat
    BY <1>1, PoolFields
  <2> QED BY <1>2, <1>11, <1>13, <2>1, <2>2, <2>3
<1> QED BY <1>5, <1>8, <1>10, <1>14, SoundAs

LEMMA BoughtOutSound ==
  ASSUME NEW f, PoolSound(f), NEW buyer \in Party
  PROVE  PoolSound(BoughtOut(f, buyer))
<1> DEFINE o == f.outsider \/ buyer \notin f.holders
           A == [h \in Party |-> IF h = buyer THEN f.supply ELSE IF h \in f.holders THEN 0 ELSE f.amount[h]]
           D == [h \in Party |-> IF h = buyer \/ (h \in f.holders /\ f.amount[h] > 0)
                                 THEN f.per_fraction ELSE f.debt[h]]
           g == [f EXCEPT !.outsider = o, !.amount = A, !.debt = D]
<1>1. f \in FractionPool /\ (\A k \in Party : f.debt[k] <= f.per_fraction) /\ PoolBacked(f)
  BY SoundAs
<1>2. f.per_fraction \in Nat /\ f.debt \in [Party -> Nat] /\ f.amount \in [Party -> Nat] /\ f.claimed \in Nat
      /\ f.holders \in SUBSET Party /\ f.supply \in Nat /\ f.revenue \in Nat /\ f.outsider \in BOOLEAN
  BY <1>1, PoolFields
<1>3. /\ A \in [Party -> Nat] /\ D \in [Party -> Nat]
      /\ \A k \in Party : D[k] = (IF k = buyer \/ (k \in f.holders /\ f.amount[k] > 0)
                                  THEN f.per_fraction ELSE f.debt[k])
      /\ \A k \in Party : A[k] = (IF k = buyer THEN f.supply ELSE IF k \in f.holders THEN 0 ELSE f.amount[k])
  BY <1>2
<1>4. BoughtOut(f, buyer) = g
  BY Zenon DEF BoughtOut
<1>5. o \in BOOLEAN /\ (~o => ~f.outsider /\ buyer \in f.holders)
  BY <1>2
<1> HIDE DEF o, A, D
<1>6. g \in FractionPool
  BY <1>1, <1>3, <1>5 DEF FractionPool
<1>7. /\ g.supply = f.supply /\ g.revenue = f.revenue /\ g.per_fraction = f.per_fraction /\ g.holders = f.holders
      /\ g.amount = A /\ g.debt = D /\ g.claimed = f.claimed /\ g.outsider = o
  BY <1>1 DEF FractionPool
<1> HIDE DEF g
<1>8. \A k \in Party : g.debt[k] <= g.per_fraction
  BY <1>1, <1>2, <1>3, <1>7
<1>9. ASSUME ~o
      PROVE  /\ \A k \in Party \ f.holders : A[k] = 0
             /\ SumFunction(A) = f.supply
             /\ f.claimed + SumFunction(Dues(g)) <= f.revenue
  <2>0. IsFiniteSet(Party)
    BY LedgerAssumption
  <2>1. /\ \A k \in Party \ f.holders : f.amount[k] = 0
        /\ f.claimed + SumFunction(Dues(f)) <= f.revenue
    BY <1>1, <1>5, <1>9 DEF PoolBacked
  <2>2. \A k \in Party : k # buyer => A[k] = 0
    BY <1>3, <2>1
  <2>3. \A k \in Party \ f.holders : A[k] = 0
    BY <1>5, <1>9, <2>2
  <2>4. SumFunction(A) = f.supply
    <3> DEFINE B == [h \in Party |-> 0]
    <3>1. B \in [Party -> Int] /\ (\A h \in Party : B[h] = 0) /\ A \in [Party -> Int]
      BY <1>3
    <3> HIDE DEF B
    <3>2. SumFunction(B) = 0
      BY <2>0, <3>1, SumZero
    <3>3. \A h \in Party \ {buyer} : A[h] = B[h]
      BY <2>2, <3>1
    <3>4. SumFunction(A) = SumFunction(B) + A[buyer] - B[buyer]
      BY <2>0, <3>1, <3>3, SumUpdate
    <3>5. A[buyer] = f.supply /\ B[buyer] = 0
      BY <1>3, <3>1
    <3> QED BY <1>2, <3>2, <3>4, <3>5
  <2>5. Dues(f) \in [Party -> Nat] /\ Dues(g) \in [Party -> Int]
    BY <1>1, <1>6, <1>8, DuesType
  <2>6. \A k \in Party : Dues(g)[k] = 0
    <3> SUFFICES ASSUME NEW k \in Party PROVE Dues(g)[k] = 0
      OBVIOUS
    <3>1. Dues(g)[k] = (f.per_fraction - D[k]) * A[k]
      BY <1>7, Zenon DEF Dues, Owed
    <3>2. f.per_fraction - D[k] \in Int /\ A[k] \in Int
      BY <1>2, <1>3
    <3>3. f.per_fraction - D[k] = 0 \/ A[k] = 0
      BY <1>2, <1>3, <2>2
    <3> QED BY <3>1, <3>2, <3>3
  <2>7. SumFunction(Dues(g)) = 0 /\ SumFunction(Dues(f)) \in Nat
    BY <2>0, <2>5, <2>6, SumZero, SumNat
  <2> QED BY <1>2, <2>1, <2>3, <2>4, <2>7
<1>10. PoolBacked(g)
  BY <1>7, <1>9 DEF PoolBacked
<1> QED BY <1>4, <1>6, <1>8, <1>10, SoundAs

\* Whatever a call does, it does it to one pool.
LEMMA PoolReplaced ==
  ASSUME FractionsInv, NEW c \in Party, NEW f, PoolSound(f), fractions' = [fractions EXCEPT ![c] = f]
  PROVE  FractionsInv'
<1>1. DOMAIN fractions' = Party
  BY DEF FractionsInv
<1>2. ASSUME NEW d \in Party, fractions'[d] # None PROVE PoolSound(fractions'[d])
  <2>1. d = c => fractions'[d] = f
    BY DEF FractionsInv
  <2>2. d # c => fractions'[d] = fractions[d]
    BY DEF FractionsInv
  <2> QED BY <1>2, <2>1, <2>2 DEF FractionsInv
<1> QED BY <1>1, <1>2 DEF FractionsInv, PoolSound, Owed

LEMMA FractionsStep ==
  ASSUME FractionsInv, FractionsNext
  PROVE  FractionsInv'
<1> PICK c \in Party :
      \/ \E n \in Supplies, price \in BuyoutPrices : mint_fractions(c, n, price)
      \/ \E x \in Amounts : accrue_revenue(c, x)
      \/ \E h \in Party : \/ claim_revenue(c, h) \/ buyout(c, h)
                          \/ \E to \in Party, n \in Lots : transfer_fractions(c, h, to, n)
  BY DEF FractionsNext
<1> DEFINE f == fractions[c]
<1>0. f # None => PoolSound(f)
  BY DEF FractionsInv
<1>1. ASSUME NEW n \in Supplies, NEW price \in BuyoutPrices, mint_fractions(c, n, price) PROVE FractionsInv'
  <2>1. n \in Nat \ {0} /\ price \in Int
    BY SharesAssumption
  <2> DEFINE fresh == [supply |-> n, revenue |-> 0, per_fraction |-> 0, price |-> price, holders |-> {c},
                     amount |-> [h \in Party |-> IF h = c THEN n ELSE 0], debt |-> PerParty(0), claimed |-> 0,
                     outsider |-> FALSE]
  <2>2. PoolSound(fresh)
    BY <2>1, MintedSound
  <2>3. fractions' = [fractions EXCEPT ![c] = fresh]
    BY <1>1, Zenon DEF mint_fractions
  <2> HIDE DEF fresh
  <2> QED BY <2>2, <2>3, PoolReplaced
<1>2. ASSUME NEW x \in Amounts, accrue_revenue(c, x) PROVE FractionsInv'
  <2>1. x \in Nat
    BY LedgerAssumption
  <2>2. PoolSound(Accrued(f, x)) /\ fractions' = [fractions EXCEPT ![c] = Accrued(f, x)]
    BY <1>0, <1>2, <2>1, AccruedSound DEF accrue_revenue
  <2> QED BY <2>2, PoolReplaced
<1>3. ASSUME NEW h \in Party, claim_revenue(c, h) PROVE FractionsInv'
  <2>1. PoolSound(Claimed(f, h)) /\ fractions' = [fractions EXCEPT ![c] = Claimed(f, h)]
    BY <1>0, <1>3, ClaimedSound DEF claim_revenue
  <2> QED BY <2>1, PoolReplaced
<1>4. ASSUME NEW h \in Party, buyout(c, h) PROVE FractionsInv'
  <2>1. PoolSound(BoughtOut(f, h)) /\ fractions' = [fractions EXCEPT ![c] = BoughtOut(f, h)]
    BY <1>0, <1>4, BoughtOutSound DEF buyout
  <2> QED BY <2>1, PoolReplaced
<1>5. ASSUME NEW h \in Party, NEW to \in Party, NEW n \in Lots, transfer_fractions(c, h, to, n) PROVE FractionsInv'
  <2>1. n \in Nat
    BY SharesAssumption
  <2>2. f # None /\ f.amount[h] >= n /\ fractions' = [fractions EXCEPT ![c] = Handed(f, h, to, n)]
    BY <1>5 DEF transfer_fractions
  <2>3. PoolSound(Handed(f, h, to, n))
    BY <1>0, <2>1, <2>2, HandedSound
  <2> QED BY <2>2, <2>3, PoolReplaced
<1> QED BY <1>1, <1>2, <1>3, <1>4, <1>5

-----------------------------------------------------------------------------
\* Shards.
LEMMA ShardingFields ==
  ASSUME NEW h \in Sharding
  PROVE  /\ h.count \in 1 .. MaxShardCount /\ h.auto \in BOOLEAN /\ h.state \in [AllShards -> ShardState]
         /\ h.assigned \in [Party -> AllShards \cup {None}] /\ h.transfers \in Seq(ShardTransfer)
BY DEF Sharding
LEMMA ShardStateFields ==
  ASSUME NEW s \in ShardState
  PROVE  s.status \in {"Active", "Draining"} /\ s.tips \in Nat /\ s.volume \in Nat
BY DEF ShardState
LEMMA CountedType ==
  ASSUME NEW s \in ShardState, NEW x \in Nat
  PROVE  Counted(s, x) \in ShardState /\ Counted(s, x).status = s.status
<1> DEFINE a == s.tips + 1
           b == s.volume + x
<1>1. a \in Nat /\ b \in Nat /\ Counted(s, x) = [s EXCEPT !.tips = a, !.volume = b]
  BY ShardStateFields DEF Counted
<1> HIDE DEF a, b
<1> QED BY <1>1 DEF ShardState
LEMMA ShardsUsed ==
  ASSUME NEW n \in 1 .. MaxShardCount
  PROVE  n \in Nat \ {0} /\ 0 .. n - 1 \subseteq AllShards /\ IsFiniteSet(0 .. n - 1) /\ 0 \in 0 .. n - 1
<1>1. n \in Nat \ {0} /\ n <= MaxShardCount
  BY ShardsAssumption
<1>2. IsFiniteSet(0 .. n - 1)
  BY <1>1, FS_Interval
<1> QED BY <1>1, <1>2, ShardsAssumption DEF AllShards

\* Some shard has no more than the average.
LEMMA SomeAtAverage ==
  ASSUME NEW n \in Nat \ {0}, NEW f \in [0 .. n - 1 -> Nat]
  PROVE  /\ SumFunction(f) \in Nat /\ SumFunction(f) \div n \in Nat
         /\ \E i \in 0 .. n - 1 : f[i] <= SumFunction(f) \div n
<1> DEFINE D == 0 .. n - 1
           t == SumFunction(f)
           a == t \div n
           c == a + 1
           g == [i \in D |-> c]
           e == [i \in {} |-> c]
<1>1. IsFiniteSet(D)
  BY FS_Interval
<1>2. t \in Nat
  BY <1>1, SumNat
<1> HIDE DEF t
<1>3. a \in Nat /\ t < c * n
  BY <1>2
<1> HIDE DEF a
<1>4. c \in Nat
  BY <1>3
<1> HIDE DEF c
<1>5. SumFunction(e) = 0
  <2>1. e \in [{} -> Int]
    OBVIOUS
  <2> HIDE DEF e
  <2> QED BY <2>1, SumEmpty
<1>6. GoesOn(e, g, 0, 0, n, c)
  <2>1. 0 .. 0 - 1 = {} /\ 0 .. 0 + n - 1 = D
    OBVIOUS
  <2>2. e \in [{} -> Int] /\ g \in [D -> Int] /\ \A i \in D : g[i] = c
    BY <1>4
  <2> HIDE DEF e, g, D
  <2> QED BY <2>1, <2>2 DEF GoesOn
<1> HIDE DEF e
<1>7. SumFunction(g) = c * n
  <2>1. SumFunction(g) = SumFunction(e) + c * n
    <3> DEFINE z == 0
    <3>1. z \in Int /\ z <= z /\ n \in Nat /\ c \in Int /\ GoesOn(e, g, z, z, n, c)
      BY <1>4, <1>6
    <3> HIDE DEF z, g
    <3> QED BY <3>1, SumGoesOn
  <2>2. c * n \in Int
    BY <1>4
  <2> QED BY <1>5, <2>1, <2>2
<1>8. ASSUME \A i \in D : ~(f[i] <= a) PROVE FALSE
  <2>1. g \in [D -> Int] /\ f \in [D -> Int] /\ \A i \in D : g[i] <= f[i]
    BY <1>3, <1>8 DEF c
  <2> HIDE DEF g, D
  <2>2. SumFunction(g) <= t
    BY <1>1, <2>1, SumLeq DEF t
  <2>3. c * n \in Int
    BY <1>4
  <2> QED BY <1>2, <1>3, <1>7, <2>2, <2>3
<1> QED BY <1>2, <1>3, <1>8 DEF t, a

Accepts(h) == \E i \in 0 .. h.count - 1 : h.state[i].status = "Active"
Restated(h, S) == [h EXCEPT !.state = S]
LEMMA Rebalanced ==
  ASSUME NEW h \in Sharding, Accepts(h)
  PROVE  maybe_rebalance(h) \in Sharding /\ Accepts(maybe_rebalance(h))
<1> DEFINE n == h.count
           used == 0 .. n - 1
           f == [i \in used |-> h.state[i].tips]
           total == SumFunction(f)
           avg == total \div n
           top == (avg * Threshold) \div Bps
           Status(s) == IF s.tips > top THEN "Draining" ELSE IF s.tips <= avg THEN "Active" ELSE s.status
           S == [i \in AllShards |-> IF i \in used THEN [h.state[i] EXCEPT !.status = Status(h.state[i])] ELSE h.state[i]]
<1>1. maybe_rebalance(h) = IF total = 0 THEN h ELSE Restated(h, S)
  BY Zenon DEF maybe_rebalance, Restated
<1>2. n \in Nat \ {0} /\ used \subseteq AllShards /\ h.state \in [AllShards -> ShardState]
  BY ShardingFields, ShardsUsed
<1>3. \A i \in AllShards : h.state[i] \in ShardState /\ h.state[i].tips \in Nat /\ h.state[i].status \in {"Active", "Draining"}
  BY <1>2, ShardStateFields
<1>4. f \in [0 .. n - 1 -> Nat] /\ \A i \in used : f[i] = h.state[i].tips
  <2> HIDE DEF n
  <2> QED BY <1>2, <1>3
<1> HIDE DEF f, n
<1>5. avg \in Nat /\ \E i \in used : f[i] <= avg
  BY <1>2, <1>4, SomeAtAverage
<1> HIDE DEF avg, total
<1>6. top \in Nat /\ avg <= top
  <2> DEFINE T == Threshold
             B == Bps
             m == avg * T
  <2>1. T \in Nat /\ B \in Nat \ {0} /\ T >= B
    BY LedgerAssumption, ShardsAssumption
  <2>2. m \in Nat /\ avg * B <= m
    <3> DEFINE d == T - B
    <3>1. d \in Nat /\ T = B + d
      BY <2>1
    <3> HIDE DEF d, T, B
    <3>2. avg * T = avg * B + avg * d /\ avg * d \in Nat /\ avg * B \in Nat
      BY <1>5, <2>1, <3>1
    <3> QED BY <3>2
  <2>3. top = m \div B
    OBVIOUS
  <2> HIDE DEF T, B, m, top
  <2>4. top \in Int /\ B * top <= m /\ m < B * (top + 1)
    BY <2>1, <2>2, <2>3
  <2>5. avg < top + 1
    <3> SUFFICES ASSUME avg >= top + 1 PROVE FALSE
      BY <1>5, <2>4
    <3> DEFINE d == avg - (top + 1)
    <3>1. d \in Nat /\ avg = top + 1 + d
      BY <1>5, <2>4
    <3> HIDE DEF d
    <3>2. avg * B = B * (top + 1) + B * d /\ B * d \in Nat
      BY <2>1, <2>4, <3>1
    <3> QED BY <2>1, <2>2, <2>4, <3>2
  <2> QED BY <1>5, <2>4, <2>5
<1> HIDE DEF top
<1>7. \A i \in AllShards :
        /\ S[i] \in ShardState
        /\ i \in used /\ h.state[i].tips <= avg => S[i].status = "Active"
  <2> SUFFICES ASSUME NEW i \in AllShards
               PROVE  S[i] \in ShardState /\ (i \in used /\ h.state[i].tips <= avg => S[i].status = "Active")
    OBVIOUS
  <2> DEFINE s == h.state[i]
             u == Status(s)
             e == [s EXCEPT !.status = u]
  <2>1. S[i] = IF i \in used THEN e ELSE s
    OBVIOUS
  <2>2. s \in ShardState /\ s.tips \in Nat /\ s.status \in {"Active", "Draining"}
    BY <1>3
  <2>3. u \in {"Active", "Draining"} /\ (s.tips <= avg => u = "Active")
    BY <1>5, <1>6, <2>2
  <2> HIDE DEF s, u, S
  <2>4. e \in ShardState /\ e.status = u
    BY <2>2, <2>3 DEF ShardState
  <2> HIDE DEF e
  <2>5. s.tips = h.state[i].tips
    BY DEF s
  <2> QED BY <2>1, <2>2, <2>3, <2>4, <2>5
<1>8. S \in [AllShards -> ShardState]
  BY <1>7
<1> HIDE DEF S
<1>9. Restated(h, S) \in Sharding /\ Restated(h, S).count = n /\ Restated(h, S).state = S
  BY <1>8 DEF Restated, Sharding, n
<1>10. \E i \in 0 .. n - 1 : S[i].status = "Active"
  <2>1. PICK i \in used : f[i] <= avg
    BY <1>5
  <2>2. i \in AllShards /\ h.state[i].tips <= avg
    BY <1>2, <1>4, <2>1
  <2> QED BY <1>7, <2>1, <2>2
<1>11. Accepts(Restated(h, S))
  BY <1>9, <1>10 DEF Accepts
<1> QED BY <1>1, <1>9, <1>11

LEMMA ShardingNow ==
  ASSUME ShardingInv
  PROVE  sharding \in Sharding /\ Accepts(sharding)
BY DEF ShardingInv, SomeShardAccepts, Accepts
LEMMA ShardingMade ==
  ASSUME sharding' \in Sharding, Accepts(sharding')
  PROVE  ShardingInv'
<1>1. sharding'.assigned \in [Party -> AllShards \cup {None}]
  BY ShardingFields
<1>2. \A p \in Party : sharding'.assigned[p] # None => sharding'.assigned[p] \in AllShards
  BY <1>1
<1> QED BY <1>2 DEF ShardingInv, SomeShardAccepts, Accepts, Sharding, ShardState, ShardTransfer

LEMMA ShardingStarted ==
  ASSUME ShardingInv, NEW n \in ShardCounts, NEW auto \in BOOLEAN, init_sharding(n, auto)
  PROVE  ShardingInv'
<1> DEFINE S == [i \in AllShards |-> IF i < n THEN NewShard ELSE sharding.state[i]]
<1>1. sharding \in Sharding /\ sharding.state \in [AllShards -> ShardState]
  BY ShardingNow, ShardingFields
<1>2. n \in 1 .. MaxShardCount /\ n \in Nat \ {0} /\ 0 .. n - 1 \subseteq AllShards /\ 0 \in 0 .. n - 1
  BY ShardsAssumption, ShardsUsed
<1>3. NewShard \in ShardState /\ NewShard.status = "Active"
  BY DEF NewShard, ShardState
<1>4. S \in [AllShards -> ShardState]
  BY <1>1, <1>3
<1>5. S[0].status = "Active"
  <2>1. 0 \in AllShards /\ 0 < n
    BY <1>2
  <2> QED BY <1>3, <2>1
<1>6. sharding' = [sharding EXCEPT !.count = n, !.auto = auto, !.state = S]
  BY Zenon DEF init_sharding
<1> HIDE DEF S
<1>7. sharding' \in Sharding
  BY <1>1, <1>2, <1>4, <1>6 DEF Sharding
<1>8. sharding'.count = n /\ sharding'.state = S
  BY <1>1, <1>6 DEF Sharding
<1>9. Accepts(sharding')
  BY <1>2, <1>5, <1>8 DEF Accepts
<1> QED BY <1>7, <1>9, ShardingMade

\* Counting in a shard leaves its status.
Noted(h, A, i, s) == [h EXCEPT !.assigned = A, !.state = Put(h.state, i, s)]
LEMMA NotedKeeps ==
  ASSUME NEW h \in Sharding, Accepts(h), NEW A \in [Party -> AllShards \cup {None}], NEW i \in AllShards,
         NEW s \in ShardState, s.status = h.state[i].status
  PROVE  Noted(h, A, i, s) \in Sharding /\ Accepts(Noted(h, A, i, s)) /\ Noted(h, A, i, s).auto = h.auto
<1> DEFINE S == Put(h.state, i, s)
           g == [h EXCEPT !.assigned = A, !.state = S]
<1>1. h.state \in [AllShards -> ShardState] /\ h.count \in 1 .. MaxShardCount
  BY ShardingFields
<1>2. S \in [AllShards -> ShardState] /\ \A k \in AllShards : S[k] = IF k = i THEN s ELSE h.state[k]
  BY <1>1 DEF Put
<1>3. Noted(h, A, i, s) = g
  BY DEF Noted
<1> HIDE DEF S
<1>4. g \in Sharding
  BY <1>2 DEF Sharding
<1>5. g.count = h.count /\ g.state = S /\ g.auto = h.auto
  BY DEF Sharding
<1> HIDE DEF g
<1>6. PICK k \in 0 .. h.count - 1 : h.state[k].status = "Active"
  BY DEF Accepts
<1>7. k \in AllShards /\ S[k].status = "Active"
  <2>1. k \in AllShards
    BY <1>1, <1>6, ShardsUsed
  <2> QED BY <1>2, <1>6, <2>1
<1>8. Accepts(g)
  BY <1>5, <1>6, <1>7 DEF Accepts
<1> QED BY <1>3, <1>4, <1>5, <1>8

LEMMA ShardTipRecorded ==
  ASSUME ShardingInv, NEW p \in Party, NEW x \in Nat, record_tip_in_shard(p, x)
  PROVE  ShardingInv'
<1> DEFINE i == get_assignment(p)
           A == Put(sharding.assigned, p, i)
           s == Counted(sharding.state[i], x)
           h == Noted(sharding, A, i, s)
<1>1. sharding \in Sharding /\ Accepts(sharding)
  BY ShardingNow
<1>2. /\ sharding.state \in [AllShards -> ShardState] /\ sharding.count \in 1 .. MaxShardCount
      /\ sharding.assigned \in [Party -> AllShards \cup {None}] /\ sharding.auto \in BOOLEAN
  BY <1>1, ShardingFields
<1>3. i \in AllShards
  <2>1. AddressHash[p] % sharding.count \in 0 .. sharding.count - 1
    <3> DEFINE a == AddressHash[p]
               n == sharding.count
    <3>1. a \in Nat /\ n \in Nat \ {0}
      BY <1>2, ShardsAssumption, ShardsUsed
    <3> HIDE DEF a, n
    <3>2. a % n \in 0 .. n - 1
      BY <3>1
    <3> QED BY <3>2 DEF a, n
  <2>2. 0 .. sharding.count - 1 \subseteq AllShards
    BY <1>2, ShardsUsed
  <2> QED BY <1>2, <2>1, <2>2 DEF get_assignment, assign_shard
<1>4. s \in ShardState /\ s.status = sharding.state[i].status
  <2>1. sharding.state[i] \in ShardState
    BY <1>2, <1>3
  <2> QED BY <2>1, CountedType
<1>5. A \in [Party -> AllShards \cup {None}]
  BY <1>2, <1>3 DEF Put
<1>6. sharding' = IF sharding.auto THEN maybe_rebalance(h) ELSE h
  <2>1. h = [sharding EXCEPT !.assigned[p] = i, !.state[i] = Counted(@, x)]
    <3>1. h = [sharding EXCEPT !.assigned = A, !.state = Put(sharding.state, i, s)]
      BY Zenon DEF Noted
    <3> HIDE DEF i, h
    <3> QED BY <1>1, <3>1 DEF Put, Sharding
  <2> DEFINE k == [sharding EXCEPT !.assigned[p] = i, !.state[i] = Counted(@, x)]
  <2>2. sharding' = IF sharding.auto THEN maybe_rebalance(k) ELSE k
    BY Zenon DEF record_tip_in_shard
  <2>3. h = k
    BY <2>1
  <2> HIDE DEF h, k
  <2> QED BY <2>2, <2>3, Zenon
<1> HIDE DEF i, s, A
<1>7. h \in Sharding /\ Accepts(h)
  BY <1>1, <1>3, <1>4, <1>5, NotedKeeps
<1> HIDE DEF h
<1>8. sharding' \in Sharding /\ Accepts(sharding')
  BY <1>6, <1>7, Rebalanced
<1> QED BY <1>8, ShardingMade

AmountMoved(h, q) == [h EXCEPT !.transfers = q]
LEMMA MovedKeeps ==
  ASSUME NEW h \in Sharding, Accepts(h), NEW q \in Seq(ShardTransfer)
  PROVE  AmountMoved(h, q) \in Sharding /\ Accepts(AmountMoved(h, q))
<1>1. AmountMoved(h, q) \in Sharding
  BY DEF AmountMoved, Sharding
<1>2. AmountMoved(h, q).count = h.count /\ AmountMoved(h, q).state = h.state
  BY DEF AmountMoved, Sharding
<1> QED BY <1>1, <1>2 DEF Accepts

LEMMA TransferOpened ==
  ASSUME ShardingInv, NEW from \in AllShards, NEW to \in AllShards, NEW x \in Nat, cross_shard_transfer(from, to, x)
  PROVE  ShardingInv'
<1> DEFINE e == [from |-> from, to |-> to, amount |-> x, finalized |-> FALSE]
           q == Append(sharding.transfers, e)
<1>1. sharding \in Sharding /\ Accepts(sharding) /\ sharding.transfers \in Seq(ShardTransfer)
  BY ShardingNow, ShardingFields
<1>2. e \in ShardTransfer
  BY DEF ShardTransfer
<1>3. sharding' = AmountMoved(sharding, q)
  BY DEF cross_shard_transfer, AmountMoved
<1> HIDE DEF e
<1>4. q \in Seq(ShardTransfer)
  BY <1>1, <1>2
<1> HIDE DEF q
<1>5. sharding' \in Sharding /\ Accepts(sharding')
  BY <1>1, <1>3, <1>4, MovedKeeps
<1> QED BY <1>5, ShardingMade

LEMMA TransferFinalized ==
  ASSUME ShardingInv, NEW k \in DOMAIN sharding.transfers, finalize_transfer(k)
  PROVE  ShardingInv'
<1> DEFINE q == sharding.transfers
           e == q[k]
           d == [e EXCEPT !.finalized = TRUE]
           r == Put(q, k, d)
           i == e.to
           s == Counted(sharding.state[i], e.amount)
           A == sharding.assigned
           h == AmountMoved(sharding, r)
           g == Noted(h, A, i, s)
<1>1. sharding \in Sharding /\ Accepts(sharding) /\ q \in Seq(ShardTransfer)
      /\ sharding.state \in [AllShards -> ShardState] /\ A \in [Party -> AllShards \cup {None}]
  BY ShardingNow, ShardingFields
<1>2. e \in ShardTransfer
  BY <1>1
<1>3. i \in AllShards /\ e.amount \in Nat
  BY <1>2 DEF ShardTransfer
<1>4. d \in ShardTransfer
  <2> HIDE DEF e
  <2> QED BY <1>2 DEF ShardTransfer
<1>5. s \in ShardState /\ s.status = sharding.state[i].status
  <2>1. sharding.state[i] \in ShardState
    BY <1>1, <1>3
  <2> HIDE DEF i
  <2> QED BY <1>3, <2>1, CountedType
<1>6. r \in Seq(ShardTransfer)
  <2> HIDE DEF d
  <2> QED BY <1>1, <1>4 DEF Put
<1>7. sharding' = g
  <2>1. sharding' = [sharding EXCEPT !.transfers = r, !.state = Put(sharding.state, i, s)]
    BY DEF finalize_transfer, Put
  <2> HIDE DEF r, s, i
  <2>2. h.state = sharding.state
    BY <1>1 DEF AmountMoved, Sharding
  <2> DEFINE S == Put(sharding.state, i, s)
  <2>3. g = [h EXCEPT !.assigned = A, !.state = S]
    BY <2>2, Zenon DEF Noted
  <2> HIDE DEF S, h, g
  <2>4. g = [[sharding EXCEPT !.transfers = r] EXCEPT !.assigned = A, !.state = S]
    BY <2>3, Zenon DEF h, AmountMoved
  <2>5. sharding' = [sharding EXCEPT !.transfers = r, !.state = S]
    BY <2>1, Zenon DEF S
  <2> QED BY <1>1, <2>4, <2>5 DEF Sharding
<1> HIDE DEF r, s, i, A
<1>8. h \in Sharding /\ Accepts(h)
  BY <1>1, <1>6, MovedKeeps
<1>9. h.state = sharding.state
  BY <1>1 DEF AmountMoved, Sharding
<1> HIDE DEF h
<1>10. sharding' \in Sharding /\ Accepts(sharding')
  BY <1>1, <1>3, <1>5, <1>7, <1>8, <1>9, NotedKeeps
<1> QED BY <1>10, ShardingMade

LEMMA ShardingStep ==
  ASSUME ShardingInv, ShardingNext
  PROVE  ShardingInv'
<1>1. \A x \in Amounts : x \in Nat
  BY LedgerAssumption
<1>2. ASSUME shard_rebalance PROVE ShardingInv'
  BY <1>2, ShardingNow, Rebalanced, ShardingMade DEF shard_rebalance
<1>3. ASSUME NEW p \in Party, NEW x \in Amounts, record_tip_in_shard(p, x) PROVE ShardingInv'
  BY <1>1, <1>3, ShardTipRecorded
<1>4. ASSUME NEW from \in AllShards, NEW to \in AllShards, NEW x \in Amounts, cross_shard_transfer(from, to, x) PROVE ShardingInv'
  BY <1>1, <1>4, TransferOpened
<1> QED BY <1>2, <1>3, <1>4, ShardingStarted, TransferFinalized, Zenon DEF ShardingNext

-----------------------------------------------------------------------------
\* Composed NFTs.  How often s lists j among its children.
Lists(s, j) == Copies(s.children, j)
LEMMA ListsIs ==
  ASSUME NEW s, NEW j
  PROVE  Lists(s, j) = IF j \in DOMAIN s.children THEN s.children[j] ELSE 0
BY DEF Lists, Copies
LEMMA NftFields ==
  ASSUME NEW n \in Nat, NEW s, NftSound(s, n)
  PROVE  /\ s.owner \in Party /\ s.parent \in (1 .. n) \cup {None}
         /\ DOMAIN s.children \subseteq 1 .. n /\ s.children \in [DOMAIN s.children -> Nat \ {0}]
<1> DEFINE K == DOMAIN s.children
           C == [K -> Nat \ {0}]
           P == (1 .. n) \cup {None}
<1>1. s \in [owner : Party, parent : P, children : C] /\ K \subseteq 1 .. n
  BY DEF NftSound, ComposableNft
<1> HIDE DEF K, C, P
<1>2. s.owner \in Party /\ s.parent \in P /\ s.children \in C
  BY <1>1
<1> QED BY <1>1, <1>2 DEF K, C, P
\* An NFT is sound whose fields are.
NftParts(n, o, v, K, B) ==
  o \in Party /\ v \in (1 .. n) \cup {None} /\ K \subseteq 1 .. n /\ B \in [K -> Nat \ {0}]
NftOf(o, v, B) == [owner |-> o, parent |-> v, children |-> B]
LEMMA NftMade ==
  ASSUME NEW n, NEW o, NEW v, NEW K, NEW B, NftParts(n, o, v, K, B), NEW s, s = NftOf(o, v, B)
  PROVE  NftSound(s, n) /\ s.owner = o /\ s.parent = v /\ s.children = B
<1> USE DEF NftParts, NftOf
<1>1. s.owner = o /\ s.parent = v /\ s.children = B /\ DOMAIN B = K
  OBVIOUS
<1>2. s \in [owner : Party, parent : (1 .. n) \cup {None}, children : [K -> Nat \ {0}]]
  <2> DEFINE C == [K -> Nat \ {0}]
             P == (1 .. n) \cup {None}
  <2>1. B \in C /\ v \in P
    OBVIOUS
  <2> HIDE DEF C, P
  <2>2. s \in [owner : Party, parent : P, children : C]
    BY <2>1
  <2> QED BY <2>2 DEF C, P
<1> QED BY <1>1, <1>2 DEF NftSound, ComposableNft
LEMMA NftAs ==
  ASSUME NEW n \in Nat, NEW s, NftSound(s, n)
  PROVE  s = [owner |-> s.owner, parent |-> s.parent, children |-> s.children]
<1> DEFINE C == [DOMAIN s.children -> Nat \ {0}]
           P == (1 .. n) \cup {None}
<1>1. s \in [owner : Party, parent : P, children : C]
  BY DEF NftSound, ComposableNft
<1> HIDE DEF C, P
<1> QED BY <1>1

\* What the invariant says of a list of NFTs, one pair at a time.
PairTied(q, i, j) ==
  /\ q[j].parent = i => q[i].owner = q[j].owner
  /\ Lists(q[i], j) = IF q[j].parent = i THEN 1 ELSE 0
AllTied(q) ==
  /\ \A i \in 1 .. Len(q) : NftSound(q[i], Len(q)) /\ q[i].parent # i
  /\ \A i, j \in 1 .. Len(q) : PairTied(q, i, j)
LEMMA NftsNow ==
  ASSUME NftsInv
  PROVE  nfts \in Seq(Range(nfts)) /\ AllTied(nfts)
<1>1. nfts \in Seq(Range(nfts))
  BY DEF NftsInv
<1>2. DOMAIN nfts = 1 .. Len(nfts)
  BY <1>1
<1> QED BY <1>1, <1>2 DEF NftsInv, ChildrenAgree, AllTied, PairTied, Lists
LEMMA NftsMade ==
  ASSUME NEW S, nfts' \in Seq(S), AllTied(nfts')
  PROVE  NftsInv'
<1>1. DOMAIN nfts' = 1 .. Len(nfts') /\ Len(nfts') \in Nat
  OBVIOUS
<1>2. nfts' \in Seq(Range(nfts'))
  <2>1. nfts' \in [1 .. Len(nfts') -> Range(nfts')]
    BY <1>1 DEF Range
  <2> QED BY <1>1, <2>1, SeqDef
<1>3. \A i \in DOMAIN nfts' : NftSound(nfts'[i], Len(nfts')) /\ nfts'[i].parent # i
  BY <1>1 DEF AllTied
<1>4. ChildrenAgree'
  BY <1>1 DEF AllTied, PairTied, Lists, ChildrenAgree
<1> QED BY <1>2, <1>3, <1>4 DEF NftsInv, NftSound, ComposableNft

LEMMA NftMinted ==
  ASSUME NftsInv, NEW p \in Party, nft_mint(p)
  PROVE  NftsInv'
<1> DEFINE n == Len(nfts)
           e == [owner |-> p, parent |-> None, children |-> <<>>]
           q == Append(nfts, e)
           S == Range(nfts) \cup {e}
<1>1. nfts \in Seq(Range(nfts)) /\ AllTied(nfts) /\ n \in Nat
  BY NftsNow
<1>2. nfts' = q
  BY DEF nft_mint
<1>3. NftSound(e, n + 1) /\ e.owner = p /\ e.parent = None /\ e.children = <<>>
  <2> DEFINE B == <<>>
             v == None
             m == n + 1
             K == {}
  <2>1. B \in [K -> Nat \ {0}] /\ K \in SUBSET (1 .. m) /\ v \in (1 .. m) \cup {None} /\ m \in Nat
    BY <1>1 DEF Copies
  <2>2. e = [owner |-> p, parent |-> v, children |-> B]
    OBVIOUS
  <2> HIDE DEF B, v, m, K, e
  <2>3. NftSound(e, m) /\ e.owner = p /\ e.parent = v /\ e.children = B
    <3>1. NftParts(m, p, v, K, B) /\ e = NftOf(p, v, B)
      BY <2>1, <2>2 DEF NftParts, NftOf
    <3>2. NftSound(e, m)
      BY <3>1, NftMade, Zenon
    <3>3. e.owner = p /\ e.parent = v /\ e.children = B
      BY <3>1 DEF NftOf
    <3> QED BY <3>2, <3>3, Zenon
  <2> QED BY <2>3 DEF B, v, m
<1>4. \A j : Lists(e, j) = 0
  BY <1>3, ListsIs DEF Copies
<1> HIDE DEF e
<1>5. /\ q \in Seq(S) /\ Len(q) = n + 1
      /\ \A i \in 1 .. n + 1 : q[i] = IF i = n + 1 THEN e ELSE nfts[i]
  <2> DEFINE R == Range(nfts)
  <2>1. nfts \in Seq(R) /\ S = R \cup {e}
    BY <1>1
  <2> HIDE DEF R, S
  <2>2. nfts \in Seq(S)
    <3>1. nfts \in [1 .. Len(nfts) -> S] /\ Len(nfts) \in Nat
      BY <2>1
    <3> QED BY <3>1, SeqDef
  <2>3. e \in S
    BY <2>1
  <2> QED BY <2>2, <2>3
<1> HIDE DEF q, S
<1>6. \A i \in 1 .. n : NftSound(nfts[i], n) /\ nfts[i].parent # i /\ \A j \in 1 .. n : PairTied(nfts, i, j)
  BY <1>1 DEF AllTied
<1>7. \A i \in 1 .. n : NftSound(nfts[i], n + 1) /\ Lists(nfts[i], n + 1) = 0 /\ nfts[i].parent # n + 1
  <2> SUFFICES ASSUME NEW i \in 1 .. n
               PROVE  NftSound(nfts[i], n + 1) /\ Lists(nfts[i], n + 1) = 0 /\ nfts[i].parent # n + 1
    OBVIOUS
  <2> DEFINE s == nfts[i]
             o == s.owner
             v == s.parent
             B == s.children
             K == DOMAIN s.children
             m == n + 1
  <2>1. NftSound(s, n)
    BY <1>6
  <2>2. o \in Party /\ v \in (1 .. n) \cup {None} /\ K \subseteq 1 .. n /\ B \in [K -> Nat \ {0}]
    BY <1>1, <2>1, NftFields
  <2>3. s = [owner |-> o, parent |-> v, children |-> B]
    BY <1>1, <2>1, NftAs
  <2>4. Lists(s, m) = 0
    BY <1>1, <2>2, ListsIs
  <2>5. v # m
    BY <1>1, <2>2, LedgerAssumption
  <2>6. NftSound(s, m)
    <3>1. m \in Nat /\ v \in (1 .. m) \cup {None} /\ K \in SUBSET (1 .. m)
      BY <1>1, <2>2
    <3> HIDE DEF s, o, v, B, K, m
    <3>2. NftParts(m, o, v, K, B) /\ s = NftOf(o, v, B)
      BY <2>2, <2>3, <3>1 DEF NftParts, NftOf
    <3> QED BY <3>2, NftMade, Zenon
  <2> QED BY <2>4, <2>5, <2>6
<1>8. AllTied(q)
  <2>1. \A i \in 1 .. n + 1 : NftSound(q[i], n + 1) /\ q[i].parent # i
    BY <1>1, <1>3, <1>5, <1>6, <1>7, LedgerAssumption
  <2>2. ASSUME NEW i \in 1 .. n + 1, NEW j \in 1 .. n + 1 PROVE PairTied(q, i, j)
    <3>1. CASE i = n + 1
      <4>1. q[i] = e /\ Lists(q[i], j) = 0
        BY <1>4, <1>5, <3>1
      <4>2. q[j].parent # i
        BY <1>1, <1>3, <1>5, <1>7, <3>1, LedgerAssumption
      <4> QED BY <4>1, <4>2 DEF PairTied
    <3>2. CASE i # n + 1 /\ j = n + 1
      <4>1. q[i] = nfts[i] /\ i \in 1 .. n /\ q[j] = e
        BY <1>1, <1>5, <3>2
      <4>2. Lists(q[i], j) = 0
        BY <1>7, <3>2, <4>1
      <4>3. q[j].parent # i
        BY <1>3, <4>1, LedgerAssumption
      <4> QED BY <4>2, <4>3 DEF PairTied
    <3>3. CASE i # n + 1 /\ j # n + 1
      <4>1. q[i] = nfts[i] /\ i \in 1 .. n /\ q[j] = nfts[j] /\ j \in 1 .. n
        BY <1>1, <1>5, <3>3
      <4>2. PairTied(nfts, i, j)
        BY <1>6, <4>1
      <4> QED BY <4>1, <4>2 DEF PairTied
    <3> QED BY <3>1, <3>2, <3>3
  <2> QED BY <1>5, <2>1, <2>2 DEF AllTied
<1> QED BY <1>2, <1>5, <1>8, NftsMade

\* Two NFTs are written: the parent of j, and the children of i.
Rewired(q, i, j, v, B) == Put(Put(q, j, [q[j] EXCEPT !.parent = v]), i, [q[i] EXCEPT !.children = B])
LEMMA NftsRewired ==
  ASSUME NftsInv, NEW i \in 1 .. Len(nfts), NEW j \in 1 .. Len(nfts), i # j,
         NEW v \in (1 .. Len(nfts)) \cup {None}, v # j, v = i => nfts[i].owner = nfts[j].owner,
         v = i \/ (v = None /\ nfts[j].parent = i), v = i => nfts[j].parent = None,
         NEW K \in SUBSET (1 .. Len(nfts)), NEW B \in [K -> Nat \ {0}],
         \A k \in 1 .. Len(nfts) : (IF k \in K THEN B[k] ELSE 0) =
            IF k = j THEN (IF v = i THEN 1 ELSE 0) ELSE Lists(nfts[i], k),
         nfts' = Rewired(nfts, i, j, v, B)
  PROVE  NftsInv'
<1> DEFINE n == Len(nfts)
           s == nfts[i]
           t == nfts[j]
           I == [s EXCEPT !.children = B]
           J == [t EXCEPT !.parent = v]
           S == Range(nfts) \cup {I, J}
<1>1. nfts \in Seq(Range(nfts)) /\ AllTied(nfts) /\ n \in Nat
  BY NftsNow
<1>2. \A k \in 1 .. n : NftSound(nfts[k], n) /\ nfts[k].parent # k
  BY <1>1 DEF AllTied
<1>3. \A k, l \in 1 .. n : PairTied(nfts, k, l)
  BY <1>1 DEF AllTied
<1>4. /\ s.owner \in Party /\ s.parent \in (1 .. n) \cup {None} /\ s = [owner |-> s.owner, parent |-> s.parent, children |-> s.children]
      /\ t.owner \in Party /\ t.parent \in (1 .. n) \cup {None} /\ t = [owner |-> t.owner, parent |-> t.parent, children |-> t.children]
      /\ DOMAIN t.children \in SUBSET (1 .. n) /\ t.children \in [DOMAIN t.children -> Nat \ {0}]
  BY <1>1, <1>2, NftFields, NftAs
<1>5. NftSound(I, n) /\ I.owner = s.owner /\ I.parent = s.parent /\ I.children = B
  <2> DEFINE o == s.owner
             w == s.parent
             C == s.children
  <2>1. s = [owner |-> o, parent |-> w, children |-> C] /\ o \in Party /\ w \in (1 .. n) \cup {None}
    BY <1>4
  <2> HIDE DEF s, o, w, C
  <2>2. I = [owner |-> o, parent |-> w, children |-> B]
    BY <2>1
  <2> HIDE DEF I
  <2>3. NftSound(I, n) /\ I.owner = o /\ I.parent = w /\ I.children = B
    <3>1. NftParts(n, o, w, K, B) /\ I = NftOf(o, w, B)
      BY <2>1, <2>2 DEF NftParts, NftOf
    <3> HIDE DEF n
    <3>2. NftSound(I, n)
      BY <3>1, NftMade, Zenon
    <3>3. I.owner = o /\ I.parent = w /\ I.children = B
      BY <3>1 DEF NftOf
    <3> QED BY <3>2, <3>3, Zenon
  <2> QED BY <2>3 DEF o, w
<1>6. NftSound(J, n) /\ J.owner = t.owner /\ J.parent = v /\ J.children = t.children
  <2> DEFINE o == t.owner
             w == t.parent
             C == t.children
             D == DOMAIN t.children
  <2>1. t = [owner |-> o, parent |-> w, children |-> C] /\ o \in Party /\ D \in SUBSET (1 .. n) /\ C \in [D -> Nat \ {0}]
    BY <1>4
  <2> HIDE DEF t, o, w, C, D
  <2>2. J = [owner |-> o, parent |-> v, children |-> C]
    BY <2>1
  <2> HIDE DEF J
  <2>3. NftSound(J, n) /\ J.owner = o /\ J.parent = v /\ J.children = C
    <3>1. NftParts(n, o, v, D, C) /\ J = NftOf(o, v, C)
      BY <2>1, <2>2 DEF NftParts, NftOf
    <3> HIDE DEF n
    <3>2. NftSound(J, n)
      BY <3>1, NftMade, Zenon
    <3>3. J.owner = o /\ J.parent = v /\ J.children = C
      BY <3>1 DEF NftOf
    <3> QED BY <3>2, <3>3, Zenon
  <2> QED BY <2>3 DEF o, C
<1>7. /\ \A k \in 1 .. n : Lists(I, k) = IF k = j THEN (IF v = i THEN 1 ELSE 0) ELSE Lists(s, k)
      /\ \A k : Lists(J, k) = Lists(t, k)
  <2>1. DOMAIN B = K
    OBVIOUS
  <2>2. \A k : Lists(I, k) = IF k \in K THEN B[k] ELSE 0
    <3> HIDE DEF I
    <3> SUFFICES ASSUME NEW k PROVE Lists(I, k) = IF k \in K THEN B[k] ELSE 0
      OBVIOUS
    <3>1. I.children = B
      BY <1>5
    <3> QED BY <2>1, <3>1 DEF Lists, Copies
  <2> QED BY <1>6, <2>2 DEF Lists
<1> HIDE DEF I, J
<1>8. nfts' = Put(Put(nfts, j, J), i, I)
  BY Zenon DEF Rewired, I, J
<1>9. /\ nfts' \in Seq(S) /\ Len(nfts') = n
      /\ \A k \in 1 .. n : nfts'[k] = IF k = i THEN I ELSE IF k = j THEN J ELSE nfts[k]
  <2> DEFINE R == Range(nfts)
  <2>1. nfts \in Seq(R) /\ S = R \cup {I, J}
    BY <1>1
  <2> HIDE DEF R, S
  <2>2. nfts \in Seq(S) /\ I \in S /\ J \in S
    <3>1. nfts \in [1 .. Len(nfts) -> S] /\ Len(nfts) \in Nat /\ I \in S /\ J \in S
      BY <2>1
    <3> QED BY <3>1, SeqDef
  <2>3. /\ Put(nfts, j, J) \in Seq(S) /\ Len(Put(nfts, j, J)) = n
        /\ \A k \in 1 .. n : Put(nfts, j, J)[k] = IF k = j THEN J ELSE nfts[k]
    BY <2>2 DEF Put
  <2> DEFINE q == Put(nfts, j, J)
  <2>4. nfts' = [q EXCEPT ![i] = I]
    BY <1>8 DEF Put
  <2> HIDE DEF q
  <2>5. /\ nfts' \in Seq(S) /\ Len(nfts') = n
        /\ \A k \in 1 .. n : nfts'[k] = IF k = i THEN I ELSE q[k]
    BY <2>2, <2>3, <2>4 DEF q
  <2> QED BY <2>3, <2>5 DEF q
<1>10. AllTied(nfts')
  <2>1. ASSUME NEW k \in 1 .. n PROVE NftSound(nfts'[k], n) /\ nfts'[k].parent # k
    BY <1>2, <1>5, <1>6, <1>9
  <2>2. ASSUME NEW k \in 1 .. n
        PROVE  /\ nfts'[k].owner = nfts[k].owner
               /\ nfts'[k].parent = IF k = j THEN v ELSE nfts[k].parent
               /\ \A l \in 1 .. n : Lists(nfts'[k], l) = IF k = i /\ l = j THEN (IF v = i THEN 1 ELSE 0) ELSE Lists(nfts[k], l)
    BY <1>5, <1>6, <1>7, <1>9
  <2>3. ASSUME NEW k \in 1 .. n, NEW l \in 1 .. n PROVE PairTied(nfts', k, l)
    <3>1. PairTied(nfts, k, l)
      BY <1>3
    <3>2. CASE l # j
      BY <2>2, <3>1, <3>2 DEF PairTied
    <3>3. CASE l = j /\ k = i
      <4>1. nfts'[l].parent = v /\ nfts'[l].owner = nfts[j].owner /\ nfts'[k].owner = nfts[i].owner
            /\ Lists(nfts'[k], l) = IF v = i THEN 1 ELSE 0
        BY <2>2, <3>3
      <4> QED BY <3>3, <4>1 DEF PairTied
    <3>4. CASE l = j /\ k # i
      <4>1. nfts'[l].parent = v /\ Lists(nfts'[k], l) = Lists(nfts[k], l)
        BY <2>2, <3>4
      <4>2. v # k /\ nfts[j].parent # k
        BY <3>4, LedgerAssumption
      <4> QED BY <3>1, <3>4, <4>1, <4>2 DEF PairTied
    <3> QED BY <3>2, <3>3, <3>4
  <2> QED BY <1>9, <2>1, <2>3 DEF AllTied
<1> QED BY <1>9, <1>10, NftsMade

LEMMA NftComposed ==
  ASSUME NftsInv, NEW p \in Party, NEW i \in DOMAIN nfts, NEW j \in DOMAIN nfts, nft_compose(p, i, j)
  PROVE  NftsInv'
<1> DEFINE n == Len(nfts)
           C == nfts[i].children
           D == DOMAIN C
           K == D \cup {j}
           B == Pushed(C, j)
<1>1. nfts \in Seq(Range(nfts)) /\ AllTied(nfts) /\ n \in Nat
  BY NftsNow
<1>2. i \in 1 .. n /\ j \in 1 .. n
  BY <1>1
<1>3. i # j /\ nfts[i].owner = p /\ nfts[j].owner = p /\ nfts[j].parent = None
  BY DEF nft_compose
<1>4. D \subseteq 1 .. n /\ C \in [D -> Nat \ {0}]
  BY <1>1, <1>2, NftFields DEF AllTied
<1>5. Lists(nfts[i], j) = 0
  BY <1>1, <1>2, <1>3, LedgerAssumption DEF AllTied, PairTied
<1>6. j \notin D
  BY <1>4, <1>5, ListsIs
<1>7. B = [e \in K |-> IF e = j THEN 1 ELSE C[e]]
  BY <1>4, <1>6 DEF Pushed, Copies
<1>8. nfts' = Rewired(nfts, i, j, i, B)
  <2>1. nfts' = [nfts EXCEPT ![j].parent = i, ![i].children = B]
    BY DEF nft_compose, compose
  <2> HIDE DEF B
  <2> QED BY <1>1, <1>2, <1>3, <2>1 DEF Rewired, Put
<1> HIDE DEF B
<1>9. K \in SUBSET (1 .. n) /\ B \in [K -> Nat \ {0}]
  <2> HIDE DEF C, D
  <2>1. \A e \in K : (IF e = j THEN 1 ELSE C[e]) \in Nat \ {0} /\ e \in 1 .. n
    BY <1>2, <1>4
  <2> HIDE DEF K
  <2> QED BY <1>7, <2>1
<1>10. \A k \in 1 .. n : (IF k \in K THEN B[k] ELSE 0) = IF k = j THEN (IF i = i THEN 1 ELSE 0) ELSE Lists(nfts[i], k)
  BY <1>4, <1>7, ListsIs
<1> HIDE DEF K
<1> QED BY <1>2, <1>3, <1>8, <1>9, <1>10, NftsRewired
LEMMA NftDecomposed ==
  ASSUME NftsInv, NEW p \in Party, NEW j \in DOMAIN nfts, nft_decompose(p, j)
  PROVE  NftsInv'
<1> DEFINE n == Len(nfts)
           i == nfts[j].parent
           C == nfts[i].children
           D == DOMAIN C
           K == D \ {j}
           B == Restrict(C, DOMAIN C \ {j})
           v == None
<1>1. nfts \in Seq(Range(nfts)) /\ AllTied(nfts) /\ n \in Nat
  BY NftsNow
<1>2. j \in 1 .. n /\ i # None
  BY <1>1 DEF nft_decompose
<1>3. i \in 1 .. n /\ i # j
  BY <1>1, <1>2, NftFields DEF AllTied
<1>4. D \subseteq 1 .. n /\ C \in [D -> Nat \ {0}]
  BY <1>1, <1>3, NftFields DEF AllTied
<1>5. B = [e \in K |-> C[e]]
  BY DEF Restrict
<1>6. nfts' = Rewired(nfts, i, j, v, B)
  <2>1. nfts' = [nfts EXCEPT ![j].parent = None, ![i].children = B]
    BY DEF nft_decompose, decompose
  <2> HIDE DEF B, i
  <2> QED BY <1>1, <1>2, <1>3, <2>1 DEF Rewired, Put
<1>7. v \in (1 .. n) \cup {None} /\ v # j /\ v # i /\ v = None /\ nfts[j].parent = i
  BY <1>2, <1>3, LedgerAssumption
<1> HIDE DEF B, i, v
<1>8. K \in SUBSET (1 .. n) /\ B \in [K -> Nat \ {0}]
  <2> HIDE DEF C, D
  <2> QED BY <1>4, <1>5
<1>9. \A k \in 1 .. n : (IF k \in K THEN B[k] ELSE 0) = IF k = j THEN (IF v = i THEN 1 ELSE 0) ELSE Lists(nfts[i], k)
  BY <1>4, <1>5, <1>7, ListsIs
<1>10. v = i => nfts[i].owner = nfts[j].owner /\ nfts[j].parent = None
  BY <1>7
<1> HIDE DEF K
<1> QED BY <1>2, <1>3, <1>6, <1>7, <1>8, <1>9, <1>10, NftsRewired
LEMMA NftStep ==
  ASSUME NftsInv, NftNext
  PROVE  NftsInv'
BY NftMinted, NftComposed, NftDecomposed, Zenon DEF NftNext

-----------------------------------------------------------------------------
\* Recovery.
LEMMA RecoveryFields ==
  ASSUME NEW R \in Recovery
  PROVE  /\ R.guardians \in [Party -> Seq(Guardian)] /\ R.counter \in Nat
         /\ R.requests \in [1 .. MaxRequest -> RecoveryRequest \cup {None}]
         /\ R.approvals \in SUBSET ((1 .. MaxRequest) \X Party)
BY DEF Recovery
LEMMA RequestFields ==
  ASSUME NEW r \in RecoveryRequest
  PROVE  /\ r.creator \in Party /\ r.new_owner \in Party /\ r.status \in {"Voting", "Locked", "Executed"}
         /\ r.count \in Nat /\ r.timelock_end \in Nat /\ r.executed_at \in Nat /\ r.locked_at \in Nat
         /\ r.voters \in SUBSET Party /\ r.needed \in Int
BY DEF RecoveryRequest

\* What a call writes, with names that are easier to cite than the updates.
Guarded(R, G, k) == [R EXCEPT !.guardians = G, !.counter = k]
Requested(R, k, Q, S) == [R EXCEPT !.counter = k, !.requests = Q, !.approvals = S]

\* Who the guardians are, and the number of the latest request, are no part of what was
\* approved.
LEMMA GuardiansChanged ==
  ASSUME RecoveryInv, NEW G \in [Party -> Seq(Guardian)], NEW k \in Nat,
         recovery' = Guarded(recovery, G, k)
  PROVE  RecoveryInv'
<1>1. recovery \in Recovery
  BY DEF RecoveryInv
<1>2. recovery' \in Recovery
  BY <1>1 DEF Recovery, Guarded
<1>3. recovery'.requests = recovery.requests /\ recovery'.approvals = recovery.approvals
  BY <1>1 DEF Recovery, Guarded
<1> QED BY <1>2, <1>3 DEF RecoveryInv, RequestSound

LEMMA RequestChanged ==
  ASSUME RecoveryInv, NEW i \in 1 .. MaxRequest, NEW r, NEW S \in SUBSET ((1 .. MaxRequest) \X Party),
         recovery.approvals \subseteq S, RequestSound(r, i, S), NEW k \in Nat,
         recovery' = Requested(recovery, k, Put(recovery.requests, i, r), S)
  PROVE  RecoveryInv'
<1> DEFINE Q == Put(recovery.requests, i, r)
<1>1. recovery \in Recovery
  BY DEF RecoveryInv
<1>2. r \in RecoveryRequest
  BY DEF RequestSound
<1>3. Q \in [1 .. MaxRequest -> RecoveryRequest \cup {None}] /\ \A j \in 1 .. MaxRequest : Q[j] = IF j = i THEN r ELSE recovery.requests[j]
  BY <1>1, <1>2, RecoveryFields DEF Put
<1> HIDE DEF Q
<1>0. recovery' = Requested(recovery, k, Q, S)
  BY DEF Q
<1>4. recovery' \in Recovery
  BY <1>0, <1>1, <1>3 DEF Recovery, Requested
<1>5. recovery'.requests = Q /\ recovery'.approvals = S
  BY <1>0, <1>1 DEF Recovery, Requested
<1>6. ASSUME NEW j \in 1 .. MaxRequest, Q[j] # None PROVE RequestSound(Q[j], j, S)
  <2>1. CASE j = i
    BY <1>3, <2>1
  <2>2. CASE j # i
    <3>1. Q[j] = recovery.requests[j] /\ RequestSound(Q[j], j, recovery.approvals)
      BY <1>3, <1>6, <2>2 DEF RecoveryInv
    <3> QED BY <3>1 DEF RequestSound
  <2> QED BY <2>1, <2>2
<1>7. \A j \in 1 .. MaxRequest : recovery'.requests[j] # None => RequestSound(recovery'.requests[j], j, recovery'.approvals)
  BY <1>5, <1>6
<1> QED BY <1>4, <1>7 DEF RecoveryInv, RequestSound

\* The weight that is asked for is a number.
LEMMA WeightType ==
  ASSUME RecoveryInv, NEW c \in Party
  PROVE  (get_total_guardian_weight(c) * ApprovalPercent) \div 100 \in Int
<1> DEFINE g == recovery.guardians[c]
           K == get_active_guardians(c)
           W == [k \in K |-> g[k].weight]
<1>1. g \in Seq(Guardian)
  BY RecoveryFields DEF RecoveryInv
<1>2. IsFiniteSet(K) /\ \A k \in K : g[k] \in Guardian
  <2>1. K \subseteq DOMAIN g
    BY DEF get_active_guardians
  <2>2. DOMAIN g = 1 .. Len(g) /\ Len(g) \in Nat
    BY <1>1
  <2> HIDE DEF g, K
  <2>3. IsFiniteSet(DOMAIN g)
    BY <2>2, FS_Interval
  <2> QED BY <1>1, <2>1, <2>3, FS_Subset
<1>3. W \in [K -> Int]
  <2> HIDE DEF g, K
  <2> QED BY <1>2 DEF Guardian
<1>4. get_total_guardian_weight(c) = SumFunction(W)
  BY DEF get_total_guardian_weight
<1> HIDE DEF W, K
<1>5. SumFunction(W) \in Int
  BY <1>2, <1>3, SumType
<1> QED BY <1>4, <1>5, IdentityAssumption

LEMMA GuardianStep ==
  ASSUME RecoveryInv, now \in Nat, NEW c \in Party,
         init_recovery(c) \/ \E p \in Party : revoke_guardian(c, p) \/ \E w \in Weights : add_guardian(c, p, w)
  PROVE  RecoveryInv'
<1>1. recovery \in Recovery /\ recovery.counter \in Nat /\ recovery.guardians \in [Party -> Seq(Guardian)]
  BY RecoveryFields DEF RecoveryInv
<1> DEFINE g == recovery.guardians[c]
<1>2. g \in Seq(Guardian)
  BY <1>1
<1>3. ASSUME NEW h \in Seq(Guardian), NEW k \in Nat, 
             recovery' = Guarded(recovery, Put(recovery.guardians, c, h), k)
      PROVE  RecoveryInv'
  <2>1. Put(recovery.guardians, c, h) \in [Party -> Seq(Guardian)]
    BY <1>1 DEF Put
  <2> QED BY <1>3, <2>1, GuardiansChanged
<1>4. CASE init_recovery(c)
  <2> DEFINE h == <<>>
             G == Put(recovery.guardians, c, h)
  <2>1. h \in Seq(Guardian) /\ 0 \in Nat
    OBVIOUS
  <2>2. recovery' = Guarded(recovery, G, 0)
    BY <1>4 DEF init_recovery, Guarded, Put
  <2> HIDE DEF h
  <2> QED BY <1>3, <2>1, <2>2
<1>5. ASSUME NEW p \in Party, revoke_guardian(c, p) PROVE RecoveryInv'
  <2> DEFINE h == [k \in DOMAIN g |-> IF Serving(g[k], p) THEN [g[k] EXCEPT !.until = now + RevocationDelay] ELSE g[k]]
             G == Put(recovery.guardians, c, h)
  <2>1. h \in Seq(Guardian)
    <3>1. DOMAIN g = 1 .. Len(g) /\ Len(g) \in Nat /\ now + RevocationDelay \in Nat
      BY <1>2, IdentityAssumption
    <3>2. \A k \in DOMAIN g : g[k] \in Guardian
      BY <1>2
    <3> DEFINE u == now + RevocationDelay
    <3> HIDE DEF g, u
    <3>3. \A k \in DOMAIN g : [g[k] EXCEPT !.until = u] \in Guardian
      BY <3>1, <3>2 DEF Guardian, u
    <3> USE DEF u
    <3>4. \A k \in DOMAIN g : h[k] \in Guardian
      BY <3>2, <3>3
    <3>5. DOMAIN h = 1 .. Len(g)
      BY <3>1
    <3> HIDE DEF h
    <3>6. h \in [1 .. Len(g) -> Guardian]
      BY <3>1, <3>4, <3>5 DEF h
    <3> QED BY <3>1, <3>6, SeqDef
  <2>2. recovery' = Guarded(recovery, G, recovery.counter)
    <3>1. recovery' = [recovery EXCEPT !.guardians[c] = h]
      BY <1>5, Zenon DEF revoke_guardian
    <3> HIDE DEF h
    <3> QED BY <1>1, <3>1 DEF Recovery, Guarded, Put
  <2> HIDE DEF h
  <2> QED BY <1>1, <1>3, <2>1, <2>2
<1>6. ASSUME NEW p \in Party, NEW w \in Weights, add_guardian(c, p, w) PROVE RecoveryInv'
  <2> DEFINE e == [who |-> p, weight |-> w, until |-> 0]
             h == Append(g, e)
             G == Put(recovery.guardians, c, h)
  <2>1. e \in Guardian
    BY IdentityAssumption DEF Guardian
  <2> HIDE DEF e
  <2>2. h \in Seq(Guardian)
    BY <1>2, <2>1
  <2>3. recovery' = Guarded(recovery, G, recovery.counter)
    <3>1. recovery' = [recovery EXCEPT !.guardians[c] = h]
      BY <1>6, Zenon DEF add_guardian, e
    <3> HIDE DEF h
    <3> QED BY <1>1, <3>1 DEF Recovery, Guarded, Put
  <2> HIDE DEF h
  <2> QED BY <1>1, <1>3, <2>2, <2>3
<1> QED BY <1>4, <1>5, <1>6
LEMMA RequestCreated ==
  ASSUME RecoveryInv, NEW c \in Party, NEW to \in Party, create_recovery_request(c, to)
  PROVE  RecoveryInv'
<1> DEFINE i == recovery.counter + 1
           r == [creator |-> c, new_owner |-> to, status |-> "Voting", count |-> 0,
                 timelock_end |-> 0, executed_at |-> 0, locked_at |-> 0, voters |-> {}, needed |-> 0]
           Q == Put(recovery.requests, i, r)
           S == recovery.approvals
<1>1. recovery \in Recovery /\ recovery.counter \in Nat /\ S \in SUBSET ((1 .. MaxRequest) \X Party)
  BY RecoveryFields DEF RecoveryInv
<1>2. i \in 1 .. MaxRequest /\ i \in Nat
  BY <1>1, IdentityAssumption DEF create_recovery_request
<1>3. RequestSound(r, i, S)
  <2>1. r \in RecoveryRequest
    <3> DEFINE V == {}
               v == "Voting"
    <3>1. V \in SUBSET Party /\ v \in {"Voting", "Locked", "Executed"}
      OBVIOUS
    <3> HIDE DEF V, v
    <3>2. [creator |-> c, new_owner |-> to, status |-> v, count |-> 0,
           timelock_end |-> 0, executed_at |-> 0, locked_at |-> 0, voters |-> V, needed |-> 0] \in RecoveryRequest
      BY <3>1 DEF RecoveryRequest
    <3> QED BY <3>2 DEF V, v
  <2>2. r.count = 0 /\ r.voters = {} /\ r.status = "Voting"
    OBVIOUS
  <2> HIDE DEF r
  <2>3. Cardinality(r.voters) = 0
    BY <2>2, FS_EmptySet
  <2> QED BY <2>1, <2>2, <2>3 DEF RequestSound
<1>4. recovery' = Requested(recovery, i, Q, S)
  <2>1. recovery' = [recovery EXCEPT !.counter = i, !.requests[i] = r]
    BY Zenon DEF create_recovery_request
  <2> HIDE DEF r, i
  <2> QED BY <1>1, <2>1 DEF Recovery, Requested, Put
<1> HIDE DEF r, i, S
<1>5. recovery.approvals \subseteq S
  BY DEF S
<1> QED BY <1>1, <1>2, <1>3, <1>4, <1>5, RequestChanged

\* Another guardian's approval: not one of those already counted.
LEMMA RequestApproved ==
  ASSUME RecoveryInv, now \in Nat, NEW i \in 1 .. MaxRequest, NEW p \in Party, approve_recovery(i, p)
  PROVE  RecoveryInv'
<1> DEFINE r == recovery.requests[i]
           needed == (get_total_guardian_weight(r.creator) * ApprovalPercent) \div 100
           n == r.count + 1
           V == r.voters \cup {p}
           voted == [r EXCEPT !.count = n, !.voters = V]
           end == now + TimelockDelay
           locked == [voted EXCEPT !.status = "Locked", !.needed = needed, !.locked_at = now, !.timelock_end = end]
           s == IF n < needed THEN voted ELSE locked
           S == recovery.approvals \cup {<<i, p>>}
           Q == Put(recovery.requests, i, s)
<1>1. /\ recovery \in Recovery /\ recovery.counter \in Nat
      /\ recovery.requests \in [1 .. MaxRequest -> RecoveryRequest \cup {None}]
      /\ recovery.approvals \in SUBSET ((1 .. MaxRequest) \X Party)
  BY RecoveryFields DEF RecoveryInv
<1>2. r # None /\ r.status = "Voting" /\ <<i, p>> \notin recovery.approvals
  BY DEF approve_recovery, AlreadyApproved
<1>3. RequestSound(r, i, recovery.approvals)
  BY <1>2 DEF RecoveryInv
<1>4. r \in RecoveryRequest /\ r.count = Cardinality(r.voters) /\ p \notin r.voters
      /\ \A q \in r.voters : <<i, q>> \in recovery.approvals
  BY <1>2, <1>3 DEF RequestSound
<1>5. r.creator \in Party /\ r.voters \in SUBSET Party /\ r.count \in Nat
  BY <1>4, RequestFields
<1>6. needed \in Int
  BY <1>5, WeightType
<1>7. n = Cardinality(V) /\ n \in Nat /\ V \in SUBSET Party /\ V # {}
  <2>1. IsFiniteSet(r.voters)
    BY <1>5, FS_Subset, LedgerAssumption
  <2> DEFINE U == r.voters
  <2>2. IsFiniteSet(U) /\ p \notin U /\ r.count = Cardinality(U) /\ U \in SUBSET Party /\ V = U \cup {p}
    BY <1>4, <1>5, <2>1
  <2> HIDE DEF U, V
  <2>3. Cardinality(V) = Cardinality(U) + 1
    BY <2>2, FS_AddElement
  <2> QED BY <1>5, <2>2, <2>3
<1>8. S \in SUBSET ((1 .. MaxRequest) \X Party) /\ recovery.approvals \subseteq S /\ \A q \in V : <<i, q>> \in S
  BY <1>1, <1>4
<1>9. end \in Nat /\ end = now + TimelockDelay
  BY IdentityAssumption
<1>10. recovery' = Requested(recovery, recovery.counter, Q, S)
  <2>1. voted.count = n
    BY <1>4 DEF RecoveryRequest
  <2>2. recovery' = [recovery EXCEPT !.approvals = S, !.requests[i] = IF voted.count < needed THEN voted ELSE locked]
    BY Zenon DEF approve_recovery
  <2>3. recovery' = [recovery EXCEPT !.approvals = S, !.requests[i] = s]
    BY <2>1, <2>2
  <2> HIDE DEF s, S
  <2> QED BY <1>1, <2>3 DEF Recovery, Requested, Put
<1>11. voted \in RecoveryRequest /\ voted.count = n /\ voted.voters = V /\ voted.status = "Voting"
  <2> HIDE DEF n, V, r
  <2> QED BY <1>2, <1>4, <1>7 DEF RecoveryRequest
<1> HIDE DEF voted
<1>12. RequestSound(voted, i, S)
  <2> HIDE DEF n, V, S
  <2> QED BY <1>7, <1>8, <1>11 DEF RequestSound
<1>13. /\ locked \in RecoveryRequest /\ locked.count = n /\ locked.voters = V /\ locked.status = "Locked"
       /\ locked.needed = needed /\ locked.locked_at = now /\ locked.timelock_end = end
  <2> HIDE DEF n, V, needed, end
  <2> QED BY <1>6, <1>9, <1>11 DEF RecoveryRequest
<1> HIDE DEF locked
<1>14. n >= needed => RequestSound(locked, i, S)
  <2> HIDE DEF n, V, S, needed, end
  <2> QED BY <1>7, <1>8, <1>9, <1>13 DEF RequestSound
<1>15. RequestSound(s, i, S)
  <2> HIDE DEF n, needed, S
  <2> QED BY <1>6, <1>7, <1>12, <1>14
<1> HIDE DEF s, S
<1> QED BY <1>1, <1>8, <1>10, <1>15, RequestChanged

LEMMA RecoveryExecuted ==
  ASSUME RecoveryInv, now \in Nat, NEW i \in 1 .. MaxRequest, execute_recovery(i)
  PROVE  RecoveryInv'
<1> DEFINE r == recovery.requests[i]
           s == [r EXCEPT !.status = "Executed", !.executed_at = now]
           Q == Put(recovery.requests, i, s)
           S == recovery.approvals
<1>1. /\ recovery \in Recovery /\ recovery.counter \in Nat /\ S \in SUBSET ((1 .. MaxRequest) \X Party)
      /\ recovery.requests \in [1 .. MaxRequest -> RecoveryRequest \cup {None}]
  BY RecoveryFields DEF RecoveryInv
<1>2. r # None /\ r.status = "Locked" /\ now >= r.timelock_end
  BY DEF execute_recovery
<1>3. RequestSound(r, i, S)
  BY <1>2 DEF RecoveryInv
<1>4. recovery' = Requested(recovery, recovery.counter, Q, S)
  <2>1. recovery' = [recovery EXCEPT !.requests[i].status = "Executed", !.requests[i].executed_at = now]
    BY DEF execute_recovery
  <2> QED BY <1>1, <2>1 DEF Recovery, Requested, Put
<1> HIDE DEF r
<1>5. r \in RecoveryRequest
  BY <1>3 DEF RequestSound
<1>6. /\ s \in RecoveryRequest /\ s.status = "Executed" /\ s.executed_at = now /\ s.count = r.count
      /\ s.voters = r.voters /\ s.needed = r.needed /\ s.locked_at = r.locked_at
  BY <1>5 DEF RecoveryRequest
<1> HIDE DEF s
<1>7. RequestSound(s, i, S)
  BY <1>2, <1>3, <1>6 DEF RequestSound
<1> HIDE DEF S
<1>8. recovery.approvals \subseteq S
  BY DEF S
<1> QED BY <1>1, <1>4, <1>7, <1>8, RequestChanged

LEMMA RecoveryStep ==
  ASSUME RecoveryInv, now \in Nat, RecoveryNext
  PROVE  RecoveryInv'
<1>1. ASSUME NEW c \in Party, init_recovery(c) PROVE RecoveryInv'
  BY <1>1, GuardianStep
<1>2. ASSUME NEW c \in Party, NEW p \in Party, revoke_guardian(c, p) PROVE RecoveryInv'
  BY <1>2, GuardianStep
<1>3. ASSUME NEW c \in Party, NEW p \in Party, NEW w \in Weights, add_guardian(c, p, w) PROVE RecoveryInv'
  BY <1>3, GuardianStep
<1>4. ASSUME NEW c \in Party, NEW p \in Party, create_recovery_request(c, p) PROVE RecoveryInv'
  BY <1>4, RequestCreated
<1>5. ASSUME NEW i \in 1 .. MaxRequest, execute_recovery(i) PROVE RecoveryInv'
  BY <1>5, RecoveryExecuted
<1>6. ASSUME NEW i \in 1 .. MaxRequest, NEW p \in Party, approve_recovery(i, p) PROVE RecoveryInv'
  BY <1>6, RequestApproved
<1> QED BY <1>1, <1>2, <1>3, <1>4, <1>5, <1>6, Zenon DEF RecoveryNext

-----------------------------------------------------------------------------
\* Scores.  Powers of two count subsets, so they are positive.
LEMMA PowerOfTwo ==
  ASSUME NEW n \in Nat
  PROVE  2 ^ n \in Nat \ {0}
<1> DEFINE S == 1 .. n
<1>1. IsFiniteSet(S) /\ Cardinality(S) = n
  BY FS_Interval
<1>2. IsFiniteSet(SUBSET S) /\ Cardinality(SUBSET S) = 2 ^ n
  BY <1>1, FS_SUBSET
<1>3. Cardinality(SUBSET S) \in Nat /\ Cardinality(SUBSET S) # 0
  BY <1>2, FS_CardinalityType, FS_EmptySet
<1> QED BY <1>2, <1>3
\* What is left of a score is no more than the score.
LEMMA DecayWithin ==
  ASSUME NEW s \in Nat, NEW e \in Nat
  PROVE  apply_decay(s, e) \in Nat /\ apply_decay(s, e) <= s
<1>0. CASE s = 0
  BY <1>0 DEF apply_decay
<1> SUFFICES ASSUME s > 0 PROVE apply_decay(s, e) \in Nat /\ apply_decay(s, e) <= s
  BY <1>0
<1> DEFINE P == 2 ^ (e \div HalfLife)
           h == s \div P
           r == e % HalfLife
           H == 2 * HalfLife
           c == (h * r) \div H
<1>1. HalfLife \in Nat \ {0}
  BY IdentityAssumption
<1>2. P \in Nat \ {0}
  <2>1. e \div HalfLife \in Nat
    BY <1>1, DivBounds
  <2> QED BY <2>1, PowerOfTwo
<1>3. r \in Nat /\ r < HalfLife /\ H \in Nat \ {0} /\ r <= H
  BY <1>1
<1> HIDE DEF P
<1>4. h \in Nat /\ h <= s
  BY <1>2, DivBounds
<1>5. apply_decay(s, e) = h - c
  BY DEF apply_decay, P
<1> HIDE DEF h, r, H
<1>6. h * r \in Nat /\ h * r <= h * H
  BY <1>3, <1>4
<1>7. c \in Nat /\ c <= h
  <2> DEFINE a == h * r
  <2>1. a \in Nat /\ a <= h * H
    BY <1>6
  <2> HIDE DEF a
  <2>2. a \div H \in Nat /\ a \div H <= h
    BY <1>3, <1>4, <2>1, DivBounds
  <2> QED BY <2>2 DEF a
<1> HIDE DEF c
<1> QED BY <1>4, <1>5, <1>7

LEMMA GainType ==
  ASSUME NEW x \in Int
  PROVE  Quotient(x, ScoreUnit) \in Int
<1>1. ScoreUnit \in Nat \ {0}
  BY IdentityAssumption
<1>2. CASE x >= 0
  BY <1>1, <1>2, DivBounds DEF Quotient
<1>3. CASE ~(x >= 0)
  <2>1. -x \in Nat
    BY <1>3
  <2>2. (-x) \div ScoreUnit \in Nat
    BY <1>1, <2>1, DivBounds
  <2> QED BY <1>3, <2>2 DEF Quotient
<1> QED BY <1>2, <1>3

\* A log after an entry: as long as allowed, with the entry last and what was last before it.
LogFits(L) == L \in Seq(ScoreChange) /\ Len(L) <= HistorySize
EndsWith(L, e) == L # <<>> /\ L[Len(L)] = e
EndsAfter(L, e) == Len(L) >= 2 /\ L[Len(L) - 1] = e
LEMMA LogPushed ==
  ASSUME NEW L, LogFits(L), NEW e \in ScoreChange
  PROVE  /\ LogFits(push_history(L, e)) /\ EndsWith(push_history(L, e), e)
         /\ \A d : EndsWith(L, d) => EndsAfter(push_history(L, e), d)
<1> DEFINE M == push_history(L, e)
<1>1. M = push_history(L, e)
  OBVIOUS
<1> HIDE DEF M
<1>2. /\ M \in Seq(ScoreChange) /\ Len(M) \in 1 .. HistorySize /\ M[Len(M)] = e
      /\ L # <<>> => Len(M) >= 2 /\ M[Len(M) - 1] = L[Len(L)]
  <2> USE DEF LogFits
  <2> DEFINE n == Len(L)
  <2>0. n \in Nat /\ HistorySize \in Nat \ {0, 1}
    BY IdentityAssumption
  <2>1. CASE n >= HistorySize
    <3>1. L # <<>> /\ M = Append(Tail(L), e)
      BY <1>1, <2>0, <2>1 DEF push_history
    <3>2. /\ Tail(L) \in Seq(ScoreChange) /\ Len(Tail(L)) = n - 1
          /\ \A i \in 1 .. n - 1 : Tail(L)[i] = L[i + 1]
      BY <3>1, HeadTailProperties
    <3> DEFINE T == Tail(L)
    <3> HIDE DEF T
    <3>3. M \in Seq(ScoreChange) /\ Len(M) = n /\ M[n] = e /\ \A i \in 1 .. n - 1 : M[i] = T[i]
      <4>1. T \in Seq(ScoreChange) /\ Len(T) = n - 1 /\ M = Append(T, e)
        BY <3>1, <3>2 DEF T
      <4> QED BY <2>0, <4>1, AppendProperties
    <3>4. M[n - 1] = L[n]
      BY <2>0, <2>1, <3>2, <3>3 DEF T
    <3> QED BY <2>0, <2>1, <3>3, <3>4
  <2>2. CASE ~(n >= HistorySize)
    <3>1. M = Append(L, e)
      BY <1>1, <2>2 DEF push_history
    <3>2. M \in Seq(ScoreChange) /\ Len(M) = n + 1 /\ M[n + 1] = e /\ \A i \in 1 .. n : M[i] = L[i]
      BY <3>1, AppendProperties
    <3>3. L # <<>> => n >= 1
      OBVIOUS
    <3> QED BY <2>0, <2>2, <3>2, <3>3
  <2> QED BY <2>1, <2>2
<1>3. LogFits(M) /\ EndsWith(M, e)
  BY <1>2, IdentityAssumption DEF LogFits, EndsWith
<1>4. \A d : EndsWith(L, d) => EndsAfter(M, d)
  BY <1>2 DEF EndsWith, EndsAfter
<1> QED BY <1>1, <1>3, <1>4
LEMMA LogTells ==
  ASSUME NEW L, LogFits(L), NEW e, e \in ScoreChange, Smaller(0, e.delta) <= e.after,
         EndsWith(L, e) \/ EndsAfter(L, e)
  PROVE  ScoreLogged(e.after, L)
<1>0. HistorySize \in Nat /\ Len(L) \in Nat /\ Len(L) <= HistorySize /\ (Len(L) >= 1 => L # <<>>)
  BY IdentityAssumption DEF LogFits
<1>1. CASE EndsWith(L, e)
  <2>1. L # <<>> /\ Len(L) \in Larger(1, Len(L) - 1) .. Len(L) /\ L[Len(L)] = e
    BY <1>0, <1>1 DEF EndsWith, LogFits, Larger
  <2> QED BY <1>0, <2>1 DEF ScoreLogged
<1>2. CASE EndsAfter(L, e)
  <2>1. L # <<>> /\ Len(L) - 1 \in Larger(1, Len(L) - 1) .. Len(L) /\ L[Len(L) - 1] = e
    BY <1>0, <1>2 DEF EndsAfter, Larger
  <2> QED BY <1>0, <2>1 DEF ScoreLogged
<1> QED BY <1>1, <1>2

LEMMA TokenFields ==
  ASSUME NEW k \in RepToken
  PROVE  /\ k.score \in Int /\ k.updated \in Nat \cup {None} /\ k.minted \in Int /\ k.decayed \in Int
         /\ k.forgiven \in Nat /\ k.log \in Seq(ScoreChange)
<1> DEFINE L == Seq(ScoreChange)
           U == Nat \cup {None}
<1>1. k \in [score : Int, updated : U, minted : Int, decayed : Int, forgiven : Nat, log : L]
  BY DEF RepToken
<1> HIDE DEF L, U
<1>2. /\ k.score \in Int /\ k.updated \in U /\ k.minted \in Int /\ k.decayed \in Int
      /\ k.forgiven \in Nat /\ k.log \in L
  BY <1>1
<1> QED BY <1>2 DEF L, U
\* A decay leaves a score that adds up.
LEMMA AppliedFields ==
  ASSUME NEW k \in RepToken, NEW e \in Nat, now \in Nat, k.score = k.minted - k.decayed + 2 * k.forgiven,
         NEW a, a = apply_decay(k.score, e), NEW j, j = Applied(k, a)
  PROVE  /\ a \in Nat
         /\ j \in RepToken /\ j.score = a /\ j.updated = now /\ j.minted = k.minted /\ j.log = k.log
         /\ a = j.minted - j.decayed + 2 * j.forgiven
<1> DEFINE s == k.score
           m == k.minted
           b == k.decayed
           c == k.forgiven
           d == b + Larger(a - s, s - a)
           w == c + Larger(0, a - s)
           U == Nat \cup {None}
           L == Seq(ScoreChange)
<1>1. s \in Int /\ m \in Int /\ b \in Int /\ c \in Nat /\ now \in U
  BY TokenFields
<1>2. k \in [score : Int, updated : U, minted : Int, decayed : Int, forgiven : Nat, log : L]
  BY DEF RepToken
<1>3. j = [k EXCEPT !.score = a, !.updated = now, !.decayed = d, !.forgiven = w]
  BY DEF Applied
<1>4. s = m - b + 2 * c /\ a = apply_decay(s, e)
  OBVIOUS
<1> HIDE DEF s, m, b, c
<1>5. a \in Nat /\ (s >= 0 => a <= s) /\ (s < 0 => a = 0)
  BY <1>1, <1>4, DecayWithin DEF apply_decay
<1>6. d \in Int /\ w \in Nat /\ a = m - d + 2 * w
  BY <1>1, <1>4, <1>5 DEF Larger
<1> HIDE DEF d, w, U, L
<1>7. /\ j \in [score : Int, updated : U, minted : Int, decayed : Int, forgiven : Nat, log : L]
      /\ j.score = a /\ j.updated = now /\ j.minted = k.minted /\ j.log = k.log /\ j.decayed = d /\ j.forgiven = w
  <2>1. a \in Int
    BY <1>5
  <2>2. j \in [score : Int, updated : U, minted : Int, decayed : Int, forgiven : Nat, log : L]
    BY ONLY <1>1, <1>2, <1>3, <1>6, <2>1
  <2>3. j.score = a /\ j.updated = now /\ j.minted = k.minted /\ j.log = k.log /\ j.decayed = d /\ j.forgiven = w
    BY ONLY <1>2, <1>3
  <2> QED BY <2>2, <2>3
<1> QED BY <1>5, <1>6, <1>7 DEF RepToken, U, L, m
\* The same with what is kept named.
ScoreAdds(k) == k.score = k.minted - k.decayed + 2 * k.forgiven
KeptOf(k) == apply_decay(k.score, Elapsed(k))
DecaysTo(k, j) ==
  /\ j \in RepToken /\ j.score = KeptOf(k) /\ j.updated = now /\ j.minted = k.minted /\ j.log = k.log
  /\ ScoreAdds(j)
LEMMA TokenApplied ==
  ASSUME NEW k \in RepToken, Elapsed(k) \in Nat, now \in Nat, ScoreAdds(k)
  PROVE  KeptOf(k) \in Nat /\ DecaysTo(k, Applied(k, KeptOf(k)))
<1> DEFINE a == KeptOf(k)
           e == Elapsed(k)
           j == Applied(k, a)
<1>1. e \in Nat /\ a = apply_decay(k.score, e) /\ j = Applied(k, a) /\ k.score = k.minted - k.decayed + 2 * k.forgiven
  BY DEF KeptOf, ScoreAdds
<1> HIDE DEF a, e, j
<1>2. /\ a \in Nat
      /\ j \in RepToken /\ j.score = a /\ j.updated = now /\ j.minted = k.minted /\ j.log = k.log
      /\ a = j.minted - j.decayed + 2 * j.forgiven
  BY <1>1, AppliedFields
<1>3. ScoreAdds(j)
  BY <1>2 DEF ScoreAdds
<1> QED BY <1>2, <1>3 DEF DecaysTo, a, j
\* A new log, score and total.
Relogged(k, s, m, l) == [k EXCEPT !.score = s, !.minted = m, !.log = l]
LEMMA TokenLogged ==
  ASSUME NEW k \in RepToken, NEW s \in Int, NEW m \in Int, NEW l \in Seq(ScoreChange),
         NEW j, j = Relogged(k, s, m, l)
  PROVE  /\ j \in RepToken /\ j.score = s /\ j.minted = m /\ j.log = l
         /\ j.updated = k.updated /\ j.decayed = k.decayed /\ j.forgiven = k.forgiven
<1> DEFINE U == Nat \cup {None}
           L == Seq(ScoreChange)
<1>1. k \in [score : Int, updated : U, minted : Int, decayed : Int, forgiven : Nat, log : L] /\ l \in L
  BY DEF RepToken
<1> HIDE DEF U, L
<1>2. /\ j \in [score : Int, updated : U, minted : Int, decayed : Int, forgiven : Nat, log : L]
      /\ j.score = s /\ j.minted = m /\ j.log = l
      /\ j.updated = k.updated /\ j.decayed = k.decayed /\ j.forgiven = k.forgiven
  BY <1>1 DEF Relogged
<1> QED BY <1>2 DEF RepToken, U, L
\* A token that decayed, then gained g, with the entry of that gain last or before last.
LEMMA TokenGains ==
  ASSUME NEW k, NEW i, DecaysTo(k, i), KeptOf(k) \in Nat, now \in Nat, NEW g \in Int, NEW l, LogFits(l),
         NEW e \in ScoreChange, e.after = KeptOf(k) + g, Smaller(0, e.delta) <= e.after,
         EndsWith(l, e) \/ EndsAfter(l, e), i.minted \in Int
  PROVE  LET j == Relogged(i, KeptOf(k) + g, i.minted + g, l)
         IN  j \in RepToken /\ j.updated = now /\ ScoreAdds(j) /\ ScoreLogged(j.score, j.log)
<1> DEFINE a == KeptOf(k)
           s == a + g
           m == i.minted + g
           j == Relogged(i, s, m, l)
<1>1. /\ i \in RepToken /\ i.updated = now /\ s \in Int /\ m \in Int /\ l \in Seq(ScoreChange)
      /\ a = i.minted - i.decayed + 2 * i.forgiven /\ a \in Nat
  BY DEF DecaysTo, LogFits, ScoreAdds
<1>2. i.minted \in Int /\ i.decayed \in Int /\ i.forgiven \in Nat
  BY <1>1, TokenFields
<1>3. s = m - i.decayed + 2 * i.forgiven
  <2> DEFINE o == i.minted
             c == i.decayed
             w == i.forgiven
  <2>1. a = o - c + 2 * w /\ o \in Int /\ c \in Int /\ w \in Nat /\ s = a + g /\ m = o + g
    BY <1>1, <1>2
  <2> HIDE DEF o, c, w, a, s, m
  <2>2. s = m - c + 2 * w
    BY <1>1, <2>1
  <2> QED BY <2>2 DEF c, w
<1>4. ScoreLogged(s, l)
  <2>1. ScoreLogged(e.after, l)
    BY LogTells
  <2> QED BY <2>1
<1> HIDE DEF s, m
<1>5. j = Relogged(i, s, m, l)
  OBVIOUS
<1> HIDE DEF j
<1>6. /\ j \in RepToken /\ j.score = s /\ j.minted = m /\ j.log = l
      /\ j.updated = i.updated /\ j.decayed = i.decayed /\ j.forgiven = i.forgiven
  BY <1>1, <1>5, TokenLogged
<1>7. j \in RepToken /\ j.updated = now /\ ScoreAdds(j) /\ ScoreLogged(j.score, j.log)
  BY <1>1, <1>3, <1>4, <1>6 DEF ScoreAdds
<1> QED BY <1>7 DEF j, s, m, a

\* A token is entered whose score adds up and is logged.
LEMMA TokenEntered ==
  ASSUME ScoresInv, now \in Nat, now' = now, NEW p \in Party, NEW j \in RepToken, j.updated = now,
         ScoreAdds(j), ScoreLogged(j.score, j.log), repTokens' = Put(repTokens, p, j)
  PROVE  ScoresInv'
<1>0. j.score = j.minted - j.decayed + 2 * j.forgiven
  BY DEF ScoreAdds
<1>1. /\ repTokens \in [Party -> RepToken]
      /\ \A q \in Party :
           /\ repTokens[q].updated # None => repTokens[q].updated <= now
           /\ repTokens[q].score = repTokens[q].minted - repTokens[q].decayed + 2 * repTokens[q].forgiven
           /\ ScoreLogged(repTokens[q].score, repTokens[q].log)
  BY DEF ScoresInv
<1>2. repTokens' \in [Party -> RepToken] /\ \A q \in Party : repTokens'[q] = IF q = p THEN j ELSE repTokens[q]
  BY <1>1 DEF Put
<1>3. ASSUME NEW q \in Party
      PROVE  /\ repTokens'[q].updated # None => repTokens'[q].updated <= now'
             /\ repTokens'[q].score = repTokens'[q].minted - repTokens'[q].decayed + 2 * repTokens'[q].forgiven
             /\ ScoreLogged(repTokens'[q].score, repTokens'[q].log)
  BY <1>0, <1>1, <1>2
<1> QED BY <1>2, <1>3 DEF ScoresInv

LEMMA ElapsedNat ==
  ASSUME ScoresInv, now \in Nat, NEW p \in Party
  PROVE  repTokens[p] \in RepToken /\ Elapsed(repTokens[p]) \in Nat
<1>1. repTokens[p] \in RepToken /\ (repTokens[p].updated # None => repTokens[p].updated <= now)
  BY DEF ScoresInv
<1>2. repTokens[p].updated \in Nat \cup {None}
  BY <1>1, TokenFields
<1> QED BY <1>1, <1>2, LedgerAssumption DEF Elapsed

LEMMA TokenBefore ==
  ASSUME ScoresInv, now \in Nat, NEW p \in Party
  PROVE  LET k == repTokens[p]
             i == Applied(k, KeptOf(k))
         IN  /\ DecaysTo(k, i) /\ KeptOf(k) \in Nat /\ i.minted \in Int /\ k.score \in Int
             /\ LogFits(k.log) /\ i.log = k.log
<1> DEFINE k == repTokens[p]
           i == Applied(k, KeptOf(k))
<1>1. k \in RepToken /\ Elapsed(k) \in Nat /\ ScoreAdds(k) /\ Len(k.log) <= HistorySize
  BY ElapsedNat DEF ScoresInv, ScoreLogged, ScoreAdds
<1>2. k.score \in Int /\ k.minted \in Int /\ LogFits(k.log)
  BY <1>1, TokenFields DEF LogFits
<1>3. KeptOf(k) \in Nat /\ DecaysTo(k, i)
  BY <1>1, TokenApplied
<1> HIDE DEF i
<1>4. i.minted = k.minted /\ i.log = k.log
  BY <1>3 DEF DecaysTo
<1> QED BY <1>2, <1>3, <1>4 DEF i

LEMMA ScoreDecayed ==
  ASSUME ScoresInv, now \in Nat, now' = now, NEW p \in Party, rep_decay(p)
  PROVE  ScoresInv'
<1> DEFINE k == repTokens[p]
           a == KeptOf(k)
           i == Applied(k, a)
           e == [delta |-> a - k.score, after |-> a]
           l == push_history(k.log, e)
           j == Relogged(i, a + 0, i.minted + 0, l)
<1>1. DecaysTo(k, i) /\ a \in Nat /\ i.minted \in Int /\ k.score \in Int /\ LogFits(k.log) /\ i.log = k.log
  BY TokenBefore
<1>2. repTokens' = Put(repTokens, p, [i EXCEPT !.log = push_history(@, e)])
  BY DEF rep_decay, Put, ScoresInv, Decayed, KeptOf
<1>3. e \in ScoreChange /\ e.after = a /\ e.delta = a - k.score
  BY <1>1 DEF ScoreChange
<1>4. Smaller(0, e.delta) <= e.after
  <2> DEFINE d == e.delta
             f == e.after
  <2>1. d \in Int /\ f \in Nat
    BY <1>1, <1>3
  <2> HIDE DEF d, f
  <2>2. Smaller(0, d) <= f
    BY <2>1 DEF Smaller
  <2> QED BY <2>2 DEF d, f
<1> HIDE DEF k, a, i, e
<1>5. LogFits(l) /\ EndsWith(l, e)
  BY <1>1, <1>3, LogPushed, Zenon
<1>6. repTokens' = Put(repTokens, p, j)
  <2>1. i \in RepToken /\ i.score = a
    BY <1>1 DEF DecaysTo, a
  <2>2. a + 0 = a /\ i.minted + 0 = i.minted
    BY <1>1
  <2>3. [i EXCEPT !.log = push_history(@, e)] = [i EXCEPT !.log = l]
    BY <1>1
  <2> HIDE DEF l
  <2>4. [i EXCEPT !.log = l] = [i EXCEPT !.score = a, !.minted = i.minted, !.log = l]
    BY <2>1 DEF RepToken
  <2> QED BY <1>2, <2>2, <2>3, <2>4 DEF Relogged
<1> HIDE DEF l
<1>7. j \in RepToken /\ j.updated = now /\ ScoreAdds(j) /\ ScoreLogged(j.score, j.log)
  <2>1. a = KeptOf(k) /\ e.after = KeptOf(k) + 0
    BY <1>1, <1>3 DEF a
  <2> QED BY <1>1, <1>3, <1>4, <1>5, <2>1, TokenGains
<1> HIDE DEF j
<1> QED BY <1>6, <1>7, TokenEntered, Zenon

LEMMA ScoreMinted ==
  ASSUME ScoresInv, now \in Nat, now' = now, NEW caller, NEW p \in Party, NEW x \in Int, rep_mint(caller, p, x)
  PROVE  ScoresInv'
<1> DEFINE k == repTokens[p]
           g == Quotient(x, ScoreUnit)
           a == KeptOf(k)
           i == Applied(k, a)
           e == [delta |-> g, after |-> a + g]
           f == [delta |-> a - k.score, after |-> a]
           l == push_history(k.log, e)
           n == push_history(l, f)
           z == IF a = k.score THEN l ELSE n
           j == Relogged(i, a + g, i.minted + g, z)
<1>1. DecaysTo(k, i) /\ a \in Nat /\ i.minted \in Int /\ k.score \in Int /\ LogFits(k.log) /\ i.log = k.log
  BY TokenBefore
<1>2. repTokens' = Put(repTokens, p, [i EXCEPT !.score = a + g, !.minted = @ + g, !.log = z])
  BY DEF rep_mint, Put, ScoresInv, Minted, KeptOf
<1>g. g \in Int
  BY GainType
<1>3. e \in ScoreChange /\ e.after = a + g /\ e.delta = g /\ f \in ScoreChange
  BY <1>1, <1>g DEF ScoreChange
<1>4. Smaller(0, e.delta) <= e.after
  <2> HIDE DEF a, g
  <2>1. Smaller(0, g) <= a + g
    BY <1>1, <1>g DEF Smaller
  <2> QED BY <1>3, <2>1
<1> HIDE DEF k, a, i, e, f, g
<1>5. LogFits(l) /\ EndsWith(l, e)
  BY <1>1, <1>3, LogPushed, Zenon
<1>6. repTokens' = Put(repTokens, p, j)
  BY <1>2 DEF Relogged
<1> HIDE DEF l
<1>7. LogFits(n) /\ EndsAfter(n, e)
  BY <1>3, <1>5, LogPushed, Zenon
<1> HIDE DEF n
<1>8. LogFits(z) /\ (EndsWith(z, e) \/ EndsAfter(z, e))
  BY <1>5, <1>7
<1> HIDE DEF z
<1>9. j \in RepToken /\ j.updated = now /\ ScoreAdds(j) /\ ScoreLogged(j.score, j.log)
  <2>1. a = KeptOf(k)
    BY DEF a
  <2> QED BY <1>1, <1>3, <1>4, <1>8, <1>g, <2>1, TokenGains
<1> HIDE DEF j
<1> QED BY <1>6, <1>9, TokenEntered, Zenon

LEMMA ScoreStep ==
  ASSUME ScoresInv, now \in Nat, now' = now, RepTokenNext
  PROVE  ScoresInv'
<1>1. \A x \in Mints : x \in Int
  BY IdentityAssumption
<1> QED BY <1>1, ScoreDecayed, ScoreMinted, Zenon DEF RepTokenNext
LEMMA ScoreLater ==
  ASSUME ScoresInv, now \in Nat, now' = now \/ now' = now + 1, repTokens' = repTokens
  PROVE  ScoresInv'
<1>1. ASSUME NEW p \in Party PROVE repTokens[p].updated # None => repTokens[p].updated <= now'
  <2>1. repTokens[p].updated \in Nat \cup {None}
    BY TokenFields DEF ScoresInv
  <2> QED BY <2>1 DEF ScoresInv
<1> QED BY <1>1 DEF ScoresInv
LEMMA ScoresSound ==
  ASSUME ScoresInv
  PROVE  ScoresAddUp
BY DEF ScoresInv, ScoresAddUp

-----------------------------------------------------------------------------
\* The records together.
LEMMA RecordsStart ==
  ASSUME Init
  PROVE  FractionsInv /\ ShardingInv /\ ScoresInv /\ NftsInv /\ RecoveryInv
<1>1. FractionsInv
  BY Zenon DEF Init, SharesInit, PerParty, FractionsInv
<1>2. ShardingInv
  <2>1. sharding = [count |-> DefaultShardCount, auto |-> TRUE, state |-> [i \in AllShards |-> NewShard],
                    assigned |-> PerParty(None), transfers |-> <<>>]
    BY DEF Init, ShardsInit
  <2> DEFINE n == DefaultShardCount
             S == [i \in AllShards |-> NewShard]
             A == PerParty(None)
  <2>2. n \in 1 .. MaxShardCount /\ 0 \in 0 .. n - 1 /\ 0 \in AllShards
    BY ShardsAssumption DEF AllShards
  <2>3. S \in [AllShards -> ShardState] /\ S[0].status = "Active"
    BY <2>2 DEF NewShard, ShardState
  <2>4. A \in [Party -> AllShards \cup {None}] /\ \A p \in Party : A[p] = None
    BY DEF PerParty
  <2> HIDE DEF n, S, A
  <2>5. sharding \in Sharding
    BY <2>1, <2>2, <2>3, <2>4 DEF Sharding, n, S, A
  <2>6. sharding.count = n /\ sharding.state = S /\ sharding.assigned = A
    BY <2>1 DEF n, S, A
  <2>7. SomeShardAccepts
    BY <2>2, <2>3, <2>4, <2>6 DEF SomeShardAccepts
  <2> QED BY <2>5, <2>7 DEF ShardingInv
<1>4. NftsInv
  BY DEF Init, IdentityInit, NftsInv, ChildrenAgree
<1>5. RecoveryInv
  BY DEF Init, IdentityInit, RecoveryInv, Recovery, PerParty
<1>7. ScoresInv
  <2> DEFINE z == [score |-> 0, updated |-> None, minted |-> 0, decayed |-> 0, log |-> <<>>, forgiven |-> 0]
  <2>1. repTokens = PerParty(z)
    BY DEF Init, IdentityInit
  <2>2. /\ z \in RepToken /\ z.updated = None /\ z.score = z.minted - z.decayed + 2 * z.forgiven
        /\ ScoreLogged(z.score, z.log)
    BY IdentityAssumption DEF RepToken, ScoreLogged
  <2> HIDE DEF z
  <2> QED BY <2>1, <2>2 DEF PerParty, ScoresInv
<1> QED BY <1>1, <1>2, <1>4, <1>5, <1>7

\* A call changes the records of one library only.
LEMMA RecordsMove ==
  ASSUME Next
  PROVE  /\ now' = now \/ now' = now + 1
         /\ FractionsNext \/ UNCHANGED fractions
         /\ ShardingNext \/ UNCHANGED sharding
         /\ (RepTokenNext /\ now' = now) \/ UNCHANGED repTokens
         /\ NftNext \/ UNCHANGED nfts
         /\ RecoveryNext \/ UNCHANGED recovery
<1> DEFINE StepFits ==
                    /\ FractionsNext \/ UNCHANGED fractions
                    /\ ShardingNext \/ UNCHANGED sharding
                    /\ RepTokenNext \/ UNCHANGED repTokens
                    /\ NftNext \/ UNCHANGED nfts
                    /\ RecoveryNext \/ UNCHANGED recovery
<1>1. ASSUME UNCHANGED <<sharesVars, shardVars, identityVars>> PROVE StepFits
  BY <1>1, Zenon DEF sharesVars, shardVars, identityVars
<1>2. ASSUME FractionsNext \/ UNCHANGED fractions, UNCHANGED <<shardVars, identityVars>> PROVE StepFits
  BY <1>2, Zenon DEF shardVars, identityVars
<1>3. ASSUME ShardingNext \/ RoutingNext \/ VerkleNext, UNCHANGED <<sharesVars, identityVars>> PROVE StepFits
  BY <1>3, Zenon DEF ShardingNext, RoutingNext, VerkleNext, sharesVars, identityVars
<1>4. ASSUME DidNext \/ RepTokenNext \/ NftNext \/ RecoveryNext \/ DisputeNext, UNCHANGED <<sharesVars, shardVars>>
      PROVE  StepFits
  BY <1>4, Zenon DEF DidNext, RepTokenNext, NftNext, RecoveryNext, DisputeNext, sharesVars, shardVars
<1>5. CASE Paying /\ now' = now
  BY <1>1, <1>5, Zenon DEF Paying
<1>6. CASE Recording /\ now' = now
  BY <1>1, <1>2, <1>3, <1>4, <1>6, Zenon DEF Recording
<1>7. CASE Tick /\ UNCHANGED <<sharesVars, shardVars, identityVars>>
  <2>1. now' = now + 1 /\ UNCHANGED repTokens
    BY <1>7 DEF Tick, identityVars
  <2> QED BY <1>1, <1>7, <2>1
<1> QED BY <1>5, <1>6, <1>7, Zenon DEF Next

LEMMA RecordsStep ==
  ASSUME now \in Nat, FractionsInv, ShardingInv, ScoresInv, NftsInv, RecoveryInv,
         [Next]_vars
  PROVE  FractionsInv' /\ ShardingInv' /\ ScoresInv' /\ NftsInv' /\ RecoveryInv'
<1>1. UNCHANGED fractions => FractionsInv'
  BY DEF FractionsInv
<1>2. UNCHANGED sharding => ShardingInv'
  BY DEF ShardingInv, SomeShardAccepts
<1>4. UNCHANGED nfts => NftsInv'
  BY DEF NftsInv, ChildrenAgree
<1>5. UNCHANGED recovery => RecoveryInv'
  BY DEF RecoveryInv
<1>7. UNCHANGED vars => UNCHANGED <<now, fractions, sharding, repTokens, nfts, recovery>>
  BY DEF vars, ledgerVars, sharesVars, shardVars, identityVars
<1>8. CASE Next
  <2>1. RepTokenNext /\ now' = now => ScoresInv'
    BY ScoreStep
  <2>2. UNCHANGED repTokens => ScoresInv'
    BY <1>8, RecordsMove, ScoreLater
  <2> QED BY <1>1, <1>2, <1>4, <1>5, <1>8, <2>1, <2>2, RecordsMove, FractionsStep, ShardingStep,
             NftStep, RecoveryStep
<1>9. CASE UNCHANGED vars
  BY <1>1, <1>2, <1>4, <1>5, <1>7, <1>9, ScoreLater
<1> QED BY <1>8, <1>9

LEMMA RecordsSound ==
  ASSUME FractionsInv, ShardingInv, ScoresInv, NftsInv, RecoveryInv
  PROVE  KeptInStep
<1>1. FractionsSound
  BY DEF FractionsInv, FractionsSound, PoolSound
<1>2. RecoveredOnApproval
  BY DEF RecoveryInv, RequestSound, RecoveredOnApproval
<1> QED BY <1>1, <1>2, ScoresSound DEF KeptInStep, ShardingInv, NftsInv

\* What the libraries keep in two places agrees, whatever the order of calls: the fractions
\* of a pool are its supply and their revenue covers all claims, as long as only listed holders
\* buy the others out; a shard still accepts tips after any rebalancing; a score is what was
\* minted less what decayed, and its log says why; parents and children of NFTs name one
\* another; and an executed recovery had the approvals it needed and the whole delay.
THEOREM RecordsAlwaysInStep == Spec => []KeptInStep
<1> DEFINE I == FractionsInv /\ ShardingInv /\ ScoresInv /\ NftsInv /\ RecoveryInv
<1>1. Init => I
  BY RecordsStart
<1>2. RecordsInv => now \in Nat
  BY RecordsParts
<1>3. RecordsInv /\ I /\ [Next]_vars => I'
  BY <1>2, RecordsStep
<1>4. I => KeptInStep
  BY RecordsSound
<1> HIDE DEF I
<1> QED BY <1>1, <1>3, <1>4, RecordsAlwaysTied, PTL DEF Spec
=============================================================================
