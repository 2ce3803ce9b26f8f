---------------------------- MODULE LegacyShares ----------------------------
(***************************************************************************)
(* Fractions of a creator's revenue, and splits of an amount among several *)
(* recipients, nested where a recipient has a split of its own.  Both only *)
(* keep accounts: no call here moves a token.                              *)
(***************************************************************************)
EXTENDS LegacyLedger, Sequences

CONSTANTS
  Supplies,       \* numbers of fractions to mint
  Lots,           \* numbers of fractions to transfer
  BuyoutPrices,   \* prices of a fraction, 0: no buyout
  Splits,         \* lists of recipients: sequences of [recipient, bps]
  MaxNestDepth    \* MAX_NEST_DEPTH

VARIABLES
  fractions,      \* DataKey::FractionPool, FractionPosition and FractionHolders
  splits,         \* DataKey::SplitConfig
  splitBalance,   \* DataKey::SplitBalance
  splitHistory    \* DataKey::SplitHistory, and the amounts that came in

ASSUME SharesAssumption ==
  /\ Supplies \subseteq Nat \ {0} /\ Lots \subseteq Nat
  /\ BuyoutPrices \subseteq Int

splitVars == <<splits, splitBalance, splitHistory>>
sharesVars == <<fractions, splitVars>>

SharesInit ==
  /\ fractions = PerParty(None)
  /\ splits = PerParty(None)
  /\ splitBalance = PerParty(0)
  /\ splitHistory = PerParty([count |-> 0, recorded |-> 0, given |-> 0])

\* claimed and outsider are history: what claims were answered with, and whether
\* someone who was no listed holder bought the others out.
mint_fractions(c, n, price) ==
  /\ fractions[c] = None
  /\ fractions' = [fractions EXCEPT ![c] =
       [supply |-> n, revenue |-> 0, per_fraction |-> 0, price |-> price, holders |-> {c},
        amount |-> [h \in Party |-> IF h = c THEN n ELSE 0], debt |-> PerParty(0), claimed |-> 0,
        outsider |-> FALSE]]

\* What the division leaves over stays undistributed.
Accrued(f, x) == [f EXCEPT !.revenue = @ + x, !.per_fraction = @ + x \div f.supply]
accrue_revenue(c, x) ==
  /\ fractions[c] # None
  /\ fractions' = [fractions EXCEPT ![c] = Accrued(@, x)]

Owed(f, h) == (f.per_fraction - f.debt[h]) * f.amount[h]

Claimed(f, h) == [f EXCEPT !.debt[h] = f.per_fraction, !.claimed = @ + Owed(f, h)]
claim_revenue(c, h) ==
  /\ fractions[c] # None
  /\ Owed(fractions[c], h) > 0
  /\ fractions' = [fractions EXCEPT ![c] = Claimed(@, h)]

\* Both positions start again at the present mark: what they were owed is forgone.
Handed(f, from, to, n) ==
  [f EXCEPT !.debt = [f.debt EXCEPT ![from] = IF Owed(f, from) > 0 THEN f.per_fraction ELSE @,
                                    ![to] = f.per_fraction],
            !.amount = [f.amount EXCEPT ![from] = @ - n, ![to] = @ + n],
            !.holders = @ \cup {to}]
transfer_fractions(c, from, to, n) ==
  /\ fractions[c] # None
  /\ fractions[c].amount[from] >= n
  /\ fractions' = [fractions EXCEPT ![c] = Handed(@, from, to, n)]

\* The listed holders give up their positions.  The buyer is not entered in the list.
BoughtOut(f, buyer) ==
  [f EXCEPT !.outsider = @ \/ buyer \notin f.holders,
            !.amount = [h \in Party |-> IF h = buyer THEN f.supply
                                        ELSE IF h \in f.holders THEN 0 ELSE @[h]],
            !.debt = [h \in Party |-> IF h = buyer \/ (h \in f.holders /\ f.amount[h] > 0)
                                      THEN f.per_fraction ELSE @[h]]]
buyout(c, buyer) ==
  /\ fractions[c] # None
  /\ fractions[c].price > 0
  /\ fractions[c].amount[buyer] < fractions[c].supply
  /\ fractions' = [fractions EXCEPT ![c] = BoughtOut(@, buyer)]

FractionsNext ==
  \E c \in Party :
    \/ \E n \in Supplies, price \in BuyoutPrices : mint_fractions(c, n, price)
    \/ \E x \in Amounts : accrue_revenue(c, x)
    \/ \E h \in Party : \/ claim_revenue(c, h) \/ buyout(c, h)
                        \/ \E to \in Party, n \in Lots : transfer_fractions(c, h, to, n)

-----------------------------------------------------------------------------
validate_recipients(list) ==
  /\ list # <<>>
  /\ MapThenSumSet(LAMBDA k : list[k].bps, DOMAIN list) = Bps

\* Anyone may replace a split, its own or another's.
set_split(owner, s, list) ==
  /\ validate_recipients(list)
  /\ splits' = [splits EXCEPT ![s] = [owner |-> owner, recipients |-> list]]
  /\ UNCHANGED <<splitBalance, splitHistory>>

modify_split(owner, s, list) ==
  /\ splits[s] # None
  /\ splits[s].owner = owner
  /\ validate_recipients(list)
  /\ splits' = [splits EXCEPT ![s].recipients = list]
  /\ UNCHANGED <<splitBalance, splitHistory>>

ShareOf(x, r) == (x * r.bps) \div Bps

\* What reaches p of an amount x that is split at s.
distribute_inner(p, s, x) ==
  LET part[d \in 0 .. MaxNestDepth, k \in Party, y \in Nat] ==
        LET list == splits[k].recipients
            Reached(i) ==
              IF d < MaxNestDepth /\ splits[list[i].recipient] # None
              THEN part[d + 1, list[i].recipient, ShareOf(y, list[i])]
              ELSE IF list[i].recipient = p THEN ShareOf(y, list[i]) ELSE 0
        IN  MapThenSumSet(Reached, DOMAIN list)
  IN  part[0, s, x]

\* The history has the shares of the first level.
distribute(s, x) ==
  LET list == splits[s].recipients
  IN  /\ splitBalance' = [p \in Party |-> splitBalance[p] + distribute_inner(p, s, x)]
      /\ splitHistory' = [splitHistory EXCEPT
           ![s] = [count |-> @.count + 1, given |-> @.given + x,
                   recorded |-> @.recorded + MapThenSumSet(LAMBDA i : ShareOf(x, list[i]), DOMAIN list)]]
distribute_split(s, x) ==
  /\ splits[s] # None
  /\ distribute(s, x)
  /\ UNCHANGED splits

SplitNext ==
  \E s \in Party :
    \/ \E owner \in Party, list \in Splits : set_split(owner, s, list) \/ modify_split(owner, s, list)
    \/ \E x \in Amounts : distribute_split(s, x)

-----------------------------------------------------------------------------
\* The positions of a pool are its whole supply, through transfers to oneself and
\* buyouts, and claims made or still open never exceed the revenue, however often
\* fractions change hands between accruals and claims: as long as only listed
\* holders buy the others out.
FractionsSound ==
  \A c \in Party : fractions[c] # None /\ ~fractions[c].outsider =>
    LET f == fractions[c]
    IN  /\ SumFunction(f.amount) = f.supply
        /\ f.claimed + SumFunction([h \in Party |-> Owed(f, h)]) <= f.revenue

\* A buyout is to "transfer all fractions from every other holder to the buyer": what
\* it takes from the others is what it gives, and the positions stay the supply.
BuyoutTakesAll ==
  \A c \in Party : fractions[c] # None =>
    SumFunction(fractions[c].amount) = fractions[c].supply

\* The recipients together never get more than the history records, nor that more
\* than came in, whatever the nesting, a split that names itself included.
SplitsWithin ==
  /\ MapThenSumSet(LAMBDA p : splitBalance[p], Party)
       <= MapThenSumSet(LAMBDA s : splitHistory[s].recorded, Party)
  /\ \A s \in Party : splitHistory[s].recorded <= splitHistory[s].given

-----------------------------------------------------------------------------
\* What makes FractionsSound inductive: no position is marked ahead of its pool, and
\* whoever holds fractions is listed, until an outsider bought the others out.
FractionPool ==
  [supply : Nat \ {0}, revenue : Nat, per_fraction : Nat, price : Int, holders : SUBSET Party,
   amount : [Party -> Nat], debt : [Party -> Nat], claimed : Nat, outsider : BOOLEAN]
PoolSound(f) ==
  /\ f \in FractionPool
  /\ \A h \in Party : f.debt[h] <= f.per_fraction
  /\ ~f.outsider =>
       /\ \A h \in Party \ f.holders : f.amount[h] = 0
       /\ SumFunction(f.amount) = f.supply
       /\ f.claimed + SumFunction([h \in Party |-> Owed(f, h)]) <= f.revenue
FractionsInv ==
  /\ DOMAIN fractions = Party
  /\ \A c \in Party : fractions[c] # None => PoolSound(fractions[c])
=============================================================================
