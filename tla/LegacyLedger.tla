---------------------------- MODULE LegacyLedger ----------------------------
(***************************************************************************)
(* What the features of the legacy tip jar share: the token accounts, the  *)
(* creators' balances, the platform's fees, the insurance reserves, the    *)
(* credit accounts, the pause switches and the first circuit breaker.      *)
(*                                                                         *)
(* A call is one transaction.  A call that panics is rolled back whole,    *)
(* what it wrote before the panic included, and is no step.  Amounts stay  *)
(* far below the width of an i128.                                         *)
(***************************************************************************)
EXTENDS Integers, Sequences, FiniteSets, FiniteSetsExt, Functions

CONSTANTS
  Party,      \* the accounts that sign calls
  Admin,      \* the one that init stored
  Jar,        \* the contract's own account
  Token,      \* token contracts
  None,       \* an absent entry
  Amounts,    \* the amounts calls are made with
  Supply,     \* what each party holds of each token at the start
  Bps,        \* basis points in a whole: 10_000
  MaxTime,    \* bound: the last timestamp
  Configs     \* what the admin may have configured when a behaviour starts

ASSUME LedgerAssumption ==
  /\ IsFiniteSet(Party) /\ IsFiniteSet(Token)
  /\ Admin \in Party /\ Jar \notin Party
  /\ Amounts \subseteq Nat
  /\ Supply \in [Party -> Nat]
  /\ Bps \in Nat \ {0}
  /\ MaxTime \in Nat \ {0}
  /\ None \notin Int

VARIABLES
  wallet,     \* token accounts
  books,      \* what the contract has recorded
  config,     \* what only the admin sets: fees, minima, whitelist, limits
  paused,     \* DataKey::Paused and DataKey::FeaturePaused
  breaker,    \* DataKey::CircuitBreaker(State)
  now,        \* the ledger's timestamp
  drift       \* history: how calls moved the jar's holdings off its records

ledgerVars == <<wallet, books, config, paused, breaker, now, drift>>
adminVars == <<config, paused>>

Scope == {"Tipping", "Withdrawals", "Subscriptions"}

Smaller(a, b) == IF a < b THEN a ELSE b
Larger(a, b) == IF a < b THEN b ELSE a
\* Division of signed integers drops the remainder.
Quotient(a, b) == IF a >= 0 THEN a \div b ELSE -((-a) \div b)
\* Newton's iteration, from n down.
isqrt(n) ==
  LET step[x \in 1 .. n] == LET y == (x + n \div x) \div 2 IN IF y < x THEN step[y] ELSE x
  IN  IF n <= 0 THEN 0 ELSE step[n]

PerToken(x) == [t \in Token |-> x]
PerParty(x) == [p \in Party |-> x]

\* balance: CreatorBalance; total: CreatorTotal; fees: Fee(Balance); reserves: the
\* pools' total_reserves; credit: "cr_acc"; tipped and received: the leaderboard.
LedgerInit ==
  /\ wallet = [t \in Token |-> [a \in Party \cup {Jar} |-> IF a = Jar THEN 0 ELSE Supply[a]]]
  /\ books = [balance |-> PerParty(PerToken(0)), total |-> PerParty(PerToken(0)),
              fees |-> PerToken(0), reserves |-> PerToken(0),
              credit |-> PerParty(PerToken(None)),
              tipped |-> PerParty(0), received |-> PerParty(0)]
  /\ config \in Configs
  /\ paused = [all |-> FALSE, features |-> {}]
  /\ breaker = None
  /\ now = 1
  /\ drift = [rewards |-> PerToken(0), repaid |-> PerToken(0),
              lost |-> PerToken(0), swapped |-> PerToken(0)]

-----------------------------------------------------------------------------
\* The token contract: a transfer is refused without the funds.
Transfer(w, t, from, to, x) ==
  [w EXCEPT ![t] = [a \in DOMAIN @ |-> @[a] - (IF a = from THEN x ELSE 0)
                                          + (IF a = to THEN x ELSE 0)]]
Pay(t, from, to, x) ==
  /\ wallet[t][from] >= x
  /\ wallet' = Transfer(wallet, t, from, to, x)

Tick ==
  /\ now < MaxTime
  /\ now' = now + 1
  /\ UNCHANGED <<wallet, books, adminVars, breaker, drift>>

require_not_paused == ~paused.all
require_feature_not_paused(s) == ~paused.all /\ s \notin paused.features
Whitelisted(t) == t \in config.whitelist

BreakerState ==
  IF breaker # None THEN breaker
  ELSE [start |-> now, volume |-> 0, halted_until |-> 0, trips |-> 0]

\* Mutant: the volume of a window is not counted.
check_circuit_breaker_uncounted(x) ==
  IF config.breaker = None \/ ~config.breaker.enabled THEN UNCHANGED breaker
  ELSE LET s == BreakerState
       IN  /\ now >= s.halted_until
           /\ x <= config.breaker.max_single
           /\ breaker' = [s EXCEPT !.volume = @ + x]

\* A call above a limit is refused.  It also starts a halt, but the panic that
\* refuses the call undoes that: only an admin's halt lasts.
check_circuit_breaker(x) ==
  IF config.breaker = None \/ ~config.breaker.enabled THEN UNCHANGED breaker
  ELSE LET cfg == config.breaker
           s == BreakerState
           fresh == now >= s.start + cfg.window
           volume == IF fresh THEN x ELSE s.volume + x
       IN  /\ now >= s.halted_until
           /\ x <= cfg.max_single
           /\ fresh \/ volume <= cfg.max_volume
           /\ breaker' = [s EXCEPT !.start = IF fresh THEN now ELSE @,
                                   !.volume = volume]

-----------------------------------------------------------------------------
\* Credit: interest is due on the principal for the time since the last update, all of
\* it at the rate in force now.
accrue_interest(a) ==
  LET due == (a.principal * config.credit.rate * (now - a.updated)) \div config.credit.unit
  IN  [a EXCEPT !.interest = @ + due, !.charged = @ + due,
                !.updated = IF a.principal = 0 THEN @ ELSE now]

\* A payment first settles interest, then principal.
Settled(a, x) ==
  [a EXCEPT !.interest = @ - Smaller(x, a.interest),
            !.principal = @ - (x - Smaller(x, a.interest)),
            !.repaid = @ + x, !.updated = now]

CreditEnabled == config.credit # None /\ config.credit.enabled

\* What process_repayment keeps of an amount that is about to reach a creator.
Repayment(accounts, c, t, x) ==
  LET a == accounts[c][t]
      due == accrue_interest(a)
  IN  IF ~CreditEnabled \/ a = None THEN 0
      ELSE IF a.principal = 0 /\ a.interest = 0 THEN 0
      ELSE Smaller((x * config.credit.share) \div Bps, due.principal + due.interest)

AfterRepayment(accounts, c, t, x) ==
  LET paid == Repayment(accounts, c, t, x)
  IN  IF paid = 0 THEN accounts
      ELSE [accounts EXCEPT ![c][t] = Settled(accrue_interest(@), paid)]

\* An amount reaches a creator: a share repays its credit into the fees, the
\* rest is balance, and fee and premium go where they belong.
CreditTo(b, c, t, x, counted, fee, premium) ==
  LET repaid == Repayment(b.credit, c, t, x)
  IN  [b EXCEPT !.balance[c][t] = @ + x - repaid, !.total[c][t] = @ + counted,
                !.fees[t] = @ + fee + repaid, !.reserves[t] = @ + premium,
                !.credit = AfterRepayment(@, c, t, x)]

PlatformFee(x) == (x * config.fee_bps) \div Bps
Premium(x) ==
  IF config.insurance = None \/ ~config.ins_enabled THEN 0
  ELSE (x * config.insurance.tip_premium_bps) \div Bps

update_leaderboard_stats(b, tipper, creator, x) ==
  [b EXCEPT !.tipped[tipper] = @ + x, !.received[creator] = @ + x]

\* A loop over a batch: each operation works on what the one before it left.  The
\* batches of the model have at most two.
InOrder(Op(_, _), b, ops) ==
  IF Len(ops) = 0 THEN b
  ELSE IF Len(ops) = 1 THEN Op(b, ops[1]) ELSE Op(Op(b, ops[1]), ops[2])

-----------------------------------------------------------------------------
\* What books record in a token, outside the features' own escrows.
RecordedIn(b, t) ==
  SumFunction([c \in Party |-> b.balance[c][t]]) + b.fees[t] + b.reserves[t]
Recorded(t) == RecordedIn(books, t)

\* What it holds beyond its records: a call that lost track of an amount or paid a
\* different token than it recorded adds to it; a reward or a repayment that
\* nobody paid in takes from it.
Drift(t) == drift.lost[t] + drift.swapped[t] - drift.rewards[t] - drift.repaid[t]
-----------------------------------------------------------------------------
\* What the variables of the ledger range over.
Account == Party \cup {Jar}
Wallets == [Token -> [Account -> Int]]
Loan ==   \* CreditAccount; history: charged, the interest of all time
  [principal : Int, interest : Int, updated : Int, borrowed : Int, repaid : Int, charged : Int]
Books ==
  [balance : [Party -> [Token -> Int]], total : [Party -> [Token -> Int]],
   fees : [Token -> Int], reserves : [Token -> Int],
   credit : [Party -> [Token -> {None} \cup Loan]],
   tipped : [Party -> Int], received : [Party -> Int]]
BreakerStates == [start : Int, volume : Nat, halted_until : Int, trips : Int]
Drifts ==
  [rewards : [Token -> Int], repaid : [Token -> Int], lost : [Token -> Int],
   swapped : [Token -> Int]]
LedgerTypeOK ==
  /\ wallet \in Wallets
  /\ books \in Books
  /\ breaker \in {None} \cup BreakerStates
  /\ now \in 1 .. MaxTime
  /\ drift \in Drifts
=============================================================================
