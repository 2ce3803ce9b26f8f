------------------------------- MODULE TipJar -------------------------------
(***************************************************************************)
(* The tip jar contract: escrow of tips per creator and token, protocol    *)
(* fees, withdrawals to a delayed payout address, operator allowances, the *)
(* token allowlist, and the lazy migration of the storage an earlier       *)
(* single-token build left behind.  Governance and the circuit breaker are *)
(* the extended modules; every handler below is one atomic transaction.    *)
(***************************************************************************)
EXTENDS TipJarPause, Sequences, FiniteSets, Functions

CONSTANTS
  Jar,             \* the contract's own address; it signs nothing
  Creator,         \* addresses that are tipped
  Token,           \* SEP-41 token contracts
  Payees,          \* whom set_payout_address is called with
  Delegates,       \* the operators creators authorize
  Amounts,         \* the i128 amounts that calls are made with
  FeeRates,        \* the bps that set_fee is called with
  Expiries,        \* the expiry_ledger that authorize_operator is given
  LegacyAmounts,   \* v1 balances and totals an upgraded jar may hold
  Supply,          \* what each address but the jar owns of each token
  PayoutDelay,     \* PAYOUT_DELAY_LEDGERS
  MaxTokens,       \* MAX_ALLOWED_TOKENS
  BpsDenominator,  \* BPS_DENOMINATOR
  MaxFeeBps,       \* MAX_FEE_BPS
  I128Max          \* the largest i128

Amount == 0 .. I128Max
Payouts == [to : Address, effective : Ledger]
Operators == [allowance : Int, expiry : Ledger]
Announcements == [to : Address, at : Ledger]
Grants == [given : Int, drawn : Int]

ASSUME JarAssumption ==
  /\ Jar \in Address \ Signer
  /\ Creator \subseteq Signer
  /\ IsFiniteSet(Creator)
  /\ Payees \subseteq Address
  /\ Delegates \subseteq Signer
  /\ Amounts \subseteq Int
  /\ FeeRates \subseteq Nat
  /\ Expiries \subseteq Ledger
  /\ I128Max \in Nat
  /\ LegacyAmounts \subseteq Amount
  /\ Supply \in Amount
  /\ PayoutDelay \in Ledger
  /\ MaxTokens \in Nat \ {0}
  /\ BpsDenominator \in Nat \ {0}
  /\ MaxFeeBps \in 0 .. BpsDenominator
  /\ None \notin Token
  /\ None \notin Int
  /\ None \notin Payouts
  /\ None \notin Operators
  /\ None \notin Announcements

NoPayoutWrap == MaxLedger + PayoutDelay < U32

VARIABLES
  token,            \* DataKey::Token, the first and legacy token
  allowedTokens,    \* DataKey::AllowedTokens
  feeBps,           \* DataKey::FeeBps
  balance,          \* DataKey::Balance(creator, token)
  total,            \* DataKey::Total(creator, token)
  feeBalance,       \* DataKey::FeeBalanceToken(token)
  creatorBalance,   \* DataKey::CreatorBalance(creator), v1
  creatorTotal,     \* DataKey::CreatorTotal(creator), v1
  legacyFee,        \* DataKey::FeeBalance, v1
  payoutAddress,    \* DataKey::PayoutAddress(creator)
  pendingPayout,    \* DataKey::PendingPayoutChange(creator)
  operator,         \* DataKey::Operator(creator, operator)
  wallet,           \* external: the token contracts' balances
  announced,        \* history: per creator, the payout address last
                    \* announced and not cancelled, and its ledger
  grant             \* history: per creator and operator, the last grant and
                    \* what was drawn on it

fundVars == <<balance, total, feeBalance, creatorBalance, creatorTotal,
              legacyFee, wallet>>
configVars == <<token, allowedTokens, feeBps>>
payoutVars == <<payoutAddress, pendingPayout, announced>>
operatorVars == <<operator, grant>>
jarVars == <<fundVars, configVars, payoutVars, operatorVars>>
vars == <<pauseVars, jarVars>>

-----------------------------------------------------------------------------
\* floor(amount * bps / BPS_DENOMINATOR)
fee_for(amount, bps) == (amount * bps) \div BpsDenominator

\* SEP-41 transfer; moving to oneself changes nothing.
Transfer(t, from, to, amount) ==
  /\ wallet[t][from] >= amount
  /\ wallet' = [wallet EXCEPT ![t] = [a \in Address |->
       @[a] - (IF a = from THEN amount ELSE 0) + (IF a = to THEN amount ELSE 0)]]

\* maybe_migrate_creator_data: for the legacy token, a v1 entry replaces the
\* (creator, token) entry and is removed.
HasV1(v1, c, t) == t = token /\ v1[c] # None
MigratedBalance(c, t) ==
  IF HasV1(creatorBalance, c, t) THEN creatorBalance[c] ELSE balance[c][t]
MigratedTotal(c, t) ==
  IF HasV1(creatorTotal, c, t) THEN creatorTotal[c] ELSE total[c][t]

ClearV1(v1, c, t) == IF t = token THEN [v1 EXCEPT ![c] = None] ELSE v1

\* maybe_migrate_fee_balance: the unkeyed counter is added to the legacy
\* token's fee balance.
HasV1Fee(t) == t = token /\ legacyFee # None
MigratedFee(t) == feeBalance[t] + (IF HasV1Fee(t) THEN legacyFee ELSE 0)

\* Mutant: the unkeyed counter is not removed.
ClearV1Fee_kept(t) == legacyFee

ClearV1Fee(t) == IF HasV1Fee(t) THEN None ELSE legacyFee

\* Mutant: an addition that is not checked against the width of i128.
FitsI128_never_checked(x) == TRUE

\* checked_add and checked_mul panic outside i128.
FitsI128(x) == x <= I128Max

ensure_token_allowed(t) == t \in Range(allowedTokens)

\* The payout address a withdrawal of c uses in this ledger.
Matured(c) ==
  pendingPayout[c] # None /\ seq >= pendingPayout[c].effective
PayoutNow(c) ==
  CASE Matured(c) -> pendingPayout[c].to
    [] ~Matured(c) /\ payoutAddress[c] # None -> payoutAddress[c]
    [] OTHER -> c

-----------------------------------------------------------------------------
tip(sender, c, t, amount) ==
  LET fee == fee_for(amount, feeBps)
      net == amount - fee
  IN
  /\ check_not_paused(TIPS)
  /\ amount > 0
  /\ admin # None
  /\ ensure_token_allowed(t)
  /\ FitsI128(amount * feeBps)
  /\ Transfer(t, sender, Jar, amount)
  /\ FitsI128(MigratedBalance(c, t) + net)
  /\ FitsI128(MigratedTotal(c, t) + amount)
  /\ balance' = [balance EXCEPT ![c][t] = MigratedBalance(c, t) + net]
  /\ total' = [total EXCEPT ![c][t] = MigratedTotal(c, t) + amount]
  /\ creatorBalance' = ClearV1(creatorBalance, c, t)
  /\ creatorTotal' = ClearV1(creatorTotal, c, t)
  /\ IF feeBps > 0
     THEN /\ FitsI128(MigratedFee(t) + fee)
          /\ feeBalance' = [feeBalance EXCEPT ![t] = MigratedFee(t) + fee]
          /\ legacyFee' = ClearV1Fee(t)
     ELSE UNCHANGED <<feeBalance, legacyFee>>
  /\ UNCHANGED <<pauseVars, configVars, payoutVars, operatorVars>>

\* Mutant: the allowance is checked but not used up.
UseAllowance_forever(caller, c, amount) ==
  LET op == operator[c][caller] IN
  /\ caller \in Delegates
  /\ op # None
  /\ ~(seq > op.expiry)
  /\ ~(op.allowance < amount)
  /\ grant' = [grant EXCEPT ![c][caller].drawn = @ + amount]
  /\ UNCHANGED operator

\* A caller other than the creator draws on its allowance, which counts units
\* of any token; an allowance drawn to zero is removed.
UseAllowance(caller, c, amount) ==
  LET op == operator[c][caller] IN
  /\ caller \in Delegates
  /\ op # None
  /\ ~(seq > op.expiry)
  /\ ~(op.allowance < amount)
  /\ operator' = [operator EXCEPT ![c][caller] =
       IF op.allowance = amount THEN None
       ELSE [op EXCEPT !.allowance = @ - amount]]
  /\ grant' = [grant EXCEPT ![c][caller].drawn = @ + amount]

ApplyMaturedPayout(c) ==
  IF Matured(c)
  THEN /\ payoutAddress' = [payoutAddress EXCEPT ![c] = pendingPayout[c].to]
       /\ pendingPayout' = [pendingPayout EXCEPT ![c] = None]
       /\ announced' = [announced EXCEPT ![c] = None]
  ELSE UNCHANGED payoutVars

\* The body of withdraw; amount is None for the whole balance.
PayOut(caller, c, t, to, amount) ==
  LET owed == MigratedBalance(c, t)
      paid == IF amount = None THEN owed ELSE amount
  IN
  /\ admin # None
  /\ owed # 0
  /\ paid > 0 /\ paid <= owed
  /\ IF caller = c THEN UNCHANGED operatorVars
                   ELSE UseAllowance(caller, c, paid)
  /\ to = PayoutNow(c)
  /\ ApplyMaturedPayout(c)
  /\ Transfer(t, Jar, to, paid)
  /\ balance' = [balance EXCEPT ![c][t] = owed - paid]
  /\ total' = [total EXCEPT ![c][t] = MigratedTotal(c, t)]
  /\ creatorBalance' = ClearV1(creatorBalance, c, t)
  /\ creatorTotal' = ClearV1(creatorTotal, c, t)
  /\ UNCHANGED <<pauseVars, configVars, feeBalance, legacyFee>>

\* Mutant: only allowed tokens can be withdrawn.
withdraw_allowed_only(caller, c, t, to, amount) ==
  /\ check_not_paused(WITHDRAWALS)
  /\ ensure_token_allowed(t)
  /\ PayOut(caller, c, t, to, amount)

withdraw(caller, c, t, to, amount) ==
  /\ check_not_paused(WITHDRAWALS)
  /\ PayOut(caller, c, t, to, amount)

\* The v1 entry points use the first allowed token.
tip_legacy(sender, c, amount) ==
  allowedTokens # <<>> /\ tip(sender, c, Head(allowedTokens), amount)

withdraw_legacy(caller, c, to, amount) ==
  allowedTokens # <<>> /\ withdraw(caller, c, Head(allowedTokens), to, amount)

\* Mutant: the v1 total is dropped instead of moved.
get_balance_drops_total(c, t) ==
  /\ HasV1(creatorBalance, c, t) \/ HasV1(creatorTotal, c, t)
  /\ balance' = [balance EXCEPT ![c][t] = MigratedBalance(c, t)]
  /\ creatorBalance' = ClearV1(creatorBalance, c, t)
  /\ creatorTotal' = ClearV1(creatorTotal, c, t)
  /\ UNCHANGED <<pauseVars, configVars, payoutVars, operatorVars, total,
                 feeBalance, legacyFee, wallet>>

\* The getters migrate what they read (get_balance, get_total_tips,
\* get_total_tips_legacy): as a transaction of their own they are a step.
get_balance(c, t) ==
  /\ HasV1(creatorBalance, c, t) \/ HasV1(creatorTotal, c, t)
  /\ balance' = [balance EXCEPT ![c][t] = MigratedBalance(c, t)]
  /\ total' = [total EXCEPT ![c][t] = MigratedTotal(c, t)]
  /\ creatorBalance' = ClearV1(creatorBalance, c, t)
  /\ creatorTotal' = ClearV1(creatorTotal, c, t)
  /\ UNCHANGED <<pauseVars, configVars, payoutVars, operatorVars, feeBalance,
                 legacyFee, wallet>>

get_fee_balance(t) ==
  /\ HasV1Fee(t)
  /\ FitsI128(MigratedFee(t))
  /\ feeBalance' = [feeBalance EXCEPT ![t] = MigratedFee(t)]
  /\ legacyFee' = ClearV1Fee(t)
  /\ UNCHANGED <<pauseVars, configVars, payoutVars, operatorVars, balance,
                 total, creatorBalance, creatorTotal, wallet>>

\* Not gated by the circuit breaker.
withdraw_fees(caller, t, amount) ==
  LET owed == MigratedFee(t)
      paid == IF amount = None THEN owed ELSE amount
  IN
  /\ feeCollector # None
  /\ caller = feeCollector
  /\ FitsI128(owed)
  /\ owed # 0
  /\ paid > 0 /\ paid <= owed
  /\ Transfer(t, Jar, feeCollector, paid)
  /\ feeBalance' = [feeBalance EXCEPT ![t] = owed - paid]
  /\ legacyFee' = ClearV1Fee(t)
  /\ UNCHANGED <<pauseVars, configVars, payoutVars, operatorVars, balance,
                 total, creatorBalance, creatorTotal>>

-----------------------------------------------------------------------------
set_fee(caller, bps) ==
  /\ RequireAdmin(caller)
  /\ ~(bps > MaxFeeBps)
  /\ feeBps' = bps
  /\ UNCHANGED <<pauseVars, fundVars, token, allowedTokens, payoutVars,
                 operatorVars>>

add_token(caller, t) ==
  /\ RequireAdmin(caller)
  /\ ~(Len(allowedTokens) >= MaxTokens)
  /\ t \notin Range(allowedTokens)
  /\ allowedTokens' = Append(allowedTokens, t)
  /\ UNCHANGED <<pauseVars, fundVars, token, feeBps, payoutVars, operatorVars>>

\* No token is in the list twice, so dropping every entry equal to a token is
\* dropping its one entry.
WithoutEntry(i) ==
  SubSeq(allowedTokens, 1, i - 1)
    \o SubSeq(allowedTokens, i + 1, Len(allowedTokens))

\* Mutant: removing a token also clears the balances held in it.
remove_token_purges(caller, t) ==
  /\ RequireAdmin(caller)
  /\ \E i \in DOMAIN allowedTokens :
       allowedTokens[i] = t /\ allowedTokens' = WithoutEntry(i)
  /\ balance' = [c \in Creator |-> [balance[c] EXCEPT ![t] = 0]]
  /\ UNCHANGED <<pauseVars, total, feeBalance, creatorBalance, creatorTotal,
                 legacyFee, wallet, token, feeBps, payoutVars, operatorVars>>

remove_token(caller, t) ==
  /\ RequireAdmin(caller)
  /\ \E i \in DOMAIN allowedTokens :
       allowedTokens[i] = t /\ allowedTokens' = WithoutEntry(i)
  /\ UNCHANGED <<pauseVars, fundVars, token, feeBps, payoutVars, operatorVars>>

-----------------------------------------------------------------------------
\* Mutant: replacing a pending change does not restart its delay.
set_payout_address_keeps_clock(c, p) ==
  /\ check_not_paused(WITHDRAWALS)
  /\ pendingPayout' = [pendingPayout EXCEPT ![c] =
       [to |-> p,
        effective |-> IF pendingPayout[c] = None THEN AddU32(seq, PayoutDelay)
                      ELSE pendingPayout[c].effective]]
  /\ announced' = [announced EXCEPT ![c] = [to |-> p, at |-> seq]]
  /\ UNCHANGED <<pauseVars, fundVars, configVars, operatorVars, payoutAddress>>

\* A new announcement replaces the pending one, matured or not.
set_payout_address(c, p) ==
  /\ check_not_paused(WITHDRAWALS)
  /\ pendingPayout' = [pendingPayout EXCEPT ![c] =
       [to |-> p, effective |-> AddU32(seq, PayoutDelay)]]
  /\ announced' = [announced EXCEPT ![c] = [to |-> p, at |-> seq]]
  /\ UNCHANGED <<pauseVars, fundVars, configVars, operatorVars, payoutAddress>>

\* Mutant: cancelling is possible while withdrawals are paused.
cancel_payout_address_ungated(c) ==
  /\ pendingPayout[c] # None
  /\ pendingPayout' = [pendingPayout EXCEPT ![c] = None]
  /\ announced' = [announced EXCEPT ![c] = None]
  /\ UNCHANGED <<pauseVars, fundVars, configVars, operatorVars, payoutAddress>>

cancel_payout_address(c) ==
  /\ check_not_paused(WITHDRAWALS)
  /\ pendingPayout[c] # None
  /\ pendingPayout' = [pendingPayout EXCEPT ![c] = None]
  /\ announced' = [announced EXCEPT ![c] = None]
  /\ UNCHANGED <<pauseVars, fundVars, configVars, operatorVars, payoutAddress>>

\* Neither the allowance nor the expiry is validated.
authorize_operator(c, o, allowance, expiry) ==
  /\ check_not_paused(WITHDRAWALS)
  /\ operator' = [operator EXCEPT ![c][o] =
       [allowance |-> allowance, expiry |-> expiry]]
  /\ grant' = [grant EXCEPT ![c][o] = [given |-> allowance, drawn |-> 0]]
  /\ UNCHANGED <<pauseVars, fundVars, configVars, payoutVars>>

revoke_operator(c, o) ==
  /\ check_not_paused(WITHDRAWALS)
  /\ operator' = [operator EXCEPT ![c][o] = None]
  /\ grant' = [grant EXCEPT ![c][o] = [given |-> 0, drawn |-> 0]]
  /\ UNCHANGED <<pauseVars, fundVars, configVars, payoutVars>>

-----------------------------------------------------------------------------
\* What a jar upgraded from v1 may hold: balances within the totals ever
\* tipped, all of them backed by tokens, and no allowlist.
V1Storage ==
  /\ token \in Token
  /\ allowedTokens = <<>>
  /\ creatorTotal \in [Creator -> LegacyAmounts \cup {None}]
  /\ creatorBalance \in [Creator -> LegacyAmounts \cup {None}]
  /\ \A c \in Creator :
       \/ creatorBalance[c] = None /\ creatorTotal[c] = None
       \/ /\ creatorBalance[c] # None /\ creatorTotal[c] # None
          /\ creatorBalance[c] <= creatorTotal[c]
  /\ legacyFee \in LegacyAmounts \cup {None}

EmptyStorage ==
  /\ token = None
  /\ allowedTokens = <<>>
  /\ creatorTotal = [c \in Creator |-> None]
  /\ creatorBalance = [c \in Creator |-> None]
  /\ legacyFee = None

OrZero(x) == IF x = None THEN 0 ELSE x

\* What the jar owes in token t, to creators and to the fee collector.
Liabilities(t) ==
  SumFunction([c \in Creator |-> MigratedBalance(c, t)]) + MigratedFee(t)

Init ==
  /\ PauseInit
  /\ IF admin = None THEN EmptyStorage ELSE V1Storage
  /\ feeBps = 0
  /\ balance = [c \in Creator |-> [t \in Token |-> 0]]
  /\ total = [c \in Creator |-> [t \in Token |-> 0]]
  /\ feeBalance = [t \in Token |-> 0]
  /\ payoutAddress = [c \in Creator |-> None]
  /\ pendingPayout = [c \in Creator |-> None]
  /\ announced = [c \in Creator |-> None]
  /\ operator = [c \in Creator |-> [o \in Delegates |-> None]]
  /\ grant = [c \in Creator |-> [o \in Delegates |-> [given |-> 0, drawn |-> 0]]]
  /\ wallet = [t \in Token |-> [a \in Address |->
       IF a = Jar THEN Liabilities(t) ELSE Supply]]

initialize(t, a, tl) ==
  /\ init(a, tl)
  /\ token' = t
  /\ allowedTokens' = <<t>>
  /\ UNCHANGED <<breakerVars, fundVars, feeBps, payoutVars, operatorVars>>

FundStep ==
  \/ \E s \in Signer, c \in Creator, a \in Amounts :
       \/ \E t \in Token : tip(s, c, t, a)
       \/ tip_legacy(s, c, a)
  \/ \E s \in Signer, c \in Creator, to \in Address, a \in Amounts \cup {None} :
       \/ \E t \in Token : withdraw(s, c, t, to, a)
       \/ withdraw_legacy(s, c, to, a)
  \/ \E c \in Creator, t \in Token : get_balance(c, t)
  \/ \E t \in Token : get_fee_balance(t)
  \/ \E s \in Signer, t \in Token, a \in Amounts \cup {None} :
       withdraw_fees(s, t, a)

ConfigStep ==
  \E a \in Signer :
    \/ \E bps \in FeeRates : set_fee(a, bps)
    \/ \E t \in Token : add_token(a, t) \/ remove_token(a, t)

DelegationStep ==
  \E c \in Creator :
    \/ \E p \in Payees : set_payout_address(c, p)
    \/ cancel_payout_address(c)
    \/ \E o \in Delegates, a \in Amounts, e \in Expiries :
         authorize_operator(c, o, a, e)
    \/ \E o \in Delegates : revoke_operator(c, o)

Next ==
  \/ \E t \in Token, a \in Signer, tl \in Timelocks : initialize(t, a, tl)
  \/ PauseStep /\ UNCHANGED jarVars
  \/ FundStep
  \/ ConfigStep
  \/ DelegationStep

Spec == Init /\ [][Next]_vars

-----------------------------------------------------------------------------
TypeOK ==
  /\ GovTypeOK
  /\ PauseTypeOK
  /\ token \in Token \cup {None}
  /\ allowedTokens \in Seq(Token)
  /\ feeBps \in 0 .. MaxFeeBps
  /\ balance \in [Creator -> [Token -> Amount]]
  /\ total \in [Creator -> [Token -> Amount]]
  /\ feeBalance \in [Token -> Amount]
  /\ creatorBalance \in [Creator -> Amount \cup {None}]
  /\ creatorTotal \in [Creator -> Amount \cup {None}]
  /\ legacyFee \in Amount \cup {None}
  /\ payoutAddress \in [Creator -> Address \cup {None}]
  /\ pendingPayout \in [Creator -> Payouts \cup {None}]
  /\ operator \in [Creator -> [Delegates -> Operators \cup {None}]]
  /\ wallet \in [Token -> [Address -> Nat]]
  /\ announced \in [Creator -> Announcements \cup {None}]
  /\ grant \in [Creator -> [Delegates -> Grants]]

\* The jar holds every token it owes, whatever mix of tips, fees, partial and
\* operator withdrawals, fee rate changes and lazy migrations led here.  (More
\* than it owes once a creator names the jar as its own payout address.)
Solvent == \A t \in Token : wallet[t][Jar] >= Liabilities(t)

\* What a creator may still withdraw never exceeds what it was ever tipped,
\* across the fee split and the v1 entries.
OwedWithinTotal ==
  \A c \in Creator, t \in Token : MigratedBalance(c, t) <= MigratedTotal(c, t)

\* "Historical total ever tipped (never decreases)": not even when the lazy
\* migration overwrites a (creator, token) entry with the v1 one.
TotalsNeverFall ==
  [][\A c \in Creator, t \in Token :
       MigratedTotal(c, t)' >= MigratedTotal(c, t)]_vars

\* A creator's withdrawable balance falls only when the jar pays out exactly
\* the difference, to the payout address in force; a payout to the jar itself
\* moves nothing.  In particular no migration, configuration change, pause or
\* upgrade eats a balance.
BalanceFallsOnlyByPayout ==
  [][\A c \in Creator, t \in Token :
       LET drop == MigratedBalance(c, t) - MigratedBalance(c, t)'
           payee == PayoutNow(c)
       IN  drop > 0 => \/ payee = Jar
                       \/ wallet'[t][payee] = wallet[t][payee] + drop]_vars

\* The delay of the payout address: while a creator's balance falls, the only
\* address that gains is one that was already in force, or one the creator
\* announced at least PayoutDelay ledgers ago and neither cancelled nor
\* replaced since.
PayoutDelayed ==
  [][\A c \in Creator, t \in Token, p \in Address :
       (/\ MigratedBalance(c, t)' < MigratedBalance(c, t)
        /\ wallet[t][p]' > wallet[t][p])
       => \/ p = payoutAddress[c]
          \/ p = c /\ payoutAddress[c] = None
          \/ /\ announced[c] # None
             /\ announced[c].to = p
             /\ announced[c].at + PayoutDelay <= seq]_vars

\* All an operator ever draws on one authorization, over any number of
\* withdrawals and tokens, stays within the allowance it was given.
OperatorWithinGrant ==
  \A c \in Creator, o \in Delegates :
    grant[c][o].drawn > 0 => grant[c][o].drawn <= grant[c][o].given

\* What is left of a live grant is what was given less what was drawn.
GrantsAccounted ==
  \A c \in Creator, o \in Delegates :
    /\ grant[c][o].drawn >= 0
    /\ operator[c][o] # None =>
         operator[c][o].allowance = grant[c][o].given - grant[c][o].drawn

\* A jar that was never initialized holds no v1 entry.
V1NeedsAdmin ==
  admin = None => /\ legacyFee = None
                  /\ \A c \in Creator : /\ creatorBalance[c] = None
                                        /\ creatorTotal[c] = None

\* Every pending payout address is the announced one, due PayoutDelay ledgers
\* after the announcement.
PayoutsAnnounced ==
  \A c \in Creator :
    pendingPayout[c] # None =>
      /\ announced[c] # None
      /\ announced[c].to = pendingPayout[c].to
      /\ pendingPayout[c].effective = announced[c].at + PayoutDelay

\* The inductive invariant behind the theorems of TipJarProofs.
JarInv ==
  /\ TypeOK
  /\ PauseInv
  /\ V1NeedsAdmin
  /\ Solvent
  /\ OwedWithinTotal
  /\ GrantsAccounted
  /\ OperatorWithinGrant

\* While withdrawals are paused no creator's money, payout address or operator
\* changes; while tips are paused no total grows.
PausedMeansFrozen ==
  [][/\ WITHDRAWALS \in effective_pause_flags =>
          /\ UNCHANGED <<payoutVars, operatorVars>>
          /\ \A c \in Creator, t \in Token :
               MigratedBalance(c, t)' >= MigratedBalance(c, t)
     /\ TIPS \in effective_pause_flags =>
          \A c \in Creator, t \in Token :
            MigratedTotal(c, t)' = MigratedTotal(c, t)]_vars

\* "Existing balances remain withdrawable" (remove_token), and so they do in
\* every state in which withdrawals are not paused: the creator can take its
\* whole balance of any token, allowed or removed, migrated or not.
FundsReachable ==
  \A c \in Creator, t \in Token :
    (MigratedBalance(c, t) > 0 /\ WITHDRAWALS \notin effective_pause_flags)
      => ENABLED withdraw(c, c, t, PayoutNow(c), None)
=============================================================================
