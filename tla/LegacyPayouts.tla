--------------------------- MODULE LegacyPayouts ----------------------------
(***************************************************************************)
(* The ways out of the legacy tip jar: the creator's own withdrawals, the  *)
(* ones of a delegate, the ones that need signatures, and the admin's.     *)
(* Some of them count against a creator's daily limit and some do not.     *)
(***************************************************************************)
EXTENDS LegacyLedger, SequencesExt

CONSTANTS
  Day,            \* DAY_SECS
  MinWithdrawal,  \* MIN_WITHDRAWAL
  Limits,         \* the <<daily limit, cooldown>> pairs the admin sets; 0 is none
  Grants,         \* the <<max_amount, duration>> pairs of delegations
  Signatures      \* MultiSigConfigs the admin sets

MultiSigConfig == [threshold : Int, required : Int, expiry : Int, signers : SUBSET Party]
Limit == [daily : Int, cooldown : Int, last : Int, today : Int, day : Nat]
Grant == [max : Int, used : Int, expires_at : Int, active : BOOLEAN]

ASSUME PayoutsAssumption ==
  /\ Day \in Nat \ {0}
  /\ MinWithdrawal \in Nat
  /\ Limits \subseteq Int \X Int
  /\ Grants \subseteq (Nat \ {0}) \X Int
  /\ Signatures \subseteq MultiSigConfig
  /\ None \notin Limit \cup Grant

VARIABLES
  limits,         \* DataKey::Limit(Withdrawal)
  limitDefault,   \* DataKey::Limit(Default)
  grants,         \* DataKey::Delegation(Active)
  delegates,      \* DataKey::Delegation(List)
  multisig,       \* DataKey::MultiSig(Config)
  requests,       \* DataKey::MultiSig(Request)
  drawn           \* history: what the calls that check the limit paid, by time

payoutVars == <<limits, limitDefault, grants, delegates, multisig, requests, drawn>>

NoLimit == [daily |-> 0, cooldown |-> 0, last |-> 0, today |-> 0, day |-> 0]

PayoutsInit ==
  /\ limits = PerParty(None)
  /\ limitDefault = None
  /\ grants = PerParty(PerParty(None))
  /\ delegates = PerParty({})
  /\ multisig = None
  /\ requests = <<>>
  /\ drawn = PerParty([n \in 0 .. MaxTime |-> 0])

Debited(c, t, x) == books' = [books EXCEPT !.balance[c][t] = @ - x]
KeepLedger == UNCHANGED <<adminVars, breaker, now, drift>>

\* The first withdrawal copies the default, which later defaults do not reach.
LimitsOf(c) ==
  IF limits[c] # None THEN limits[c]
  ELSE IF limitDefault # None THEN limitDefault ELSE NoLimit

check_and_update_withdrawal_limits(c, x) ==
  LET l == LimitsOf(c)
      fresh == now >= l.day + Day
      today == IF fresh THEN 0 ELSE l.today
  IN  /\ (l.cooldown > 0 /\ l.last > 0) => now >= l.last + l.cooldown
      /\ l.daily > 0 => today + x <= l.daily
      /\ limits' = [limits EXCEPT ![c] = [l EXCEPT !.today = today + x, !.last = now,
                                                   !.day = IF fresh THEN now ELSE @]]
      /\ drawn' = [drawn EXCEPT ![c][now] = @ + x]

-----------------------------------------------------------------------------
set_withdrawal_limits(c, l) ==
  /\ limits' = [limits EXCEPT ![c] =
       [(IF @ = None THEN NoLimit ELSE @) EXCEPT !.daily = l[1], !.cooldown = l[2]]]
  /\ UNCHANGED <<ledgerVars, limitDefault, grants, delegates, multisig, requests, drawn>>

set_default_withdrawal_limits(l) ==
  /\ limitDefault' = [NoLimit EXCEPT !.daily = l[1], !.cooldown = l[2]]
  /\ UNCHANGED <<ledgerVars, limits, grants, delegates, multisig, requests, drawn>>

withdraw(c, t, x) ==
  /\ require_feature_not_paused("Withdrawals")
  /\ x \in 1 .. books.balance[c][t]
  /\ check_and_update_withdrawal_limits(c, x)
  /\ Debited(c, t, x)
  /\ Pay(t, Jar, c, x)
  /\ KeepLedger
  /\ UNCHANGED <<limitDefault, grants, delegates, multisig, requests>>

\* The switch for withdrawals does not stop this one.
withdraw_amount(c, t, x) ==
  /\ require_not_paused
  /\ x \in MinWithdrawal .. books.balance[c][t]
  /\ check_and_update_withdrawal_limits(c, x)
  /\ Debited(c, t, x)
  /\ Pay(t, Jar, c, x)
  /\ KeepLedger
  /\ UNCHANGED <<limitDefault, grants, delegates, multisig, requests>>

\* Each operation is held against the balance the batch began with.
batch_withdraw(c, ops) ==
  /\ require_not_paused
  /\ \A i \in DOMAIN ops : ops[i].amount \in 1 .. books.balance[c][ops[i].token]
  /\ books' = InOrder(LAMBDA b, o : [b EXCEPT !.balance[c][o.token] = @ - o.amount], books, ops)
  /\ wallet' = InOrder(LAMBDA w, o : Transfer(w, o.token, Jar, c, o.amount), wallet, ops)
  /\ \A t \in Token : wallet'[t][Jar] >= 0
  /\ UNCHANGED <<adminVars, breaker, now, drift, payoutVars>>

\* The admin's way, also while the contract is paused.
emergency_withdraw(c, t) ==
  /\ books.balance[c][t] > 0
  /\ Debited(c, t, books.balance[c][t])
  /\ Pay(t, Jar, c, books.balance[c][t])
  /\ KeepLedger
  /\ UNCHANGED payoutVars

-----------------------------------------------------------------------------
delegate_withdrawal(c, d, g) ==
  /\ require_not_paused
  /\ grants' = [grants EXCEPT ![c][d] =
       [max |-> g[1], used |-> 0, expires_at |-> now + g[2], active |-> TRUE]]
  /\ delegates' = [delegates EXCEPT ![c] = @ \cup {d}]
  /\ UNCHANGED <<ledgerVars, limits, limitDefault, multisig, requests, drawn>>

\* A call after the expiry would deactivate the grant, but fails and so changes
\* nothing.
withdraw_as_delegate(d, c, t, x) ==
  LET g == grants[c][d]
      spent == g.used + x >= g.max
  IN  /\ require_not_paused
      /\ g # None
      /\ g.active
      /\ now <= g.expires_at
      /\ g.used + x <= g.max
      /\ x <= books.balance[c][t]
      /\ check_and_update_withdrawal_limits(c, x)
      /\ Debited(c, t, x)
      /\ grants' = [grants EXCEPT ![c][d] = [g EXCEPT !.used = @ + x, !.active = ~spent]]
      /\ delegates' = [delegates EXCEPT ![c] = IF spent THEN @ \ {d} ELSE @]
      /\ Pay(t, Jar, d, x)
      /\ KeepLedger
      /\ UNCHANGED <<limitDefault, multisig, requests>>

revoke_delegation(c, d) ==
  /\ require_not_paused
  /\ grants[c][d] # None
  /\ grants[c][d].active
  /\ grants' = [grants EXCEPT ![c][d].active = FALSE]
  /\ delegates' = [delegates EXCEPT ![c] = @ \ {d}]
  /\ UNCHANGED <<ledgerVars, limits, limitDefault, multisig, requests, drawn>>

-----------------------------------------------------------------------------
set_multisig_config(cfg) ==
  /\ cfg.required \in 1 .. Cardinality(cfg.signers)
  /\ multisig' = cfg
  /\ UNCHANGED <<ledgerVars, limits, limitDefault, grants, delegates, requests, drawn>>

\* A small amount is paid at once, and counts against the limit; a large one waits.
request_multisig_withdrawal(c, t, x) ==
  /\ require_not_paused
  /\ x <= books.balance[c][t]
  /\ multisig # None
  /\ \/ /\ multisig.threshold > 0 /\ x <= multisig.threshold
        /\ check_and_update_withdrawal_limits(c, x)
        /\ Debited(c, t, x)
        /\ Pay(t, Jar, c, x)
        /\ UNCHANGED requests
     \/ /\ multisig.threshold = 0 \/ x > multisig.threshold
        /\ requests' = Append(requests,
             [creator |-> c, token |-> t, amount |-> x, approvals |-> {},
              required |-> multisig.required, expires_at |-> now + multisig.expiry,
              executed |-> FALSE, cancelled |-> FALSE])
        /\ UNCHANGED <<wallet, books, limits, drawn>>
  /\ KeepLedger
  /\ UNCHANGED <<limitDefault, grants, delegates, multisig>>

\* The signature that completes a request pays it.
approve_withdrawal(p, i) ==
  LET r == requests[i]
      signed == r.approvals \cup {p}
  IN  /\ require_not_paused
      /\ multisig # None /\ p \in multisig.signers
      /\ ~r.executed /\ ~r.cancelled
      /\ now <= r.expires_at
      /\ p \notin r.approvals
      /\ IF Cardinality(signed) >= r.required
         THEN /\ books.balance[r.creator][r.token] >= r.amount
              /\ Debited(r.creator, r.token, r.amount)
              /\ Pay(r.token, Jar, r.creator, r.amount)
              /\ requests' = [requests EXCEPT ![i].executed = TRUE, ![i].approvals = signed]
         ELSE /\ requests' = [requests EXCEPT ![i].approvals = signed]
              /\ UNCHANGED <<wallet, books>>
      /\ KeepLedger
      /\ UNCHANGED <<limits, limitDefault, grants, delegates, multisig, drawn>>

cancel_multisig_withdrawal(p, i) ==
  /\ ~requests[i].executed /\ ~requests[i].cancelled
  /\ p \in {requests[i].creator, Admin}
  /\ requests' = [requests EXCEPT ![i].cancelled = TRUE]
  /\ UNCHANGED <<ledgerVars, limits, limitDefault, grants, delegates, multisig, drawn>>

-----------------------------------------------------------------------------
WithdrawOps == [token : Token, amount : Amounts]

LimitsNext ==
  \E c \in Party, t \in Token :
    \/ \E l \in Limits : set_withdrawal_limits(c, l) \/ set_default_withdrawal_limits(l)
    \/ \E x \in Amounts \cup {books.balance[c][t]} : withdraw(c, t, x)
    \/ \E x \in Amounts : withdraw_amount(c, t, x)
    \/ \E o \in WithdrawOps, q \in WithdrawOps : batch_withdraw(c, <<o, q>>)
    \/ emergency_withdraw(c, t)

DelegationNext ==
  \E c \in Party, d \in Party :
    \/ \E g \in Grants : delegate_withdrawal(c, d, g)
    \/ \E t \in Token, x \in Amounts : withdraw_as_delegate(d, c, t, x)
    \/ revoke_delegation(c, d)

MultisigNext ==
  \/ \E cfg \in Signatures : set_multisig_config(cfg)
  \/ \E c \in Party, t \in Token, x \in Amounts : request_multisig_withdrawal(c, t, x)
  \/ \E p \in Party, i \in DOMAIN requests :
       approve_withdrawal(p, i) \/ cancel_multisig_withdrawal(p, i)

-----------------------------------------------------------------------------
\* A new grant, its use, its revocation and its exhaustion keep the list of
\* delegates and the grants in step: the list holds exactly the delegates whose
\* grant is active, and an active grant has something left to spend.
DelegatesListed ==
  \A c \in Party :
    /\ delegates[c] = {d \in Party : grants[c][d] # None /\ grants[c][d].active}
    /\ \A d \in delegates[c] : grants[c][d].used < grants[c][d].max

\* A request is paid at most once, on as many signatures as were required when it
\* was made, and never after it was cancelled.
PaidOnSignatures ==
  \A i \in DOMAIN requests :
    requests[i].executed =>
      /\ Cardinality(requests[i].approvals) >= requests[i].required
      /\ ~requests[i].cancelled

\* What counts against the limit of a day is what the checked ways out paid
\* since that day began, whichever of them paid it and however the admin changed
\* the limit in between.
DayCounted ==
  \A c \in Party : limits[c] # None =>
    limits[c].today = SumFunction([n \in limits[c].day .. now |-> drawn[c][n]])
\* The inductive invariant behind them.  Nothing is drawn in the future, nor by a
\* creator without an entry, nor once the day of the entry is over.
Request ==
  [creator : Party, token : Token, amount : Int, approvals : SUBSET Party, required : Int,
   expires_at : Int, executed : BOOLEAN, cancelled : BOOLEAN]
PayoutsTypeOK ==
  /\ limits \in [Party -> {None} \cup Limit]
  /\ limitDefault \in {None} \cup Limit
  /\ grants \in [Party -> [Party -> {None} \cup Grant]]
  /\ delegates \in [Party -> SUBSET Party]
  /\ multisig \in {None} \cup MultiSigConfig
  /\ requests \in Seq(Request)
  /\ drawn \in [Party -> [0 .. MaxTime -> Int]]
NothingDrawn(c, from) == \A n \in 0 .. MaxTime : n >= from => drawn[c][n] = 0
DrawnInTime ==
  \A c \in Party :
    /\ NothingDrawn(c, now + 1)
    /\ limits[c] = None => NothingDrawn(c, 0)
    /\ limits[c] # None => limits[c].day <= now /\ NothingDrawn(c, limits[c].day + Day)
DefaultFresh == limitDefault # None => limitDefault.today = 0 /\ limitDefault.day = 0
PayoutsInv ==
  /\ PayoutsTypeOK
  /\ DelegatesListed
  /\ PaidOnSignatures
  /\ DrawnInTime /\ DefaultFresh /\ DayCounted
=============================================================================
