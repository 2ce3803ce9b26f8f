---------------------------- MODULE LegacyAdmin -----------------------------
(***************************************************************************)
(* What only the admin of the legacy tip jar may do: the whitelist, the    *)
(* platform's fee, the smallest tip, the pause switches, the first circuit *)
(* breaker, the settings of credit and insurance, and taking the fees.     *)
(***************************************************************************)
EXTENDS LegacyLedger

CONSTANTS
  FeeRates,     \* rates the admin sets, in Bps
  MaxFeeBps,    \* MAX_PLATFORM_FEE_BPS
  MinTips,      \* smallest tips the admin sets
  Breakers,     \* CircuitBreakerConfigs the admin sets
  Terms         \* CreditConfigs the admin sets

BreakerConfig ==
  [max_single : Int, max_volume : Int, window : Int, cooldown : Int, enabled : BOOLEAN]
CreditConfig ==
  [ratio : Nat, rate : Nat, unit : Nat \ {0}, min_total : Int, share : Nat, enabled : BOOLEAN]
InsuranceConfig ==
  [min : Nat, max : Nat, premium_bps : Nat, payout_bps : Nat, tip_premium_bps : Nat]
Config ==
  [fee_bps : 0 .. MaxFeeBps, min_tip : Int, whitelist : SUBSET Token,
   breaker : {None} \cup BreakerConfig, credit : {None} \cup CreditConfig,
   insurance : {None} \cup InsuranceConfig, ins_enabled : BOOLEAN]

ASSUME AdminAssumption ==
  /\ MaxFeeBps \in Nat
  /\ FeeRates \subseteq Nat
  /\ MinTips \subseteq Int
  /\ Breakers \subseteq BreakerConfig
  /\ Terms \subseteq CreditConfig
  /\ Configs \subseteq Config
  /\ None \notin BreakerConfig \cup CreditConfig \cup InsuranceConfig

Set(field, v) ==
  /\ config' = [config EXCEPT ![field] = v]
  /\ UNCHANGED <<wallet, books, paused, breaker, now, drift>>

add_token(t) == Set("whitelist", config.whitelist \cup {t})
remove_token(t) == Set("whitelist", config.whitelist \ {t})
set_min_tip(x) == x > 0 /\ Set("min_tip", x)
set_fee_bps(r) == r <= MaxFeeBps /\ Set("fee_bps", r)
set_circuit_breaker_config(b) == Set("breaker", b)
set_credit_config(k) == Set("credit", k)
insurance_set_enabled(on) == Set("ins_enabled", on)

Switch(p) ==
  /\ paused' = p
  /\ UNCHANGED <<wallet, books, config, breaker, now, drift>>
pause == Switch([paused EXCEPT !.all = TRUE])
unpause == Switch([paused EXCEPT !.all = FALSE])
pause_feature(s) == Switch([paused EXCEPT !.features = @ \cup {s}])
unpause_feature(s) == Switch([paused EXCEPT !.features = @ \ {s}])

withdraw_fees(t) ==
  /\ books.fees[t] > 0
  /\ books' = [books EXCEPT !.fees[t] = 0]
  /\ Pay(t, Jar, Admin, books.fees[t])
  /\ UNCHANGED <<adminVars, breaker, now, drift>>

trigger_circuit_breaker ==
  /\ config.breaker # None
  /\ breaker' = [BreakerState EXCEPT !.halted_until = now + config.breaker.cooldown,
                                     !.trips = @ + 1]
  /\ UNCHANGED <<wallet, books, adminVars, now, drift>>

reset_circuit_breaker ==
  /\ breaker # None
  /\ breaker' = [breaker EXCEPT !.halted_until = 0, !.volume = 0, !.start = now]
  /\ UNCHANGED <<wallet, books, adminVars, now, drift>>

AdminNext ==
  \/ \E t \in Token : add_token(t) \/ remove_token(t) \/ withdraw_fees(t)
  \/ \E x \in MinTips : set_min_tip(x)
  \/ \E r \in FeeRates : set_fee_bps(r)
  \/ \E b \in Breakers : set_circuit_breaker_config(b)
  \/ \E k \in Terms : set_credit_config(k)
  \/ \E on \in BOOLEAN : insurance_set_enabled(on)
  \/ pause \/ unpause
  \/ \E s \in Scope : pause_feature(s) \/ unpause_feature(s)
  \/ trigger_circuit_breaker \/ reset_circuit_breaker

\* The volume the breaker lets through in a window stays within the larger of
\* the two limits in force: the first amount of a new window is held against the
\* limit of a single tip only.
VolumeCapped ==
  [][(breaker' # None /\ breaker'.volume > BreakerState.volume)
       => breaker'.volume <= Larger(config.breaker.max_volume, config.breaker.max_single)]_breaker

-----------------------------------------------------------------------------
\* Advances on tips: a creator borrows out of the platform's fees up to a
\* share of what it was tipped, and repays by hand or from later tips.

CONSTANTS
  Loans       \* amounts borrowed and repaid

ASSUME CreditAssumption == Loans \subseteq Nat

NoCredit ==
  [principal |-> 0, interest |-> 0, updated |-> now, borrowed |-> 0, repaid |-> 0, charged |-> 0]

get_credit_limit(c, t) == (books.total[c][t] * config.credit.ratio) \div Bps

borrow(c, t, x) ==
  LET a == accrue_interest(IF books.credit[c][t] = None THEN NoCredit ELSE books.credit[c][t])
  IN  /\ require_not_paused
      /\ CreditEnabled
      /\ x > 0
      /\ books.total[c][t] >= config.credit.min_total
      /\ a.principal + a.interest + x <= get_credit_limit(c, t)
      /\ books.fees[t] >= x
      /\ books' = [books EXCEPT !.fees[t] = @ - x, !.balance[c][t] = @ + x,
                                !.credit[c][t] = [a EXCEPT !.principal = @ + x,
                                                           !.borrowed = @ + x, !.updated = now]]
      /\ UNCHANGED <<wallet, adminVars, breaker, now, drift>>

\* Also while credit is disabled.
repay_credit(c, t, x) ==
  LET a == accrue_interest(books.credit[c][t])
      paid == Smaller(x, a.principal + a.interest)
  IN  /\ require_not_paused
      /\ books.credit[c][t] # None
      /\ books.balance[c][t] >= x
      /\ paid > 0
      /\ books' = [books EXCEPT !.fees[t] = @ + paid, !.balance[c][t] = @ - paid,
                                !.credit[c][t] = Settled(a, paid)]
      /\ UNCHANGED <<wallet, adminVars, breaker, now, drift>>

CreditNext ==
  \E c \in Party, t \in Token, x \in Loans : borrow(c, t, x) \/ repay_credit(c, t, x)

\* A debt is what was borrowed and charged less what was repaid, to the last unit: by
\* hand and by the share of a tip, in whatever order they come and whatever the terms
\* become in between, and neither part of it is ever overpaid.
DebtAccounted ==
  \A c \in Party, t \in Token :
    LET a == books.credit[c][t]
    IN  a # None =>
          /\ a.principal \in 0 .. a.borrowed
          /\ a.interest \in 0 .. a.charged
          /\ a.principal + a.interest + a.repaid = a.borrowed + a.charged

\* The inductive invariant behind DebtAccounted: no account was updated in the future,
\* and where there is a loan there are terms.
LoanSound(a) ==
  /\ a.principal \in 0 .. a.borrowed
  /\ a.interest \in 0 .. a.charged
  /\ a.updated <= now
  /\ a.principal + a.interest + a.repaid = a.borrowed + a.charged
  /\ config.credit # None
LoansSound ==
  \A c \in Party, t \in Token : books.credit[c][t] # None => LoanSound(books.credit[c][t])

-----------------------------------------------------------------------------
(***************************************************************************)
(* Who may tip whom: the blacklists and whitelists of the legacy tip jar,  *)
(* one pair for everybody, kept by the admin, and one pair per creator.    *)
(***************************************************************************)
CONSTANTS
  Everywhere,   \* ListScope::Global
  Keepers,      \* the creators that keep lists of their own
  BlockTimes    \* durations of a block; 0 is for good

ASSUME AccessAssumption == Keepers \subseteq Party /\ BlockTimes \subseteq Nat

VARIABLE lists

ListScopes == Keepers \cup {Everywhere}

\* blocked holds until when a subject is blocked; members is what get_blacklist
\* and get_whitelist return.
AccessInit ==
  lists = [s \in ListScopes |->
             [blocked |-> PerParty(None), members |-> {},
              white |-> {}, whiteMembers |-> {}, mode |-> FALSE]]

authorize_scope(caller, s) == caller = IF s = Everywhere THEN Admin ELSE s

add_to_blacklist(caller, s, p, duration) ==
  /\ authorize_scope(caller, s)
  /\ lists' = [lists EXCEPT ![s].blocked[p] = IF duration = 0 THEN 0 ELSE now + duration,
                            ![s].members = @ \cup {p}]
  /\ UNCHANGED ledgerVars

remove_from_blacklist(caller, s, p) ==
  /\ authorize_scope(caller, s)
  /\ lists[s].blocked[p] # None
  /\ lists' = [lists EXCEPT ![s].blocked[p] = None, ![s].members = @ \ {p}]
  /\ UNCHANGED ledgerVars

add_to_whitelist(caller, s, p) ==
  /\ authorize_scope(caller, s)
  /\ lists' = [lists EXCEPT ![s].white = @ \cup {p}, ![s].whiteMembers = @ \cup {p}]
  /\ UNCHANGED ledgerVars

remove_from_whitelist(caller, s, p) ==
  /\ authorize_scope(caller, s)
  /\ lists' = [lists EXCEPT ![s].white = @ \ {p}, ![s].whiteMembers = @ \ {p}]
  /\ UNCHANGED ledgerVars

set_whitelist_mode(caller, s, on) ==
  /\ authorize_scope(caller, s)
  /\ lists' = [lists EXCEPT ![s].mode = on]
  /\ UNCHANGED ledgerVars

\* A block with an expiry ends by itself; its entry stays.
is_blacklisted(s, p) ==
  LET until == lists[s].blocked[p] IN until # None /\ (until = 0 \/ now < until)
check_allowed(c, p) ==
  \A s \in {Everywhere, c} \cap ListScopes :
    /\ ~is_blacklisted(s, p)
    /\ lists[s].mode => p \in lists[s].white

AccessNext ==
  \E caller \in Party, s \in ListScopes, p \in Party :
    \/ \E d \in BlockTimes : add_to_blacklist(caller, s, p, d)
    \/ remove_from_blacklist(caller, s, p)
    \/ add_to_whitelist(caller, s, p)
    \/ remove_from_whitelist(caller, s, p)
    \/ \E on \in BOOLEAN : set_whitelist_mode(caller, s, on)

\* What the lists return is what the checks decide by: every subject with an
\* entry is a member and nobody else, whatever the order of the calls.
ListsAgree ==
  \A s \in ListScopes :
    /\ lists[s].members = {p \in Party : lists[s].blocked[p] # None}
    /\ lists[s].whiteMembers = lists[s].white
ListsTypeOK ==
  lists \in [ListScopes -> [blocked : [Party -> {None} \cup Int], members : SUBSET Party,
                            white : SUBSET Party, whiteMembers : SUBSET Party, mode : BOOLEAN]]

-----------------------------------------------------------------------------
\* The reputation score that a tip moves: it decays with time, grows with
\* what is tipped, and a streak of tips multiplies the tipper's gain.

CONSTANTS
  HalfLife,       \* HALF_LIFE_SECS
  StreakWindow,   \* STREAK_WINDOW_SECS
  MaxStreak,      \* MAX_STREAK_DAYS
  StreakBonus,    \* STREAK_BONUS_BPS_PER_DAY
  TipperUnit,     \* TIPPER_SCORE_PER_UNIT
  CreatorUnit     \* CREATOR_SCORE_PER_UNIT

VARIABLE rep      \* DataKey::ReputationScore

ReputationInit ==
  rep = PerParty([score |-> 0, updated |-> None, streak |-> 0, last_tip |-> 0])

\* Whole half lives halve the score; the rest decays it linearly.
apply_decay(score, elapsed) ==
  LET halved == score \div 2^(elapsed \div HalfLife)
  IN  halved - (halved * (elapsed % HalfLife)) \div (2 * HalfLife)

streak_bonus_bps(days) == Bps + Smaller(days, MaxStreak) * StreakBonus

update_streak(r) ==
  [r EXCEPT !.streak = IF r.last_tip # 0 /\ now - r.last_tip <= StreakWindow
                       THEN Smaller(@ + 1, MaxStreak) ELSE 1,
            !.last_tip = now]

Decayed(r) ==
  [r EXCEPT !.score = IF r.updated = None THEN @ ELSE apply_decay(@, now - r.updated),
            !.updated = now]

record_tip_sent(rs, p, x) ==
  LET r == update_streak(Decayed(rs[p]))
  IN  [rs EXCEPT ![p] = [r EXCEPT !.score =
         @ + ((x \div TipperUnit) * streak_bonus_bps(r.streak)) \div Bps]]

record_tip_received(rs, p, x) ==
  LET r == Decayed(rs[p])
  IN  [rs EXCEPT ![p] = [r EXCEPT !.score = r.score + x \div CreatorUnit]]

\* What a tip does to the two scores: the sender's first.
Scored(s, c, sent, received) ==
  rep' = record_tip_received(record_tip_sent(rep, s, sent), c, received)
=============================================================================
