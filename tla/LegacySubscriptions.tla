------------------------- MODULE LegacySubscriptions ------------------------
(***************************************************************************)
(* Recurring tips: a subscription per subscriber and creator, whose due    *)
(* payment anyone may pull, at a price of its own or of a tier.            *)
(***************************************************************************)
EXTENDS LegacyLedger

CONSTANTS
  Tier,         \* SubscriptionTier without None
  FirstTier,    \* the tier of a plain subscription: Bronze
  TierPrices,   \* prices the admin sets
  Intervals,    \* seconds between payments
  MinInterval   \* MIN_INTERVAL: a day

ASSUME SubscriptionsAssumption ==
  /\ FirstTier \in Tier /\ None \notin Tier
  /\ TierPrices \subseteq Nat
  /\ Intervals \subseteq Nat

VARIABLES
  tiers,        \* DataKey::TierConfig: the price of each tier
  subs          \* DataKey::Subscription; history: granted, when the subscriber last
                \* allowed a payment at once, and pulls, the payments others pulled

subVars == <<tiers, subs>>

SubscriptionsInit ==
  /\ tiers = [k \in Tier |-> None]
  /\ subs = [s \in Party |-> [c \in Party |-> None]]

set_tier_config(k, price) ==
  /\ price > 0
  /\ tiers' = [tiers EXCEPT ![k] = price]
  /\ UNCHANGED <<ledgerVars, subs>>

NewSubscription(t, x, n, k) ==
  [token |-> t, amount |-> x, interval |-> n, last |-> 0, next |-> now, status |-> "Active",
   tier |-> k, pending |-> None, granted |-> now, pulls |-> 0]

\* Whatever there was between the two is replaced.
create_subscription(s, c, t, x, n) ==
  /\ require_feature_not_paused("Subscriptions")
  /\ check_circuit_breaker(x)
  /\ n >= MinInterval
  /\ subs' = [subs EXCEPT ![s][c] = NewSubscription(t, x, n, FirstTier)]
  /\ UNCHANGED <<wallet, books, adminVars, now, drift, tiers>>

create_tiered_subscription(s, c, t, k, n) ==
  /\ require_not_paused
  /\ tiers[k] # None
  /\ check_circuit_breaker(tiers[k])
  /\ n >= MinInterval
  /\ subs' = [subs EXCEPT ![s][c] = NewSubscription(t, tiers[k], n, k)]
  /\ UNCHANGED <<wallet, books, adminVars, now, drift, tiers>>

Subscribed(s, c, status) == subs[s][c] # None /\ subs[s][c].status \in status

\* A payment of a subscription: no fee and no premium.
PaySubscription(s, c, m) ==
  /\ books' = CreditTo(books, c, m.token, m.amount, m.amount, 0, 0)
  /\ Pay(m.token, s, Jar, m.amount)

upgrade_subscription(s, c, k) ==
  /\ require_not_paused
  /\ Subscribed(s, c, {"Active"})
  /\ tiers[k] # None
  /\ check_circuit_breaker(tiers[k])
  /\ subs' = [subs EXCEPT ![s][c] = [@ EXCEPT !.tier = k, !.amount = tiers[k], !.last = now,
                                              !.next = now + subs[s][c].interval,
                                              !.pending = None]]
  /\ PaySubscription(s, c, subs'[s][c])
  /\ UNCHANGED <<adminVars, now, drift, tiers>>

downgrade_subscription(s, c, k) ==
  /\ require_not_paused
  /\ Subscribed(s, c, {"Active"})
  /\ tiers[k] # None
  /\ subs' = [subs EXCEPT ![s][c].pending = k]
  /\ UNCHANGED <<ledgerVars, tiers>>

\* A pending tier is charged at its price of now, though the breaker saw the old one.
Repriced(m) ==
  IF m.pending = None THEN m
  ELSE [m EXCEPT !.tier = m.pending, !.amount = tiers[m.pending], !.pending = None]

\* Anyone's call.
execute_subscription_payment(s, c) ==
  /\ require_not_paused
  /\ Subscribed(s, c, {"Active"})
  /\ now >= subs[s][c].next
  /\ check_circuit_breaker(subs[s][c].amount)
  /\ LET m == Repriced(subs[s][c])
     IN  subs' = [subs EXCEPT ![s][c] = [m EXCEPT !.last = now, !.pulls = m.pulls + 1,
                                                  !.next = now + m.interval]]
  /\ PaySubscription(s, c, subs'[s][c])
  /\ UNCHANGED <<adminVars, now, drift, tiers>>

pause_subscription(s, c) ==
  /\ require_not_paused
  /\ Subscribed(s, c, {"Active"})
  /\ subs' = [subs EXCEPT ![s][c].status = "Paused"]
  /\ UNCHANGED <<ledgerVars, tiers>>

\* The next payment is due at once, however recent the last one is.
resume_subscription(s, c) ==
  /\ require_not_paused
  /\ Subscribed(s, c, {"Paused"})
  /\ subs' = [subs EXCEPT ![s][c] = [@ EXCEPT !.status = "Active", !.next = now, !.granted = now]]
  /\ UNCHANGED <<ledgerVars, tiers>>

cancel_subscription(s, c) ==
  /\ require_not_paused
  /\ subs[s][c] # None
  /\ subs' = [subs EXCEPT ![s][c].status = "Cancelled"]
  /\ UNCHANGED <<ledgerVars, tiers>>

SubscriptionsNext ==
  \/ \E k \in Tier, x \in TierPrices : set_tier_config(k, x)
  \/ \E s, c \in Party :
       \/ \E t \in Token, n \in Intervals :
            \/ \E x \in Amounts : create_subscription(s, c, t, x, n)
            \/ \E k \in Tier : create_tiered_subscription(s, c, t, k, n)
       \/ \E k \in Tier : upgrade_subscription(s, c, k) \/ downgrade_subscription(s, c, k)
       \/ execute_subscription_payment(s, c)
       \/ pause_subscription(s, c) \/ resume_subscription(s, c) \/ cancel_subscription(s, c)

\* Nobody can pull the payments of a subscription faster than its subscriber
\* allowed: less than an interval after the last payment only when the
\* subscriber subscribed, upgraded or resumed since.
PullsSpaced ==
  [][\A s, c \in Party :
       (subs[s][c] # None /\ subs'[s][c].pulls > subs[s][c].pulls)
       => \/ now >= subs[s][c].last + subs[s][c].interval
          \/ subs[s][c].granted >= subs[s][c].last]_subs
\* The inductive invariant behind PullsSpaced: the next payment is due an interval
\* after the last one, or the subscriber allowed an earlier one since.
Subscription ==
  [token : Token, amount : Nat, interval : Nat, last : Nat, next : Nat,
   status : {"Active", "Paused", "Cancelled"}, tier : Tier, pending : {None} \cup Tier,
   granted : Nat, pulls : Nat]
SubscriptionsTypeOK ==
  /\ tiers \in [Tier -> {None} \cup Nat]
  /\ subs \in [Party -> [Party -> {None} \cup Subscription]]
SubscriptionSound(m) ==
  /\ m.last <= now
  /\ m.next >= m.last + m.interval \/ m.granted >= m.last
  /\ m.pending # None => tiers[m.pending] # None
SubscriptionsInv ==
  /\ SubscriptionsTypeOK
  /\ \A s, c \in Party : subs[s][c] # None => SubscriptionSound(subs[s][c])
=============================================================================
