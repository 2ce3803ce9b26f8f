--------------------------- MODULE LegacyInsurance --------------------------
(***************************************************************************)
(* The insurance pools: contributions, premiums, claims and their review.  *)
(* An approval or a rejection writes the claim back as it read it, so that *)
(* a claim stays pending: none is ever paid, and the operations that pay   *)
(* (insurance_pay_claim and the "pay" of a batch) refuse or do nothing.    *)
(***************************************************************************)
EXTENDS LegacyLedger, SequencesExt

CONSTANTS
  Policies,       \* what the admin sets with insurance_set_config
  MaxPremiumBps,  \* 500
  MaxTipPremium,  \* 1000
  ClaimLimits     \* limits of active claims the admin sets

ASSUME InsuranceAssumption ==
  /\ Policies \subseteq [min : Int, max : Int, premium_bps : Nat, payout_bps : Nat,
                         tip_premium_bps : Nat]
  /\ MaxPremiumBps \in Nat /\ 10 * MaxPremiumBps <= Bps
  /\ MaxTipPremium \in Nat

VARIABLES
  pools,          \* per token: total_contributions, active_claims
  contributed,    \* InsuranceKey::Contrib
  activeClaims,   \* InsuranceKey::ActiveClms
  claims,         \* InsuranceKey::Claim
  claimLimit,     \* InsuranceKey::MaxClms
  reviewer        \* InsuranceKey::Admin

insuranceVars == <<pools, contributed, activeClaims, claims, claimLimit, reviewer>>

InsuranceInit ==
  /\ pools = PerToken([contributions |-> 0, active |-> 0])
  /\ contributed = PerParty(PerToken(0))
  /\ activeClaims = PerParty(PerToken(0))
  /\ claims = <<>>
  /\ claimLimit = 3
  /\ reviewer = Admin

insurance_set_config(c) ==
  /\ c.min >= 0 /\ c.max > c.min
  /\ c.premium_bps <= MaxPremiumBps
  /\ c.payout_bps <= Bps
  /\ c.tip_premium_bps <= MaxTipPremium
  /\ config' = [config EXCEPT !.insurance = c]
  /\ UNCHANGED <<wallet, books, paused, breaker, now, drift, insuranceVars>>

insurance_set_max_active_claims(n) ==
  /\ n # 0
  /\ claimLimit' = n
  /\ UNCHANGED <<ledgerVars, pools, contributed, activeClaims, claims, reviewer>>

insurance_set_admin(p) ==
  /\ reviewer' = p
  /\ UNCHANGED <<ledgerVars, pools, contributed, activeClaims, claims, claimLimit>>

Insured == config.insurance # None /\ config.ins_enabled

insurance_contribute(c, t, x) ==
  LET premium == (x * config.insurance.premium_bps) \div Bps
  IN  /\ require_not_paused
      /\ Insured
      /\ x \in config.insurance.min .. config.insurance.max
      /\ Whitelisted(t)
      /\ Pay(t, c, Jar, x)
      /\ books' = [books EXCEPT !.reserves[t] = @ + x - premium, !.fees[t] = @ + premium]
      /\ pools' = [pools EXCEPT ![t].contributions = @ + x]
      /\ contributed' = [contributed EXCEPT ![c][t] = @ + x]
      /\ UNCHANGED <<adminVars, breaker, now, drift, activeClaims, claims, claimLimit, reviewer>>

insurance_get_coverage(c, t) ==
  LET earned == (books.total[c][t] * config.insurance.tip_premium_bps) \div Bps
  IN  ((contributed[c][t] + earned) * config.insurance.payout_bps) \div Bps

insurance_submit_claim(c, t, x) ==
  /\ require_not_paused
  /\ Insured
  /\ activeClaims[c][t] < claimLimit
  /\ x <= insurance_get_coverage(c, t)
  /\ x <= books.reserves[t]
  /\ claims' = Append(claims, [creator |-> c, token |-> t, amount |-> x])
  /\ activeClaims' = [activeClaims EXCEPT ![c][t] = @ + 1]
  /\ pools' = [pools EXCEPT ![t].active = @ + 1]
  /\ UNCHANGED <<ledgerVars, contributed, claimLimit, reviewer>>

\* Approving claims counts each down once per approval; a counter at 0 refuses.
CountDown(ids) ==
  LET times(c, t) == Cardinality({k \in DOMAIN ids :
                       claims[ids[k]].creator = c /\ claims[ids[k]].token = t})
      all(t) == SumFunction([c \in Party |-> times(c, t)])
  IN  /\ \A c \in Party, t \in Token : activeClaims[c][t] >= times(c, t)
      /\ activeClaims' = [c \in Party |-> [t \in Token |-> activeClaims[c][t] - times(c, t)]]
      /\ pools' = [t \in Token |-> [pools[t] EXCEPT !.active = @ - all(t)]]

insurance_approve_claim(p, i) ==
  /\ p \in {Admin, reviewer}
  /\ CountDown(<<i>>)
  /\ UNCHANGED <<ledgerVars, contributed, claims, claimLimit, reviewer>>

\* A rejection of a claim that is not approved changes nothing at all.
insurance_reject_claim(p, i) ==
  /\ p \in {Admin, reviewer}
  /\ UNCHANGED <<ledgerVars, insuranceVars>>

insurance_process_claims_batch(ids) ==
  /\ CountDown(ids)
  /\ UNCHANGED <<ledgerVars, contributed, claims, claimLimit, reviewer>>

\* Mutant: the reserve that stays is compared before the withdrawal.
insurance_withdraw_excess_late(t, x) ==
  /\ books.reserves[t] >= Larger(x, pools[t].contributions \div 10)
  /\ books' = [books EXCEPT !.reserves[t] = @ - x]
  /\ Pay(t, Jar, Admin, x)
  /\ UNCHANGED <<adminVars, breaker, now, drift, insuranceVars>>

insurance_withdraw_excess(t, x) ==
  /\ books.reserves[t] - x >= pools[t].contributions \div 10
  /\ books' = [books EXCEPT !.reserves[t] = @ - x]
  /\ Pay(t, Jar, Admin, x)
  /\ UNCHANGED <<adminVars, breaker, now, drift, insuranceVars>>

InsuranceNext ==
  \/ \E c \in Policies : insurance_set_config(c)
  \/ \E n \in ClaimLimits : insurance_set_max_active_claims(n)
  \/ \E p \in Party :
       \/ insurance_set_admin(p)
       \/ \E i \in DOMAIN claims : insurance_approve_claim(p, i) \/ insurance_reject_claim(p, i)
  \/ \E ids \in (DOMAIN claims) \X (DOMAIN claims) : insurance_process_claims_batch(ids)
  \/ \E t \in Token, x \in Amounts :
       \/ insurance_withdraw_excess(t, x)
       \/ \E c \in Party : insurance_contribute(c, t, x) \/ insurance_submit_claim(c, t, x)

\* The two counts of active claims, the pool's and the creators', stay in step.
ClaimsCounted ==
  \A t \in Token : pools[t].active = SumFunction([c \in Party |-> activeClaims[c][t]])

\* Whatever premiums, claims and withdrawals do, a tenth of what was contributed
\* stays in the pool.
ReserveFloor == \A t \in Token : books.reserves[t] >= pools[t].contributions \div 10
InsuranceTypeOK ==
  /\ pools \in [Token -> [contributions : Nat, active : Int]]
  /\ contributed \in [Party -> [Token -> Int]]
  /\ activeClaims \in [Party -> [Token -> Int]]
  /\ claims \in Seq([creator : Party, token : Token, amount : Int])
InsuranceInv == InsuranceTypeOK /\ ClaimsCounted
=============================================================================
