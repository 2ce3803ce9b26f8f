------------------------- MODULE LegacyFundsProofs --------------------------
(***************************************************************************)
(* Proofs about the legacy tip jar: what its registers agree on, what it   *)
(* pays and how fast, for every set of parties and tokens and every value  *)
(* of the bounds.  The invariant of each feature is shown for the calls of *)
(* that feature, from the facts about the ledger that every call keeps.    *)
(***************************************************************************)
EXTENDS LegacyFunds, SumTheorems

-----------------------------------------------------------------------------
\* The groups of calls and what each leaves alone.
TipStep == TipsNext \/ Fund \/ \E c \in Party, g \in Goals : create_milestone(c, g)
PayoutStep == LimitsNext \/ DelegationNext \/ MultisigNext
LockStep == VestingNext \/ TimeLockNext \/ StreamNext \/ PuzzleNext
featureVars == <<payoutVars, lockVars, auctions, subVars, insuranceVars>>

\* A call of a behaviour is a call of one of the groups, or time passes; the state of
\* the other groups stays.
LEMMA StepGroups ==
  ASSUME Next
  PROVE  \/ AccessNext /\ UNCHANGED <<ledgerVars, rep, milestones, private, approved, featureVars>>
         \/ Tick /\ UNCHANGED <<tipVars, featureVars>>
         \/ TipStep /\ UNCHANGED featureVars
         \/ (AdminNext \/ CreditNext) /\ UNCHANGED <<tipVars, featureVars>>
         \/ PayoutStep /\ UNCHANGED <<tipVars, lockVars, auctions, subVars, insuranceVars>>
         \/ LockStep /\ UNCHANGED <<tipVars, payoutVars, auctions, subVars, insuranceVars>>
         \/ AuctionsNext /\ UNCHANGED <<payoutVars, lockVars, subVars, insuranceVars>>
         \/ SubscriptionsNext /\ UNCHANGED <<tipVars, payoutVars, lockVars, auctions, insuranceVars>>
         \/ InsuranceNext /\ UNCHANGED <<tipVars, payoutVars, lockVars, auctions, subVars>>
<1> USE DEF featureVars
<1>1. CASE Access /\ UNCHANGED featureVars
  <2>1. AccessNext => UNCHANGED ledgerVars
    <3>1. ASSUME NEW caller, NEW s, NEW p, NEW d
          PROVE  (add_to_blacklist(caller, s, p, d) \/ remove_from_blacklist(caller, s, p)
                  \/ add_to_whitelist(caller, s, p) \/ remove_from_whitelist(caller, s, p)
                  \/ set_whitelist_mode(caller, s, d)) => UNCHANGED ledgerVars
      BY DEF add_to_blacklist, remove_from_blacklist, add_to_whitelist,
             remove_from_whitelist, set_whitelist_mode
    <3> QED
      BY <3>1, Zenon DEF AccessNext
  <2>2. (\E s \in Party, x \in Amounts, t \in Token : \E c \in Keepers : tip(s, c, t, x)) => TipsNext
    BY AccessAssumption DEF TipsNext, OneTipNext
  <2> QED
    BY <1>1, <2>1, <2>2 DEF Access, TipStep
<1>2. CASE (Tips \/ Administration \/ Funding \/ Ageing \/ Crediting) /\ UNCHANGED featureVars
  <2>1. (\E s \in Party, c \in Party, t \in Token, x \in Amounts : tip(s, c, t, x)) => TipsNext
    BY DEF TipsNext, OneTipNext
  <2>2. (\E k \in Terms : set_credit_config(k)) => AdminNext
    BY Zenon DEF AdminNext
  <2> QED
    BY <1>2, <2>1, <2>2 DEF Tips, Administration, Funding, Ageing, Crediting, Borrowing, TipStep
<1>3. CASE Payouts /\ UNCHANGED <<tipVars, lockVars, auctions, subVars, insuranceVars>>
  BY <1>3 DEF Payouts, PayoutStep
<1>4. CASE Locks /\ UNCHANGED <<tipVars, payoutVars, auctions, subVars, insuranceVars>>
  BY <1>4 DEF Locks, LockStep
<1>5. CASE Auctioning /\ UNCHANGED <<payoutVars, lockVars, subVars, insuranceVars>>
  BY <1>5 DEF Auctioning, TipStep
<1> QED
  BY <1>1, <1>2, <1>3, <1>4, <1>5 DEF Next

\* What the calls of each group leave alone of the ledger.
LEMMA TipsKeep ==
  ASSUME TipStep
  PROVE  UNCHANGED <<adminVars, now, lists>>
<1> USE DEF ledgerVars, tipVars, adminVars
<1>1. \A c, x : create_milestone(c, x) => UNCHANGED <<adminVars, now, lists>>
  BY DEF create_milestone
<1>2. \A x : set_offchain_condition(x) => UNCHANGED <<adminVars, now, lists>>
  BY DEF set_offchain_condition
<1>3. \A s, c, t, x : tip(s, c, t, x) => UNCHANGED <<adminVars, now, lists>>
  BY DEF tip
<1>4. \A s, c, t, x : tip_with_message(s, c, t, x) => UNCHANGED <<adminVars, now, lists>>
  BY DEF tip_with_message
<1>5. \A c, t, x : tip_private(c, t, x) => UNCHANGED <<adminVars, now, lists>>
  BY DEF tip_private
<1>6. \A s, t, y, x : reveal_tip(s, t, y, x) => UNCHANGED <<adminVars, now, lists>>
  BY DEF reveal_tip
<1>7. \A s, c, t, x, y : tip_with_fee(s, c, t, x, y) => UNCHANGED <<adminVars, now, lists>>
  BY DEF tip_with_fee
<1>8. \A s, c, d, t, x, y : tip_split(s, c, d, t, x, y) => UNCHANGED <<adminVars, now, lists>>
  BY DEF tip_split
<1>9. \A s, c, t, x, y : execute_conditional_tip(s, c, t, x, y) => UNCHANGED <<adminVars, now, lists>>
  BY DEF execute_conditional_tip
<1>10. \A s, t, x : batch_tip(s, t, x) => UNCHANGED <<adminVars, now, lists>>
  BY DEF batch_tip, InOrder, PaidIn
<1>11. \A s, x : batch_tip_v2(s, x) => UNCHANGED <<adminVars, now, lists>>
  BY DEF batch_tip_v2, InOrder, PaidIn
<1>12. \A s, x : batch_tip_multi(s, x) => UNCHANGED <<adminVars, now, lists>>
  BY DEF batch_tip_multi, InOrder, PaidIn
<1>13. TipsNext => UNCHANGED <<adminVars, now, lists>>
  <2>1. ASSUME NEW s, NEW c, NEW t, NEW x, OneTipNext(s, c, t, x)
        PROVE  UNCHANGED <<adminVars, now, lists>>
    <3> HIDE DEF ledgerVars, tipVars, adminVars
    <3>1. CASE tip(s, c, t, x) \/ tip_with_message(s, c, t, x) \/ tip_private(c, t, x)
      BY <1>3, <1>4, <1>5, <3>1, Zenon
    <3>2. CASE \/ \E level \in DOMAIN Congestion : tip_with_fee(s, c, t, x, level)
               \/ \E d \in Party, share \in Shares : tip_split(s, c, d, t, x, share)
      BY <1>7, <1>8, <3>2, Zenon
    <3>3. CASE \/ \E cs \in SUBSET Conditions : execute_conditional_tip(s, c, t, x, cs)
               \/ \E i \in DOMAIN private : reveal_tip(s, t, i, x)
      BY <1>6, <1>9, <3>3, Zenon
    <3> QED
      BY <2>1, <3>1, <3>2, <3>3, Zenon DEF OneTipNext
  <2>2. \A s, t, ops : BatchNext(s, t, ops) => UNCHANGED <<adminVars, now, lists>>
    BY <1>10, <1>11, <1>12, Zenon DEF BatchNext
  <2> QED
    BY <1>1, <1>2, <2>1, <2>2, Zenon DEF TipsNext
<1>14. Fund => UNCHANGED <<adminVars, now, lists>>
  BY <1>11 DEF Fund
<1> QED
  BY <1>1, <1>13, <1>14, Zenon DEF TipStep

LEMMA PayoutsKeep ==
  ASSUME PayoutStep
  PROVE  UNCHANGED <<adminVars, breaker, now, drift>>
<1> USE DEF ledgerVars, KeepLedger, adminVars
<1>1. \A c, x : set_withdrawal_limits(c, x) => UNCHANGED <<adminVars, breaker, now, drift>>
  BY DEF set_withdrawal_limits
<1>2. \A x : set_default_withdrawal_limits(x) => UNCHANGED <<adminVars, breaker, now, drift>>
  BY DEF set_default_withdrawal_limits
<1>3. \A c, t, x : withdraw(c, t, x) => UNCHANGED <<adminVars, breaker, now, drift>>
  BY DEF withdraw
<1>4. \A c, t, x : withdraw_amount(c, t, x) => UNCHANGED <<adminVars, breaker, now, drift>>
  BY DEF withdraw_amount
<1>5. \A c, x : batch_withdraw(c, x) => UNCHANGED <<adminVars, breaker, now, drift>>
  BY DEF batch_withdraw, InOrder, PaidIn
<1>6. \A c, t : emergency_withdraw(c, t) => UNCHANGED <<adminVars, breaker, now, drift>>
  BY DEF emergency_withdraw
<1>7. \A c, d, x : delegate_withdrawal(c, d, x) => UNCHANGED <<adminVars, breaker, now, drift>>
  BY DEF delegate_withdrawal
<1>8. \A d, c, t, x : withdraw_as_delegate(d, c, t, x) => UNCHANGED <<adminVars, breaker, now, drift>>
  BY DEF withdraw_as_delegate
<1>9. \A c, d : revoke_delegation(c, d) => UNCHANGED <<adminVars, breaker, now, drift>>
  BY DEF revoke_delegation
<1>10. \A x : set_multisig_config(x) => UNCHANGED <<adminVars, breaker, now, drift>>
  BY DEF set_multisig_config
<1>11. \A c, t, x : request_multisig_withdrawal(c, t, x) => UNCHANGED <<adminVars, breaker, now, drift>>
  BY DEF request_multisig_withdrawal
<1>12. \A c, x : approve_withdrawal(c, x) => UNCHANGED <<adminVars, breaker, now, drift>>
  BY DEF approve_withdrawal
<1>13. \A c, x : cancel_multisig_withdrawal(c, x) => UNCHANGED <<adminVars, breaker, now, drift>>
  BY DEF cancel_multisig_withdrawal
<1> QED
  BY <1>1, <1>2, <1>3, <1>4, <1>5, <1>6, <1>7, <1>8, <1>9, <1>10, <1>11, <1>12, <1>13, Zenon
  DEF PayoutStep, LimitsNext, DelegationNext, MultisigNext

LEMMA LocksKeep ==
  ASSUME LockStep
  PROVE  UNCHANGED <<adminVars, now>>
<1> USE DEF ledgerVars, adminVars
<1>1. \A s, c, t, x, y, z : create_vesting_schedule(s, c, t, x, y, z) => UNCHANGED <<adminVars, now>>
  BY DEF create_vesting_schedule
<1>2. \A c, x : withdraw_vested(c, x) => UNCHANGED <<adminVars, now>>
  BY DEF withdraw_vested
<1>3. process_expired_tips => UNCHANGED <<adminVars, now>>
  BY DEF process_expired_tips
<1>4. \A x : set_refund_window(x) => UNCHANGED <<adminVars, now>>
  BY DEF set_refund_window
<1>5. \A s, c, t, x, y : tip_time_locked(s, c, t, x, y) => UNCHANGED <<adminVars, now>>
  BY DEF tip_time_locked
<1>6. \A s, t, x : withdraw_time_locked(s, t, x) => UNCHANGED <<adminVars, now>>
  BY DEF withdraw_time_locked
<1>7. \A s, t, x : cancel_time_lock(s, t, x) => UNCHANGED <<adminVars, now>>
  BY DEF cancel_time_lock
<1>8. \A s, c, t, x, y : create_stream(s, c, t, x, y) => UNCHANGED <<adminVars, now>>
  BY DEF create_stream
<1>9. \A s, x : start_stream(s, x) => UNCHANGED <<adminVars, now>>
  BY DEF start_stream
<1>10. \A s, x : stop_stream(s, x) => UNCHANGED <<adminVars, now>>
  BY DEF stop_stream
<1>11. \A s, x : withdraw_streamed(s, x) => UNCHANGED <<adminVars, now>>
  BY DEF withdraw_streamed
<1>12. \A s, x : cancel_stream(s, x) => UNCHANGED <<adminVars, now>>
  BY DEF cancel_stream
<1>13. \A s, c, t, x, y : create_time_lock_puzzle(s, c, t, x, y) => UNCHANGED <<adminVars, now>>
  BY DEF create_time_lock_puzzle
<1>14. \A x, y : solve_time_lock_puzzle(x, y) => UNCHANGED <<adminVars, now>>
  BY DEF solve_time_lock_puzzle
<1>15. \A s, x : cancel_time_lock_puzzle(s, x) => UNCHANGED <<adminVars, now>>
  BY DEF cancel_time_lock_puzzle
<1> QED
  BY <1>1, <1>2, <1>3, <1>4, <1>5, <1>6, <1>7, <1>8, <1>9, <1>10, <1>11, <1>12, <1>13, <1>14, <1>15, Zenon
  DEF LockStep, VestingNext, TimeLockNext, StreamNext, PuzzleNext

LEMMA AuctionsKeep ==
  ASSUME AuctionsNext
  PROVE  UNCHANGED <<adminVars, now, lists>>
<1> USE DEF ledgerVars, tipVars, adminVars
<1>1. \A c, t, x, y : create_auction(c, t, x, y) => UNCHANGED <<adminVars, now, lists>>
  BY DEF create_auction
<1>2. \A c, x, y : place_bid(c, x, y) => UNCHANGED <<adminVars, now, lists>>
  BY DEF place_bid
<1>3. \A c, x : settle_auction(c, x) => UNCHANGED <<adminVars, now, lists>>
  BY DEF settle_auction
<1> QED
  BY <1>1, <1>2, <1>3, Zenon
  DEF AuctionsNext

LEMMA SubscriptionsKeep ==
  ASSUME SubscriptionsNext
  PROVE  UNCHANGED <<adminVars, now, drift>>
<1> USE DEF ledgerVars, adminVars
<1>1. \A x, y : set_tier_config(x, y) => UNCHANGED <<adminVars, now, drift>>
  BY DEF set_tier_config
<1>2. \A s, c, t, x, y : create_subscription(s, c, t, x, y) => UNCHANGED <<adminVars, now, drift>>
  BY DEF create_subscription
<1>3. \A s, c, t, x, y : create_tiered_subscription(s, c, t, x, y) => UNCHANGED <<adminVars, now, drift>>
  BY DEF create_tiered_subscription
<1>4. \A s, c, x : upgrade_subscription(s, c, x) => UNCHANGED <<adminVars, now, drift>>
  BY DEF upgrade_subscription
<1>5. \A s, c, x : downgrade_subscription(s, c, x) => UNCHANGED <<adminVars, now, drift>>
  BY DEF downgrade_subscription
<1>6. \A s, c : execute_subscription_payment(s, c) => UNCHANGED <<adminVars, now, drift>>
  BY DEF execute_subscription_payment
<1>7. \A s, c : pause_subscription(s, c) => UNCHANGED <<adminVars, now, drift>>
  BY DEF pause_subscription
<1>8. \A s, c : resume_subscription(s, c) => UNCHANGED <<adminVars, now, drift>>
  BY DEF resume_subscription
<1>9. \A s, c : cancel_subscription(s, c) => UNCHANGED <<adminVars, now, drift>>
  BY DEF cancel_subscription
<1> QED
  BY <1>1, <1>2, <1>3, <1>4, <1>5, <1>6, <1>7, <1>8, <1>9, Zenon
  DEF SubscriptionsNext

LEMMA InsuranceKeeps ==
  ASSUME InsuranceNext
  PROVE  UNCHANGED <<paused, breaker, now, drift>>
<1> USE DEF ledgerVars, adminVars
<1>1. \A x : insurance_set_config(x) => UNCHANGED <<paused, breaker, now, drift>>
  BY DEF insurance_set_config
<1>2. \A x : insurance_set_max_active_claims(x) => UNCHANGED <<paused, breaker, now, drift>>
  BY DEF insurance_set_max_active_claims
<1>3. \A x : insurance_set_admin(x) => UNCHANGED <<paused, breaker, now, drift>>
  BY DEF insurance_set_admin
<1>4. \A c, x : insurance_approve_claim(c, x) => UNCHANGED <<paused, breaker, now, drift>>
  BY DEF insurance_approve_claim
<1>5. \A c, x : insurance_reject_claim(c, x) => UNCHANGED <<paused, breaker, now, drift>>
  BY DEF insurance_reject_claim
<1>6. \A x : insurance_process_claims_batch(x) => UNCHANGED <<paused, breaker, now, drift>>
  BY DEF insurance_process_claims_batch
<1>7. \A t, x : insurance_withdraw_excess(t, x) => UNCHANGED <<paused, breaker, now, drift>>
  BY DEF insurance_withdraw_excess
<1>8. \A c, t, x : insurance_contribute(c, t, x) => UNCHANGED <<paused, breaker, now, drift>>
  BY DEF insurance_contribute
<1>9. \A c, t, x : insurance_submit_claim(c, t, x) => UNCHANGED <<paused, breaker, now, drift>>
  BY DEF insurance_submit_claim
<1> QED
  BY <1>1, <1>2, <1>3, <1>4, <1>5, <1>6, <1>7, <1>8, <1>9, Zenon
  DEF InsuranceNext

LEMMA AdminKeeps ==
  ASSUME AdminNext \/ CreditNext
  PROVE  now' = now
<1> USE DEF ledgerVars, adminVars, Set, Switch
<1>1. \A t : add_token(t) => now' = now
  BY DEF add_token
<1>2. \A t : remove_token(t) => now' = now
  BY DEF remove_token
<1>3. \A x : set_min_tip(x) => now' = now
  BY DEF set_min_tip
<1>4. \A x : set_fee_bps(x) => now' = now
  BY DEF set_fee_bps
<1>5. \A x : set_circuit_breaker_config(x) => now' = now
  BY DEF set_circuit_breaker_config
<1>6. \A x : set_credit_config(x) => now' = now
  BY DEF set_credit_config
<1>7. \A x : insurance_set_enabled(x) => now' = now
  BY DEF insurance_set_enabled
<1>8. pause => now' = now
  BY DEF pause
<1>9. unpause => now' = now
  BY DEF unpause
<1>10. \A x : pause_feature(x) => now' = now
  BY DEF pause_feature
<1>11. \A x : unpause_feature(x) => now' = now
  BY DEF unpause_feature
<1>12. \A t : withdraw_fees(t) => now' = now
  BY DEF withdraw_fees
<1>13. trigger_circuit_breaker => now' = now
  BY DEF trigger_circuit_breaker
<1>14. reset_circuit_breaker => now' = now
  BY DEF reset_circuit_breaker
<1>15. \A c, t, x : borrow(c, t, x) => now' = now
  BY DEF borrow
<1>16. \A c, t, x : repay_credit(c, t, x) => now' = now
  BY DEF repay_credit
<1> QED
  BY <1>1, <1>2, <1>3, <1>4, <1>5, <1>6, <1>7, <1>8, <1>9, <1>10, <1>11, <1>12, <1>13, <1>14, <1>15, <1>16, Zenon
  DEF AdminNext, CreditNext

\* What is proved of all features together holds of a behaviour that keeps to one group,
\* which is what TLC explores.
LEMMA OneGroupIsCovered == Spec => JarSpec
<1>1. [Next]_vars => [Next]_jarVars
  BY DEF vars
<1> QED
  BY <1>1, PTL DEF Spec, JarSpec

\* Time never goes back, and passes only between calls.
LEMMA TimeStep ==
  ASSUME now \in 1 .. MaxTime, [Next]_jarVars
  PROVE  now' \in 1 .. MaxTime /\ (now' = now \/ now' = now + 1)
<1>1. CASE UNCHANGED jarVars
  BY <1>1 DEF jarVars, ledgerVars
<1>2. Tick => now' \in 1 .. MaxTime /\ now' = now + 1
  BY LedgerAssumption DEF Tick
<1>3. CASE Next
  <2>1. Tick \/ now' = now
    BY <1>3, StepGroups, TipsKeep, AdminKeeps, PayoutsKeep, LocksKeep, AuctionsKeep,
       SubscriptionsKeep, InsuranceKeeps, Zenon DEF ledgerVars
  <2> QED
    BY <2>1, <1>2
<1> QED
  BY <1>1, <1>3

-----------------------------------------------------------------------------
\* The lists of who may tip whom: only the calls about the lists change them.
LEMMA ListsStart ==
  ASSUME Init
  PROVE  ListsTypeOK /\ ListsAgree
BY DEF Init, TipsInit, AccessInit, ListsTypeOK, ListsAgree, PerParty

LEMMA ListsStep ==
  ASSUME ListsTypeOK, ListsAgree, now \in 1 .. MaxTime, [Next]_jarVars
  PROVE  ListsTypeOK' /\ ListsAgree'
<1>1. CASE UNCHANGED lists
  BY <1>1 DEF ListsTypeOK, ListsAgree
<1>2. CASE AccessNext
  <2>1. PICK caller \in Party, s \in ListScopes, p \in Party :
          \/ \E d \in BlockTimes : add_to_blacklist(caller, s, p, d)
          \/ remove_from_blacklist(caller, s, p)
          \/ add_to_whitelist(caller, s, p)
          \/ remove_from_whitelist(caller, s, p)
          \/ \E on \in BOOLEAN : set_whitelist_mode(caller, s, on)
    BY <1>2 DEF AccessNext
  <2> DEFINE Entry == [blocked : [Party -> {None} \cup Int], members : SUBSET Party,
                       white : SUBSET Party, whiteMembers : SUBSET Party, mode : BOOLEAN]
             Agree(e) == /\ e.members = {q \in Party : e.blocked[q] # None}
                         /\ e.whiteMembers = e.white
             l == lists[s]
  <2>2. lists \in [ListScopes -> Entry] /\ \A r \in ListScopes : Agree(lists[r])
    BY DEF ListsTypeOK, ListsAgree
  <2>3. l \in Entry /\ Agree(l)
    BY <2>2
  <2>4. ASSUME NEW e \in Entry, Agree(e), lists' = [lists EXCEPT ![s] = e]
        PROVE  ListsTypeOK' /\ ListsAgree'
    <3> HIDE DEF Entry, Agree
    <3>1. lists' \in [ListScopes -> Entry] /\ \A r \in ListScopes : Agree(lists'[r])
      BY <2>2, <2>4
    <3> QED
      BY <3>1 DEF ListsTypeOK, ListsAgree, Entry, Agree
  <2>5. ASSUME NEW d \in BlockTimes, add_to_blacklist(caller, s, p, d)
        PROVE  ListsTypeOK' /\ ListsAgree'
    <3> DEFINE v == IF d = 0 THEN 0 ELSE now + d
               b == [l.blocked EXCEPT ![p] = v]
               e == [l EXCEPT !.blocked = b, !.members = @ \cup {p}]
    <3>1. v \in Int /\ v # None
      BY AccessAssumption, LedgerAssumption
    <3>2. lists' = [lists EXCEPT ![s] = e]
      BY <2>2, <2>5 DEF add_to_blacklist
    <3> HIDE DEF v
    <3>3. b \in [Party -> {None} \cup Int] /\ l.members \cup {p} = {q \in Party : b[q] # None}
      BY <2>3, <3>1
    <3> HIDE DEF b
    <3>4. /\ e \in Entry
          /\ e.blocked = b /\ e.members = l.members \cup {p}
          /\ e.white = l.white /\ e.whiteMembers = l.whiteMembers
      <4>1. l \in Entry /\ b \in [Party -> {None} \cup Int] /\ l.members \cup {p} \in SUBSET Party
        BY <2>3, <3>3
      <4> QED
        BY <4>1
    <3> HIDE DEF e
    <3>5. Agree(e)
      BY <2>3, <3>3, <3>4
    <3> QED
      BY <2>4, <3>2, <3>4, <3>5
  <2>6. CASE remove_from_blacklist(caller, s, p)
    <3> DEFINE b == [l.blocked EXCEPT ![p] = None]
               e == [l EXCEPT !.blocked = b, !.members = @ \ {p}]
    <3>1. lists' = [lists EXCEPT ![s] = e]
      BY <2>2, <2>6 DEF remove_from_blacklist
    <3>2. b \in [Party -> {None} \cup Int] /\ l.members \ {p} = {q \in Party : b[q] # None}
      BY <2>3
    <3> HIDE DEF b
    <3>3. /\ e \in Entry
          /\ e.blocked = b /\ e.members = l.members \ {p}
          /\ e.white = l.white /\ e.whiteMembers = l.whiteMembers
      <4>1. l \in Entry /\ b \in [Party -> {None} \cup Int] /\ l.members \ {p} \in SUBSET Party
        BY <2>3, <3>2
      <4> QED
        BY <4>1
    <3> HIDE DEF e
    <3>4. Agree(e)
      BY <2>3, <3>2, <3>3
    <3> QED
      BY <2>4, <3>1, <3>3, <3>4
  <2>7. CASE add_to_whitelist(caller, s, p)
    <3> DEFINE e == [l EXCEPT !.white = @ \cup {p}, !.whiteMembers = @ \cup {p}]
    <3>1. e \in Entry /\ Agree(e)
      BY <2>3
    <3>2. lists' = [lists EXCEPT ![s] = e]
      BY <2>2, <2>7 DEF add_to_whitelist
    <3> QED
      BY <2>4, <3>1, <3>2
  <2>8. CASE remove_from_whitelist(caller, s, p)
    <3> DEFINE e == [l EXCEPT !.white = @ \ {p}, !.whiteMembers = @ \ {p}]
    <3>1. e \in Entry /\ Agree(e)
      BY <2>3
    <3>2. lists' = [lists EXCEPT ![s] = e]
      BY <2>2, <2>8 DEF remove_from_whitelist
    <3> QED
      BY <2>4, <3>1, <3>2
  <2>9. ASSUME NEW on \in BOOLEAN, set_whitelist_mode(caller, s, on)
        PROVE  ListsTypeOK' /\ ListsAgree'
    <3> DEFINE e == [l EXCEPT !.mode = on]
    <3>1. e \in Entry /\ Agree(e)
      BY <2>3
    <3>2. lists' = [lists EXCEPT ![s] = e]
      BY <2>2, <2>9 DEF set_whitelist_mode
    <3> QED
      BY <2>4, <3>1, <3>2
  <2> QED
    BY <2>1, <2>5, <2>6, <2>7, <2>8, <2>9
<1>3. AccessNext \/ UNCHANGED lists
  <2>1. UNCHANGED jarVars => UNCHANGED lists
    BY DEF jarVars, tipVars
  <2> QED
    BY <2>1, StepGroups, TipsKeep, AuctionsKeep, AdminKeeps, Zenon DEF tipVars
<1> QED
  BY <1>1, <1>2, <1>3

-----------------------------------------------------------------------------
\* The ways out.  Three parts of the invariant, for the limits, the grants and the
\* requests, which the calls change one or two at a time.
LimitsPart ==
  /\ limits \in [Party -> {None} \cup Limit]
  /\ limitDefault \in {None} \cup Limit
  /\ drawn \in [Party -> [0 .. MaxTime -> Int]]
  /\ DrawnInTime /\ DefaultFresh /\ DayCounted
GrantsPart ==
  /\ grants \in [Party -> [Party -> {None} \cup Grant]]
  /\ delegates \in [Party -> SUBSET Party]
  /\ DelegatesListed
RequestsPart ==
  multisig \in {None} \cup MultiSigConfig /\ requests \in Seq(Request) /\ PaidOnSignatures

LEMMA PayoutsParts == PayoutsInv <=> LimitsPart /\ GrantsPart /\ RequestsPart
BY DEF PayoutsInv, PayoutsTypeOK, LimitsPart, GrantsPart, RequestsPart

\* What the calls do to the limits: nothing, a setting of the admin, or a payment that
\* is held against the limit.
LEMMA LimitEffects ==
  ASSUME PayoutStep
  PROVE  \/ UNCHANGED <<limits, limitDefault, drawn>>
         \/ \E c \in Party, l \in Limits :
              set_withdrawal_limits(c, l) \/ set_default_withdrawal_limits(l)
         \/ \E c \in Party, x \in Int :
              check_and_update_withdrawal_limits(c, x) /\ UNCHANGED limitDefault
<1> DEFINE Goal == \/ UNCHANGED <<limits, limitDefault, drawn>>
                   \/ \E c \in Party, l \in Limits :
                        set_withdrawal_limits(c, l) \/ set_default_withdrawal_limits(l)
                   \/ \E c \in Party, x \in Int :
                        check_and_update_withdrawal_limits(c, x) /\ UNCHANGED limitDefault
<1>0. Amounts \subseteq Int
  BY LedgerAssumption
<1>1. CASE LimitsNext
  <2>1. PICK c \in Party, t \in Token :
          \/ \E l \in Limits : set_withdrawal_limits(c, l) \/ set_default_withdrawal_limits(l)
          \/ \E x \in Amounts \cup {books.balance[c][t]} : withdraw(c, t, x)
          \/ \E x \in Amounts : withdraw_amount(c, t, x)
          \/ \E o \in WithdrawOps, q \in WithdrawOps : batch_withdraw(c, <<o, q>>)
          \/ emergency_withdraw(c, t)
    BY <1>1 DEF LimitsNext
  <2>2. ASSUME NEW x, withdraw(c, t, x)
        PROVE  x \in Int /\ check_and_update_withdrawal_limits(c, x) /\ UNCHANGED limitDefault
    BY <2>2 DEF withdraw
  <2>3. ASSUME NEW x, withdraw_amount(c, t, x)
        PROVE  check_and_update_withdrawal_limits(c, x) /\ UNCHANGED limitDefault
    BY <2>3 DEF withdraw_amount
  <2>4. ASSUME NEW o, batch_withdraw(c, o) \/ emergency_withdraw(c, t)
        PROVE  UNCHANGED <<limits, limitDefault, drawn>>
    BY <2>4 DEF batch_withdraw, emergency_withdraw, payoutVars, InOrder
  <2> QED
    BY <1>0, <2>1, <2>2, <2>3, <2>4, Zenon
<1>2. CASE DelegationNext
  <2>1. PICK c \in Party, d \in Party :
          \/ \E g \in Grants : delegate_withdrawal(c, d, g)
          \/ \E t \in Token, x \in Amounts : withdraw_as_delegate(d, c, t, x)
          \/ revoke_delegation(c, d)
    BY <1>2 DEF DelegationNext
  <2>2. ASSUME NEW g, delegate_withdrawal(c, d, g) \/ revoke_delegation(c, d)
        PROVE  UNCHANGED <<limits, limitDefault, drawn>>
    BY <2>2 DEF delegate_withdrawal, revoke_delegation
  <2>3. ASSUME NEW t, NEW x, withdraw_as_delegate(d, c, t, x)
        PROVE  check_and_update_withdrawal_limits(c, x) /\ UNCHANGED limitDefault
    BY <2>3 DEF withdraw_as_delegate
  <2> QED
    BY <1>0, <2>1, <2>2, <2>3, Zenon
<1>3. CASE MultisigNext
  <2>1. ASSUME NEW p, NEW i, set_multisig_config(p) \/ approve_withdrawal(p, i)
                             \/ cancel_multisig_withdrawal(p, i)
        PROVE  UNCHANGED <<limits, limitDefault, drawn>>
    BY <2>1 DEF set_multisig_config, approve_withdrawal, cancel_multisig_withdrawal
  <2>2. ASSUME NEW c, NEW t, NEW x, request_multisig_withdrawal(c, t, x)
        PROVE  \/ check_and_update_withdrawal_limits(c, x) /\ UNCHANGED limitDefault
               \/ UNCHANGED <<limits, limitDefault, drawn>>
    BY <2>2 DEF request_multisig_withdrawal
  <2> QED
    BY <1>0, <1>3, <2>1, <2>2, Zenon DEF MultisigNext
<1> QED
  BY <1>1, <1>2, <1>3, Zenon DEF PayoutStep

\* What was drawn from one time to another.
DrawnFrom(f, d, n) == SumFunction([i \in d .. n |-> f[i]])

LEMMA DrawnMore ==
  ASSUME NEW f \in [0 .. MaxTime -> Int], NEW n \in 0 .. MaxTime, NEW d \in 0 .. n, NEW x \in Int
  PROVE  DrawnFrom([f EXCEPT ![n] = @ + x], d, n) = DrawnFrom(f, d, n) + x
<1> DEFINE D == d .. n
           g == [f EXCEPT ![n] = @ + x]
           F == [i \in D |-> f[i]]
           G == [i \in D |-> g[i]]
<1>1. IsFiniteSet(D)
  BY LedgerAssumption, FS_Interval
<1>2. F \in [D -> Int] /\ G \in [D -> Int] /\ n \in D
  BY LedgerAssumption
<1>3. \A i \in D \ {n} : G[i] = F[i]
  BY LedgerAssumption
<1>4. G[n] = F[n] + x
  BY LedgerAssumption
<1>5. SumFunction(F) \in Int /\ F[n] \in Int
  BY <1>1, <1>2, SumType
<1>6. SumFunction(G) = SumFunction(F) + G[n] - F[n]
  <2> HIDE DEF D, F, G
  <2> QED
    BY <1>1, <1>2, <1>3, SumUpdate
<1> QED
  <2>1. SumFunction(G) = SumFunction(F) + x
    <3> HIDE DEF F, G
    <3> QED
      BY <1>4, <1>5, <1>6
  <2> QED
    BY <2>1 DEF DrawnFrom

LEMMA DrawnNothing ==
  ASSUME NEW f \in [0 .. MaxTime -> Int], NEW n \in 0 .. MaxTime, NEW d \in 0 .. n,
         \A i \in d .. n : f[i] = 0
  PROVE  DrawnFrom(f, d, n) = 0
<1> DEFINE D == d .. n
           F == [i \in D |-> f[i]]
<1>1. IsFiniteSet(D)
  BY LedgerAssumption, FS_Interval
<1>2. F \in [D -> Int] /\ \A i \in D : F[i] = 0
  BY LedgerAssumption
<1>3. SumFunction(F) = 0
  <2> HIDE DEF D, F
  <2> QED
    BY <1>1, <1>2, SumZero
<1> QED
  BY <1>3 DEF DrawnFrom

LEMMA DrawnLater ==
  ASSUME NEW f \in [0 .. MaxTime -> Int], NEW n \in 0 .. MaxTime, NEW d \in 0 .. n,
         n + 1 \in 0 .. MaxTime, f[n + 1] = 0
  PROVE  DrawnFrom(f, d, n + 1) = DrawnFrom(f, d, n)
<1> DEFINE D == d .. n
           k == n + 1
           F == [i \in D |-> f[i]]
           G == [i \in d .. k |-> f[i]]
<1>1. IsFiniteSet(D)
  BY LedgerAssumption, FS_Interval
<1>2. d .. k = D \cup {k} /\ k \notin D
  BY LedgerAssumption
<1>3. F \in [D -> Int] /\ G \in [D \cup {k} -> Int]
  BY <1>2, LedgerAssumption
<1>4. \A i \in D : G[i] = F[i]
  BY LedgerAssumption
<1>5. SumFunction(F) \in Int /\ G[k] = 0
  BY <1>1, <1>3, SumType, LedgerAssumption
<1>6. SumFunction(G) = SumFunction(F) + G[k]
  <2>1. \A E, j : IsFiniteSet(E) /\ j \notin E =>
          \A p \in [E -> Int], q \in [E \cup {j} -> Int] :
            (\A i \in E : q[i] = p[i]) => SumFunction(q) = SumFunction(p) + q[j]
    BY SumExtend
  <2> HIDE DEF D, F, G, k
  <2>2. \A p \in [D -> Int], q \in [D \cup {k} -> Int] :
          (\A i \in D : q[i] = p[i]) => SumFunction(q) = SumFunction(p) + q[k]
    BY <1>1, <1>2, <2>1, Zenon
  <2> QED
    BY <1>3, <1>4, <2>2, Zenon
<1> QED
  <2>1. SumFunction(G) = SumFunction(F)
    <3> HIDE DEF F, G
    <3> QED
      BY <1>5, <1>6
  <2> QED
    BY <2>1 DEF DrawnFrom

\* The entry l of a creator who drew f counts at time n what was drawn since its day.
EntryCounted(l, f, n) ==
  /\ \A i \in 0 .. MaxTime : i >= n + 1 => f[i] = 0
  /\ l = None => \A i \in 0 .. MaxTime : f[i] = 0
  /\ l # None => /\ l.day <= n
                 /\ \A i \in 0 .. MaxTime : i >= l.day + Day => f[i] = 0
                 /\ l.today = DrawnFrom(f, l.day, n)

LEMMA LimitsPartIs ==
  LimitsPart <=> /\ limits \in [Party -> {None} \cup Limit]
                 /\ limitDefault \in {None} \cup Limit
                 /\ drawn \in [Party -> [0 .. MaxTime -> Int]]
                 /\ DefaultFresh
                 /\ \A c \in Party : EntryCounted(limits[c], drawn[c], now)
<1>1. ASSUME NEW c \in Party
      PROVE  NothingDrawn(c, 0) <=> \A i \in 0 .. MaxTime : drawn[c][i] = 0
  BY DEF NothingDrawn
<1> QED
  BY <1>1 DEF LimitsPart, DrawnInTime, DayCounted, EntryCounted, DrawnFrom, NothingDrawn

LEMMA EntryLater ==
  ASSUME NEW l \in {None} \cup Limit, NEW f \in [0 .. MaxTime -> Int], NEW n \in 0 .. MaxTime,
         n + 1 \in 0 .. MaxTime, EntryCounted(l, f, n)
  PROVE  EntryCounted(l, f, n + 1)
<1>1. f[n + 1] = 0
  BY DEF EntryCounted
<1>2. CASE l # None
  <2>1. l.day \in 0 .. n
    BY <1>2 DEF EntryCounted, Limit
  <2>2. DrawnFrom(f, l.day, n + 1) = DrawnFrom(f, l.day, n)
    BY <1>1, <2>1, DrawnLater
  <2> QED
    BY <1>2, <2>1, <2>2, LedgerAssumption DEF EntryCounted
<1>3. CASE l = None
  BY <1>3, LedgerAssumption DEF EntryCounted
<1> QED
  BY <1>2, <1>3

LEMMA LimitRolled ==
  ASSUME NEW l \in Limit, NEW n \in Nat, NEW x \in Int
  PROVE  LET fresh == n >= l.day + Day
             m == [l EXCEPT !.today = (IF fresh THEN 0 ELSE l.today) + x, !.last = n,
                            !.day = IF fresh THEN n ELSE @]
         IN  /\ m \in Limit
             /\ m.day = IF fresh THEN n ELSE l.day
             /\ m.today = (IF fresh THEN 0 ELSE l.today) + x
<1> DEFINE fresh == n >= l.day + Day
           y == (IF fresh THEN 0 ELSE l.today) + x
           d == IF fresh THEN n ELSE l.day
<1>1. y \in Int /\ d \in Nat /\ n \in Int
  BY DEF Limit
<1> HIDE DEF y, d
<1>2. LET m == [l EXCEPT !.today = y, !.last = n, !.day = d]
      IN  m \in Limit /\ m.day = d /\ m.today = y
  BY <1>1, Zenon DEF Limit
<1> QED
  BY <1>2 DEF y, d

\* A payment of x at time n, with l the entry it is held against and m what it becomes.
LEMMA EntryDrawn ==
  ASSUME NEW o \in {None} \cup Limit, NEW l \in Limit, NEW m \in Limit,
         NEW f \in [0 .. MaxTime -> Int], NEW n \in 0 .. MaxTime, NEW x \in Int,
         EntryCounted(o, f, n),
         IF o # None THEN l = o ELSE l.day = 0 /\ l.today = 0,
         m.day = IF n >= l.day + Day THEN n ELSE l.day,
         m.today = (IF n >= l.day + Day THEN 0 ELSE l.today) + x
  PROVE  EntryCounted(m, [f EXCEPT ![n] = @ + x], n)
<1> DEFINE fresh == n >= l.day + Day
           g == [f EXCEPT ![n] = @ + x]
<1>0. l.day \in Nat /\ l.today \in Int /\ n \in Nat /\ Day \in Nat \ {0} /\ None \notin Limit
  BY LedgerAssumption, PayoutsAssumption DEF Limit
<1>1. l.day <= n /\ l.today = DrawnFrom(f, l.day, n)
      /\ \A i \in 0 .. MaxTime : i >= l.day + Day => f[i] = 0
  <2>1. CASE o # None
    BY <2>1 DEF EntryCounted
  <2>2. CASE o = None
    <3>1. \A i \in 0 .. MaxTime : f[i] = 0
      BY <2>2 DEF EntryCounted
    <3>4. 0 \in 0 .. n /\ \A i \in 0 .. n : i \in 0 .. MaxTime
      BY <1>0, LedgerAssumption
    <3>2. 0 \in 0 .. n /\ \A i \in 0 .. n : f[i] = 0
      BY <3>1, <3>4, Zenon
    <3>3. DrawnFrom(f, 0, n) = 0
      BY <3>2, DrawnNothing
    <3> QED
      BY <2>2, <3>1, <3>3, <1>0
  <2> QED
    BY <2>1, <2>2
<1>2. m.day = (IF fresh THEN n ELSE l.day) /\ m.today = (IF fresh THEN 0 ELSE l.today) + x
  OBVIOUS
<1>3. \A i \in 0 .. MaxTime : i # n => g[i] = f[i]
  OBVIOUS
<1>4. \A i \in 0 .. MaxTime : i >= n + 1 => g[i] = 0
  BY <1>3, <1>0 DEF EntryCounted
<1>5. m.today = DrawnFrom(g, m.day, n)
  <2>1. m.day \in 0 .. n
    BY <1>0, <1>1, <1>2
  <2>2. DrawnFrom(g, m.day, n) = DrawnFrom(f, m.day, n) + x
    BY <2>1, DrawnMore
  <2>3. CASE fresh
    <3>1. n \in 0 .. n /\ \A i \in n .. n : f[i] = 0
      BY <1>0, <1>1, <2>3
    <3>2. DrawnFrom(f, n, n) = 0
      BY <3>1, DrawnNothing
    <3> QED
      BY <1>2, <2>2, <2>3, <3>2
  <2>4. CASE ~fresh
    BY <1>0, <1>1, <1>2, <2>2, <2>4
  <2> QED
    BY <2>3, <2>4
<1>6. \A i \in 0 .. MaxTime : i >= m.day + Day => g[i] = 0
  <2> HIDE DEF g
  <2>1. CASE fresh
    BY <1>0, <1>2, <1>4, <2>1
  <2>2. CASE ~fresh
    BY <1>0, <1>1, <1>2, <1>3, <2>2
  <2> QED
    BY <2>1, <2>2
<1>7. m # None /\ m.day <= n
  BY <1>0, <1>1, <1>2
<1> HIDE DEF g
<1>8. EntryCounted(m, g, n)
  BY <1>4, <1>5, <1>6, <1>7 DEF EntryCounted
<1> QED
  BY <1>8 DEF g

LEMMA LimitsStart ==
  ASSUME Init
  PROVE  LimitsPart
<1>1. limits = PerParty(None) /\ limitDefault = None /\ drawn = PerParty([n \in 0 .. MaxTime |-> 0])
  BY DEF Init, PayoutsInit
<1>2. ASSUME NEW c \in Party
      PROVE  EntryCounted(limits[c], drawn[c], now)
  BY <1>1 DEF EntryCounted, PerParty
<1>3. DefaultFresh
  BY <1>1 DEF DefaultFresh
<1>4. /\ limits \in [Party -> {None} \cup Limit]
      /\ drawn \in [Party -> [0 .. MaxTime -> Int]]
      /\ limitDefault \in {None} \cup Limit
  BY <1>1 DEF PerParty
<1> QED
  BY <1>2, <1>3, <1>4, LimitsPartIs

LEMMA LimitsStep ==
  ASSUME LimitsPart, now \in 1 .. MaxTime, [Next]_jarVars
  PROVE  LimitsPart'
<1> DEFINE Types == /\ limits \in [Party -> {None} \cup Limit]
                    /\ limitDefault \in {None} \cup Limit
                    /\ drawn \in [Party -> [0 .. MaxTime -> Int]]
                    /\ DefaultFresh
<1>0. now' \in 1 .. MaxTime /\ (now' = now \/ now' = now + 1) /\ now \in 0 .. MaxTime
  BY TimeStep, LedgerAssumption
<1>1. Types /\ \A c \in Party : EntryCounted(limits[c], drawn[c], now)
  BY LimitsPartIs
<1>2. ASSUME Types', \A c \in Party : EntryCounted(limits'[c], drawn'[c], now')
      PROVE  LimitsPart'
  <2>1. (/\ limits \in [Party -> {None} \cup Limit]
         /\ limitDefault \in {None} \cup Limit
         /\ drawn \in [Party -> [0 .. MaxTime -> Int]]
         /\ DefaultFresh
         /\ \A c \in Party : EntryCounted(limits[c], drawn[c], now))'
    BY <1>2
  <2> QED
    BY <2>1, LimitsPartIs, PTL
<1>3. CASE UNCHANGED <<limits, limitDefault, drawn>>
  <2>1. Types'
    BY <1>1, <1>3 DEF DefaultFresh
  <2>2. ASSUME NEW c \in Party
        PROVE  EntryCounted(limits'[c], drawn'[c], now')
    <3>1. CASE now' = now
      BY <1>1, <1>3, <3>1
    <3>2. CASE now' = now + 1
      <4>1. limits[c] \in {None} \cup Limit /\ drawn[c] \in [0 .. MaxTime -> Int] /\ now + 1 \in 0 .. MaxTime
        BY <1>0, <1>1, <3>2
      <4>2. EntryCounted(limits[c], drawn[c], now + 1)
        BY <1>0, <1>1, <4>1, EntryLater
      <4> QED
        BY <4>2, <1>3, <3>2
    <3> QED
      BY <1>0, <3>1, <3>2
  <2> QED
    BY <1>2, <2>1, <2>2
<1>4. ASSUME NEW c \in Party, NEW l \in Limits,
             set_withdrawal_limits(c, l) \/ set_default_withdrawal_limits(l)
      PROVE  LimitsPart'
  <2>0. l[1] \in Int /\ l[2] \in Int /\ None \notin Limit /\ NoLimit \in Limit
        /\ NoLimit.day = 0 /\ NoLimit.today = 0
    BY PayoutsAssumption DEF NoLimit, Limit
  <2>1. ASSUME NEW k \in Limit
        PROVE  LET m == [k EXCEPT !.daily = l[1], !.cooldown = l[2]]
               IN  m \in Limit /\ m.day = k.day /\ m.today = k.today
    BY <2>0 DEF Limit
  <2>2. CASE set_withdrawal_limits(c, l)
    <3> DEFINE k == IF limits[c] = None THEN NoLimit ELSE limits[c]
               m == [k EXCEPT !.daily = l[1], !.cooldown = l[2]]
    <3>1. limits' = [limits EXCEPT ![c] = m] /\ limitDefault' = limitDefault /\ drawn' = drawn /\ now' = now
      BY <2>2 DEF set_withdrawal_limits, ledgerVars
    <3>2. k \in Limit /\ limits[c] \in {None} \cup Limit
      BY <1>1, <2>0
    <3> HIDE DEF k
    <3>3. m \in Limit /\ m.day = k.day /\ m.today = k.today
      BY <2>1, <3>2, Zenon
    <3> HIDE DEF m
    <3>4. Types'
      BY <1>1, <3>1, <3>3 DEF DefaultFresh
    <3>5. EntryCounted(m, drawn[c], now)
      <4>1. CASE limits[c] # None
        BY <1>1, <2>0, <3>3, <4>1 DEF EntryCounted, k
      <4>2. CASE limits[c] = None
        <5>1. k = NoLimit /\ \A i \in 0 .. MaxTime : drawn[c][i] = 0
          BY <1>1, <4>2 DEF EntryCounted, k
        <5>2. 0 \in 0 .. now /\ \A i \in 0 .. now : drawn[c][i] = 0
          BY <5>1, <1>0, LedgerAssumption
        <5>3. DrawnFrom(drawn[c], 0, now) = 0
          BY <1>0, <1>1, <5>2, DrawnNothing
        <5> QED
          BY <1>0, <2>0, <3>3, <5>1, <5>3 DEF EntryCounted
      <4> QED
        BY <4>1, <4>2
    <3> QED
      BY <1>1, <1>2, <3>1, <3>4, <3>5
  <2>3. CASE set_default_withdrawal_limits(l)
    <3> DEFINE m == [NoLimit EXCEPT !.daily = l[1], !.cooldown = l[2]]
    <3>1. limitDefault' = m /\ limits' = limits /\ drawn' = drawn /\ now' = now
      BY <2>3 DEF set_default_withdrawal_limits, ledgerVars
    <3>2. m \in Limit /\ m.day = NoLimit.day /\ m.today = NoLimit.today
      BY <2>0, <2>1, Zenon
    <3> HIDE DEF m
    <3> QED
      BY <1>1, <1>2, <2>0, <3>1, <3>2 DEF DefaultFresh
  <2> QED
    BY <1>4, <2>2, <2>3
<1>5. ASSUME NEW c \in Party, NEW x \in Int, check_and_update_withdrawal_limits(c, x),
             UNCHANGED limitDefault, now' = now
      PROVE  LimitsPart'
  <2> DEFINE l == LimitsOf(c)
             fresh == now >= l.day + Day
             m == [l EXCEPT !.today = (IF fresh THEN 0 ELSE l.today) + x, !.last = now,
                            !.day = IF fresh THEN now ELSE @]
             g == [drawn[c] EXCEPT ![now] = @ + x]
  <2>0. None \notin Limit /\ NoLimit \in Limit /\ NoLimit.day = 0 /\ NoLimit.today = 0
    BY PayoutsAssumption DEF NoLimit, Limit
  <2>1. limits' = [limits EXCEPT ![c] = m] /\ drawn' = [drawn EXCEPT ![c] = g]
    BY <1>1, <1>5 DEF check_and_update_withdrawal_limits
  <2>2. l \in Limit /\ (IF limits[c] # None THEN l = limits[c] ELSE l.day = 0 /\ l.today = 0)
    BY <1>1, <2>0 DEF LimitsOf, DefaultFresh
  <2> HIDE DEF l
  <2>3. limits[c] \in {None} \cup Limit /\ drawn[c] \in [0 .. MaxTime -> Int]
        /\ EntryCounted(limits[c], drawn[c], now)
    BY <1>1
  <2>4. now \in Nat /\ l \in Limit
    BY <1>0, <2>2
  <2>5. m \in Limit /\ m.day = (IF fresh THEN now ELSE l.day)
        /\ m.today = (IF fresh THEN 0 ELSE l.today) + x
    BY <2>4, LimitRolled, Zenon
  <2>6. m \in Limit /\ EntryCounted(m, g, now)
    <3> HIDE DEF m
    <3> QED
      BY <1>0, <2>2, <2>3, <2>5, EntryDrawn
  <2>7. g \in [0 .. MaxTime -> Int]
    <3>1. ASSUME NEW f \in [0 .. MaxTime -> Int]
          PROVE  [f EXCEPT ![now] = @ + x] \in [0 .. MaxTime -> Int]
      BY <1>0
    <3> QED
      BY <2>3, <3>1
  <2> HIDE DEF m, g
  <2>8. Types'
    BY <1>1, <1>5, <2>1, <2>6, <2>7 DEF DefaultFresh
  <2>9. ASSUME NEW d \in Party
        PROVE  EntryCounted(limits'[d], drawn'[d], now')
    BY <1>1, <1>5, <2>1, <2>6
  <2> QED
    BY <1>2, <2>8, <2>9
<1>6. CASE UNCHANGED jarVars
  BY <1>3, <1>6 DEF jarVars, payoutVars
<1>7. CASE Next
  <2>1. PayoutStep \/ UNCHANGED <<limits, limitDefault, drawn>>
    BY <1>7, StepGroups, Zenon DEF payoutVars, featureVars
  <2>2. PayoutStep => now' = now
    BY PayoutsKeep
  <2> QED
    BY <2>1, <2>2, LimitEffects, <1>3, <1>4, <1>5, Zenon
<1> QED
  BY <1>6, <1>7

\* One entry of a list changes, or one is added.
LEMMA SeqUpdated ==
  ASSUME NEW S, NEW s \in Seq(S), NEW i \in DOMAIN s, NEW e \in S
  PROVE  /\ [s EXCEPT ![i] = e] \in Seq(S)
         /\ DOMAIN [s EXCEPT ![i] = e] = DOMAIN s
         /\ \A j \in DOMAIN s : [s EXCEPT ![i] = e][j] = IF j = i THEN e ELSE s[j]
OBVIOUS

LEMMA SeqAppended ==
  ASSUME NEW S, NEW s \in Seq(S), NEW e \in S
  PROVE  /\ Append(s, e) \in Seq(S)
         /\ DOMAIN s = 1 .. Len(s) /\ DOMAIN Append(s, e) = 1 .. Len(s) + 1
         /\ \A j \in DOMAIN s : Append(s, e)[j] = s[j]
         /\ Append(s, e)[Len(s) + 1] = e
OBVIOUS

LEMMA GrantsStart ==
  ASSUME Init
  PROVE  GrantsPart
BY DEF Init, PayoutsInit, GrantsPart, DelegatesListed, PerParty

\* The grants r of a creator and the list d of its delegates agree.
GrantsAgree(r, d) ==
  /\ d = {p \in Party : r[p] # None /\ r[p].active}
  /\ \A p \in d : r[p].used < r[p].max

LEMMA GrantsStep ==
  ASSUME GrantsPart, now \in 1 .. MaxTime, [Next]_jarVars
  PROVE  GrantsPart'
<1> DEFINE Types == /\ grants \in [Party -> [Party -> {None} \cup Grant]]
                    /\ delegates \in [Party -> SUBSET Party]
<1>1. Types /\ \A c \in Party : GrantsAgree(grants[c], delegates[c])
  BY DEF GrantsPart, DelegatesListed, GrantsAgree
<1>2. ASSUME NEW c \in Party, NEW d \in Party, NEW g \in {None} \cup Grant, NEW D \in SUBSET Party,
             grants' = [grants EXCEPT ![c] = [grants[c] EXCEPT ![d] = g]],
             delegates' = [delegates EXCEPT ![c] = D],
             GrantsAgree([grants[c] EXCEPT ![d] = g], D)
      PROVE  GrantsPart'
  <2> DEFINE r == [grants[c] EXCEPT ![d] = g]
  <2>1. r \in [Party -> {None} \cup Grant]
    BY <1>1, <1>2
  <2>2. GrantsAgree(r, D) /\ grants' = [grants EXCEPT ![c] = r]
    BY <1>2
  <2> HIDE DEF r
  <2>3. Types' /\ \A p \in Party : GrantsAgree(grants'[p], delegates'[p])
    BY <1>1, <1>2, <2>1, <2>2
  <2> QED
    BY <2>3 DEF GrantsPart, DelegatesListed, GrantsAgree
<1>0. None \notin Grant
  BY PayoutsAssumption
<1>3. CASE UNCHANGED <<grants, delegates>>
  BY <1>3 DEF GrantsPart, DelegatesListed
<1>4. ASSUME NEW c \in Party, NEW d \in Party, NEW g \in Grants, delegate_withdrawal(c, d, g)
      PROVE  GrantsPart'
  <2> DEFINE n == [max |-> g[1], used |-> 0, expires_at |-> now + g[2], active |-> TRUE]
             r == [grants[c] EXCEPT ![d] = n]
  <2>1. n \in Grant /\ n.active /\ n.used < n.max
    BY PayoutsAssumption DEF Grant
  <2>2. grants' = [grants EXCEPT ![c] = [grants[c] EXCEPT ![d] = n]]
        /\ delegates' = [delegates EXCEPT ![c] = delegates[c] \cup {d}]
    BY <1>4 DEF delegate_withdrawal
  <2> HIDE DEF n
  <2>3. GrantsAgree(r, delegates[c] \cup {d})
    <3>1. GrantsAgree(grants[c], delegates[c]) /\ grants[c] \in [Party -> {None} \cup Grant]
          /\ n # None
      BY <1>0, <1>1, <2>1
    <3> QED
      BY <2>1, <3>1 DEF GrantsAgree
  <2>4. delegates[c] \cup {d} \in SUBSET Party
    BY <1>1
  <2> QED
    BY <1>2, <2>1, <2>2, <2>3, <2>4
<1>5. ASSUME NEW c \in Party, NEW d \in Party, NEW n \in Grant, NEW off \in BOOLEAN,
             grants[c][d] # None, grants[c][d].active,
             n.active = ~off, ~off => n.used < n.max,
             grants' = [grants EXCEPT ![c] = [grants[c] EXCEPT ![d] = n]],
             delegates' = [delegates EXCEPT ![c] = IF off THEN delegates[c] \ {d} ELSE delegates[c]]
      PROVE  GrantsPart'
  <2> DEFINE D == IF off THEN delegates[c] \ {d} ELSE delegates[c]
             r == [grants[c] EXCEPT ![d] = n]
  <2>1. GrantsAgree(grants[c], delegates[c]) /\ grants[c] \in [Party -> {None} \cup Grant]
        /\ n # None
    BY <1>0, <1>1, <1>5
  <2>2. D \in SUBSET Party
    BY <1>1
  <2>3. D = {p \in Party : r[p] # None /\ r[p].active}
    BY <1>5, <2>1 DEF GrantsAgree
  <2>4. \A p \in D : r[p].used < r[p].max
    BY <1>5, <2>1 DEF GrantsAgree
  <2>5. GrantsAgree(r, D)
    BY <2>3, <2>4 DEF GrantsAgree
  <2> QED
    BY <1>2, <1>5, <2>2, <2>5
<1>6. ASSUME NEW c \in Party, NEW d \in Party, NEW t, NEW x \in Int, withdraw_as_delegate(d, c, t, x)
      PROVE  GrantsPart'
  <2> DEFINE g == grants[c][d]
             spent == g.used + x >= g.max
             on == ~spent
             y == g.used + x
             n == [g EXCEPT !.used = y, !.active = on]
  <2>1. g # None /\ g.active /\ g \in Grant
    BY <1>1, <1>6 DEF withdraw_as_delegate
  <2>2. grants' = [grants EXCEPT ![c] = [grants[c] EXCEPT ![d] = n]]
        /\ delegates' = [delegates EXCEPT ![c] = IF spent THEN delegates[c] \ {d} ELSE delegates[c]]
    BY <1>1, <1>6 DEF withdraw_as_delegate
  <2>3. n \in Grant /\ n.active = ~spent /\ n.used = g.used + x /\ n.max = g.max
    <3>1. y \in Int /\ on \in BOOLEAN
      BY <2>1 DEF Grant
    <3> HIDE DEF y, on, g
    <3>2. n \in Grant /\ n.active = on /\ n.used = y /\ n.max = g.max
      BY <2>1, <3>1 DEF Grant
    <3> QED
      BY <3>2 DEF y, on
  <2>4. ~spent => n.used < n.max
    <3>1. g.used \in Int /\ g.max \in Int
      BY <2>1 DEF Grant
    <3> QED
      BY <2>3, <3>1
  <2>5. spent \in BOOLEAN
    OBVIOUS
  <2> HIDE DEF n, spent
  <2> QED
    BY <1>5, <2>1, <2>2, <2>3, <2>4, <2>5
<1>7. ASSUME NEW c \in Party, NEW d \in Party, revoke_delegation(c, d)
      PROVE  GrantsPart'
  <2> DEFINE g == grants[c][d]
             n == [g EXCEPT !.active = FALSE]
  <2>1. g # None /\ g.active /\ g \in Grant
    BY <1>1, <1>7 DEF revoke_delegation
  <2>2. grants' = [grants EXCEPT ![c] = [grants[c] EXCEPT ![d] = n]]
        /\ delegates' = [delegates EXCEPT ![c] = IF TRUE THEN delegates[c] \ {d} ELSE delegates[c]]
    BY <1>1, <1>7 DEF revoke_delegation
  <2>3. n \in Grant /\ n.active = ~TRUE
    BY <2>1 DEF Grant
  <2> HIDE DEF n
  <2> QED
    BY <1>5, <2>1, <2>2, <2>3
<1>8. Next => \/ UNCHANGED <<grants, delegates>>
              \/ \E c \in Party, d \in Party :
                   \/ \E g \in Grants : delegate_withdrawal(c, d, g)
                   \/ \E t \in Token, x \in Amounts : withdraw_as_delegate(d, c, t, x)
                   \/ revoke_delegation(c, d)
  <2>1. Next => PayoutStep \/ UNCHANGED <<grants, delegates>>
    BY StepGroups, Zenon DEF payoutVars, featureVars
  <2>2. \A c, t, x, l : (set_withdrawal_limits(c, l) \/ set_default_withdrawal_limits(l)
            \/ withdraw(c, t, x) \/ withdraw_amount(c, t, x)
            \/ emergency_withdraw(c, t)) => UNCHANGED <<grants, delegates>>
    BY DEF set_withdrawal_limits, set_default_withdrawal_limits, withdraw, withdraw_amount,
           emergency_withdraw, payoutVars
  <2>3. \A c, x : batch_withdraw(c, x) => UNCHANGED <<grants, delegates>>
    BY DEF batch_withdraw, InOrder, payoutVars
  <2>4. \A p, t, x : (set_multisig_config(p) \/ request_multisig_withdrawal(p, t, x)
            \/ approve_withdrawal(p, x) \/ cancel_multisig_withdrawal(p, x))
            => UNCHANGED <<grants, delegates>>
    BY DEF set_multisig_config, request_multisig_withdrawal, approve_withdrawal,
           cancel_multisig_withdrawal
  <2>5. LimitsNext => UNCHANGED <<grants, delegates>>
    BY <2>2, <2>3, Zenon DEF LimitsNext
  <2>6. MultisigNext => UNCHANGED <<grants, delegates>>
    BY <2>4, Zenon DEF MultisigNext
  <2> QED
    BY <2>1, <2>5, <2>6, Zenon DEF PayoutStep, DelegationNext
<1>9. UNCHANGED jarVars => UNCHANGED <<grants, delegates>>
  BY DEF jarVars, payoutVars
<1>10. Amounts \subseteq Int
  BY LedgerAssumption
<1> QED
  BY <1>3, <1>4, <1>6, <1>7, <1>8, <1>9, <1>10, Zenon

LEMMA RequestsStart ==
  ASSUME Init
  PROVE  RequestsPart
BY DEF Init, PayoutsInit, RequestsPart, PaidOnSignatures

\* A request that was paid has its signatures and was not cancelled.
RequestSound(r) ==
  r.executed => Cardinality(r.approvals) >= r.required /\ ~r.cancelled

LEMMA RequestsStep ==
  ASSUME RequestsPart, now \in 1 .. MaxTime, [Next]_jarVars
  PROVE  RequestsPart'
<1>1. /\ multisig \in {None} \cup MultiSigConfig /\ requests \in Seq(Request)
      /\ \A i \in DOMAIN requests : RequestSound(requests[i])
  BY DEF RequestsPart, PaidOnSignatures, RequestSound
<1>2. ASSUME multisig' \in {None} \cup MultiSigConfig, requests' \in Seq(Request),
             \A i \in DOMAIN requests' : RequestSound(requests'[i])
      PROVE  RequestsPart'
  BY <1>2 DEF RequestsPart, PaidOnSignatures, RequestSound
<1>3. CASE UNCHANGED <<multisig, requests>>
  BY <1>1, <1>2, <1>3
<1>4. ASSUME NEW i \in DOMAIN requests, NEW r \in Request, RequestSound(r),
             requests' = [requests EXCEPT ![i] = r], UNCHANGED multisig
      PROVE  RequestsPart'
  <2>1. /\ requests' \in Seq(Request) /\ DOMAIN requests' = DOMAIN requests
        /\ \A j \in DOMAIN requests : requests'[j] = IF j = i THEN r ELSE requests[j]
    BY <1>1, <1>4, SeqUpdated
  <2> QED
    BY <1>1, <1>2, <1>4, <2>1
<1>5. ASSUME NEW cfg \in Signatures, set_multisig_config(cfg)
      PROVE  RequestsPart'
  BY <1>1, <1>2, <1>5, PayoutsAssumption DEF set_multisig_config
<1>6. ASSUME NEW c \in Party, NEW t \in Token, NEW x \in Int, request_multisig_withdrawal(c, t, x)
      PROVE  RequestsPart'
  <2> DEFINE r == [creator |-> c, token |-> t, amount |-> x, approvals |-> {},
                   required |-> multisig.required, expires_at |-> now + multisig.expiry,
                   executed |-> FALSE, cancelled |-> FALSE]
  <2>1. multisig # None /\ UNCHANGED multisig
        /\ (UNCHANGED requests \/ requests' = Append(requests, r))
    BY <1>6 DEF request_multisig_withdrawal
  <2>2. CASE requests' = Append(requests, r)
    <3>1. multisig.required \in Int /\ now + multisig.expiry \in Int
      BY <1>1, <2>1 DEF MultiSigConfig
    <3>2. r \in Request
      BY <3>1 DEF Request
    <3>3. ~r.executed
      OBVIOUS
    <3> HIDE DEF r
    <3>4. RequestSound(r)
      BY <3>3 DEF RequestSound
    <3>5. /\ requests' \in Seq(Request)
          /\ DOMAIN requests = 1 .. Len(requests) /\ DOMAIN requests' = 1 .. Len(requests) + 1
          /\ \A j \in DOMAIN requests : requests'[j] = requests[j]
          /\ requests'[Len(requests) + 1] = r
      BY <1>1, <2>2, <3>2, SeqAppended
    <3>6. \A i \in DOMAIN requests' : i \in DOMAIN requests \/ i = Len(requests) + 1
      BY <1>1, <3>5
    <3> QED
      BY <1>1, <1>2, <2>1, <3>4, <3>5, <3>6
  <2> QED
    BY <1>3, <2>1, <2>2
<1>7. ASSUME NEW p \in Party, NEW i \in DOMAIN requests, approve_withdrawal(p, i)
      PROVE  RequestsPart'
  <2> DEFINE r == requests[i]
             signed == r.approvals \cup {p}
             paid == [r EXCEPT !.executed = TRUE, !.approvals = signed]
             waiting == [r EXCEPT !.approvals = signed]
  <2>1. r \in Request /\ r.approvals \in SUBSET Party
    <3>1. r \in Request
      BY <1>1
    <3> QED
      BY <3>1 DEF Request
  <2>2. ~r.executed /\ ~r.cancelled /\ UNCHANGED multisig
        /\ \/ Cardinality(signed) >= r.required /\ requests' = [requests EXCEPT ![i] = paid]
           \/ requests' = [requests EXCEPT ![i] = waiting]
    BY <1>1, <1>7 DEF approve_withdrawal
  <2>3. signed \in SUBSET Party
    BY <2>1
  <2> HIDE DEF r, signed
  <2>4. paid \in Request /\ paid.approvals = signed /\ paid.required = r.required
        /\ paid.cancelled = r.cancelled
    BY <2>1, <2>3 DEF Request
  <2>5. waiting \in Request /\ waiting.executed = r.executed
    BY <2>1, <2>3 DEF Request
  <2> HIDE DEF paid, waiting
  <2>6. Cardinality(signed) >= r.required => RequestSound(paid)
    BY <2>2, <2>4 DEF RequestSound
  <2>7. RequestSound(waiting)
    BY <2>2, <2>5 DEF RequestSound
  <2> QED
    BY <1>4, <2>2, <2>4, <2>5, <2>6, <2>7
<1>8. ASSUME NEW p \in Party, NEW i \in DOMAIN requests, cancel_multisig_withdrawal(p, i)
      PROVE  RequestsPart'
  <2> DEFINE r == requests[i]
             n == [r EXCEPT !.cancelled = TRUE]
  <2>1. r \in Request
    BY <1>1
  <2>2. ~r.executed /\ UNCHANGED multisig /\ requests' = [requests EXCEPT ![i] = n]
    BY <1>8 DEF cancel_multisig_withdrawal
  <2> HIDE DEF r
  <2>3. n \in Request /\ n.executed = r.executed
    BY <2>1 DEF Request
  <2> HIDE DEF n
  <2>4. RequestSound(n)
    BY <2>2, <2>3 DEF RequestSound
  <2> QED
    BY <1>4, <2>2, <2>3, <2>4
<1>9. Next => \/ UNCHANGED <<multisig, requests>>
              \/ \E cfg \in Signatures : set_multisig_config(cfg)
              \/ \E c \in Party, t \in Token, x \in Amounts : request_multisig_withdrawal(c, t, x)
              \/ \E p \in Party, i \in DOMAIN requests :
                   approve_withdrawal(p, i) \/ cancel_multisig_withdrawal(p, i)
  <2>1. Next => PayoutStep \/ UNCHANGED <<multisig, requests>>
    BY StepGroups, Zenon DEF payoutVars, featureVars
  <2>2. \A c, t, x, l : (set_withdrawal_limits(c, l) \/ set_default_withdrawal_limits(l)
            \/ withdraw(c, t, x) \/ withdraw_amount(c, t, x)
            \/ emergency_withdraw(c, t)) => UNCHANGED <<multisig, requests>>
    BY DEF set_withdrawal_limits, set_default_withdrawal_limits, withdraw, withdraw_amount,
           emergency_withdraw, payoutVars
  <2>3. \A c, x : batch_withdraw(c, x) => UNCHANGED <<multisig, requests>>
    BY DEF batch_withdraw, InOrder, payoutVars
  <2>4. \A c, d, t, x : (delegate_withdrawal(c, d, x) \/ withdraw_as_delegate(d, c, t, x)
            \/ revoke_delegation(c, d)) => UNCHANGED <<multisig, requests>>
    BY DEF delegate_withdrawal, withdraw_as_delegate, revoke_delegation
  <2>5. LimitsNext => UNCHANGED <<multisig, requests>>
    BY <2>2, <2>3, Zenon DEF LimitsNext
  <2>6. DelegationNext => UNCHANGED <<multisig, requests>>
    BY <2>4, Zenon DEF DelegationNext
  <2> QED
    BY <2>1, <2>5, <2>6, Zenon DEF PayoutStep, MultisigNext
<1>10. UNCHANGED jarVars => UNCHANGED <<multisig, requests>>
  BY DEF jarVars, payoutVars
<1>11. Amounts \subseteq Int
  BY LedgerAssumption
<1> QED
  BY <1>3, <1>5, <1>6, <1>7, <1>8, <1>9, <1>10, <1>11, Zenon

-----------------------------------------------------------------------------
\* The time locks: a lock, a refund window, or the list changes only by their calls.
TimeLocksPart ==
  /\ locks \in Seq({None} \cup Lock)
  /\ refundWindow \in Nat
  /\ ActiveLocksOpen
Open(l) == l # None /\ ~l.cancelled

LEMMA TimeLocksStart ==
  ASSUME Init
  PROVE  TimeLocksPart
BY DEF Init, LocksInit, TimeLocksPart, ActiveLocksOpen

\* What the calls do to the locks.
LEMMA LockEffects ==
  ASSUME Next
  PROVE  UNCHANGED <<locks, refundWindow, activeLocks>> \/ TimeLockNext
<1>1. LockStep \/ UNCHANGED <<locks, refundWindow, activeLocks>>
  BY StepGroups, Zenon DEF lockVars, featureVars
<1>2. \A s, c, t, x, y, z : (create_vesting_schedule(s, c, t, x, y, z) \/ withdraw_vested(c, x))
        => UNCHANGED <<locks, refundWindow, activeLocks>>
  BY DEF create_vesting_schedule, withdraw_vested
<1>3. \A s, c, t, x, y : (create_stream(s, c, t, x, y) \/ start_stream(s, x) \/ stop_stream(s, x)
        \/ withdraw_streamed(s, x) \/ cancel_stream(s, x))
        => UNCHANGED <<locks, refundWindow, activeLocks>>
  BY DEF create_stream, start_stream, stop_stream, withdraw_streamed, cancel_stream
<1>4. \A s, c, t, x, y : (create_time_lock_puzzle(s, c, t, x, y) \/ solve_time_lock_puzzle(x, y)
        \/ cancel_time_lock_puzzle(s, x)) => UNCHANGED <<locks, refundWindow, activeLocks>>
  BY DEF create_time_lock_puzzle, solve_time_lock_puzzle, cancel_time_lock_puzzle
<1>5. VestingNext \/ StreamNext \/ PuzzleNext => UNCHANGED <<locks, refundWindow, activeLocks>>
  BY <1>2, <1>3, <1>4, Zenon DEF VestingNext, StreamNext, PuzzleNext
<1> QED
  BY <1>1, <1>5, Zenon DEF LockStep

LEMMA TimeLocksStep ==
  ASSUME TimeLocksPart, now \in 1 .. MaxTime, [Next]_jarVars
  PROVE  TimeLocksPart'
<1>0. None \notin Lock /\ Amounts \subseteq Int /\ Delays \subseteq Nat /\ RefundWindows \subseteq Nat
  BY LedgerAssumption, LocksAssumption
<1>1. /\ locks \in Seq({None} \cup Lock) /\ refundWindow \in Nat
      /\ activeLocks = {i \in DOMAIN locks : Open(locks[i])}
  BY DEF TimeLocksPart, ActiveLocksOpen, Open
<1>2. ASSUME locks' \in Seq({None} \cup Lock), refundWindow' \in Nat,
             activeLocks' = {i \in DOMAIN locks' : Open(locks'[i])}
      PROVE  TimeLocksPart'
  BY <1>2 DEF TimeLocksPart, ActiveLocksOpen, Open
<1>3. CASE UNCHANGED <<locks, refundWindow, activeLocks>>
  BY <1>1, <1>2, <1>3
<1>4. ASSUME NEW n \in RefundWindows, set_refund_window(n)
      PROVE  TimeLocksPart'
  BY <1>0, <1>1, <1>2, <1>4 DEF set_refund_window
<1>5. ASSUME NEW s \in Party, NEW c \in Party, NEW t \in Token, NEW x \in Amounts, NEW n \in Delays,
             tip_time_locked(s, c, t, x, n)
      PROVE  TimeLocksPart'
  <2> DEFINE l == [sender |-> s, creator |-> c, token |-> t, amount |-> x,
                   unlock_time |-> now + n, expires_at |-> now + refundWindow,
                   cancelled |-> FALSE]
  <2>1. /\ locks' = Append(locks, l) /\ refundWindow' = refundWindow
        /\ activeLocks' = activeLocks \cup {Len(locks) + 1}
    BY <1>5 DEF tip_time_locked
  <2>2. l \in Lock /\ ~l.cancelled
    <3>1. now + n \in Int /\ now + refundWindow \in Int /\ x \in Int
      BY <1>0, <1>1
    <3> QED
      BY <3>1 DEF Lock
  <2> HIDE DEF l
  <2>3. /\ locks' \in Seq({None} \cup Lock)
        /\ DOMAIN locks = 1 .. Len(locks) /\ DOMAIN locks' = 1 .. Len(locks) + 1
        /\ \A j \in DOMAIN locks : locks'[j] = locks[j]
        /\ locks'[Len(locks) + 1] = l
    BY <1>1, <2>1, <2>2, SeqAppended
  <2>4. DOMAIN locks' = DOMAIN locks \cup {Len(locks) + 1}
    BY <1>1, <2>3
  <2>5. Open(l)
    BY <1>0, <2>2 DEF Open
  <2>6. activeLocks' = {i \in DOMAIN locks' : Open(locks'[i])}
    BY <1>1, <2>1, <2>3, <2>4, <2>5
  <2> QED
    BY <1>1, <1>2, <2>1, <2>3, <2>6
<1>6. ASSUME NEW i \in DOMAIN locks, NEW l \in {None} \cup Lock, ~Open(l),
             locks' = [locks EXCEPT ![i] = l], activeLocks' = activeLocks \ {i},
             refundWindow' = refundWindow
      PROVE  TimeLocksPart'
  <2>1. /\ locks' \in Seq({None} \cup Lock) /\ DOMAIN locks' = DOMAIN locks
        /\ \A j \in DOMAIN locks : locks'[j] = IF j = i THEN l ELSE locks[j]
    BY <1>1, <1>6, SeqUpdated
  <2>2. activeLocks' = {j \in DOMAIN locks' : Open(locks'[j])}
    BY <1>1, <1>6, <2>1
  <2> QED
    BY <1>1, <1>2, <1>6, <2>1, <2>2
<1>7. ASSUME NEW s \in Party, NEW t \in Token, NEW i \in DOMAIN locks, withdraw_time_locked(s, t, i)
      PROVE  TimeLocksPart'
  <2>1. ~Open(None)
    BY DEF Open
  <2> QED
    BY <1>6, <1>7, <2>1 DEF withdraw_time_locked
<1>8. ASSUME NEW s \in Party, NEW t \in Token, NEW i \in DOMAIN locks, cancel_time_lock(s, t, i)
      PROVE  TimeLocksPart'
  <2> DEFINE l == locks[i]
             n == [l EXCEPT !.cancelled = TRUE]
  <2>1. /\ l # None /\ locks' = [locks EXCEPT ![i] = n]
        /\ activeLocks' = activeLocks \ {i} /\ refundWindow' = refundWindow
    BY <1>8 DEF cancel_time_lock
  <2>2. l \in Lock
    BY <1>1, <2>1
  <2> HIDE DEF l
  <2>3. n \in Lock /\ n.cancelled
    BY <2>2 DEF Lock
  <2> HIDE DEF n
  <2> QED
    BY <1>6, <2>1, <2>3 DEF Open
<1>9. CASE process_expired_tips
  <2> DEFINE expired == {i \in activeLocks : ~locks[i].cancelled /\ locks[i].expires_at <= now}
  <2>1. /\ locks' = [i \in DOMAIN locks |-> IF i \in expired THEN None ELSE locks[i]]
        /\ activeLocks' = activeLocks \ expired /\ refundWindow' = refundWindow
    BY <1>9 DEF process_expired_tips
  <2> HIDE DEF expired
  <2>2. locks' \in Seq({None} \cup Lock) /\ DOMAIN locks' = DOMAIN locks
    BY <1>1, <2>1
  <2>3. activeLocks' = {i \in DOMAIN locks' : Open(locks'[i])}
    BY <1>1, <2>1, <2>2 DEF Open
  <2> QED
    BY <1>1, <1>2, <2>1, <2>2, <2>3
<1>10. UNCHANGED jarVars => UNCHANGED <<locks, refundWindow, activeLocks>>
  BY DEF jarVars, lockVars
<1> QED
  BY <1>3, <1>4, <1>5, <1>7, <1>8, <1>9, <1>10, LockEffects, Zenon DEF TimeLockNext

-----------------------------------------------------------------------------
\* The streams.  StreamSound at a time n instead of now.
SoundAt(m, n) ==
  /\ m.start <= m.end /\ m.updated <= n
  /\ m.paid <= m.withdrawn
  /\ m.status \in {"Active", "Paused"} =>
       m.withdrawn <= StreamedAt(m, m.updated) /\ m.refunded = 0
  /\ m.status \notin {"Active", "Paused"} => m.paid + m.refunded <= Deposit(m)
StreamsPart == streams \in Seq(Stream) /\ StreamsSound

LEMMA StreamsPartIs ==
  StreamsPart <=> streams \in Seq(Stream) /\ \A i \in DOMAIN streams : SoundAt(streams[i], now)
BY DEF StreamsPart, StreamsSound, StreamSound, SoundAt

LEMMA Multiplied ==
  ASSUME NEW r \in Nat, NEW a \in Int, NEW b \in Int, a <= b
  PROVE  r * a <= r * b /\ r * a \in Int /\ r * b \in Int
OBVIOUS

\* What has streamed grows with time, from nothing to the deposit.
LEMMA StreamedGrows ==
  ASSUME NEW m \in Stream, m.start <= m.end, NEW n \in Nat, NEW k \in Nat, n <= k
  PROVE  /\ StreamedAt(m, n) \in Int /\ StreamedAt(m, k) \in Int /\ Deposit(m) \in Int
         /\ StreamedAt(m, n) <= StreamedAt(m, k)
         /\ StreamedAt(m, k) <= Deposit(m)
<1> DEFINE Span(j) == Smaller(Larger(j, m.start), m.end) - m.start
<1>1. m.rate \in Nat /\ m.start \in Nat /\ m.end \in Nat
  BY DEF Stream
<1>2. Span(n) \in Int /\ Span(k) \in Int /\ m.end - m.start \in Int
      /\ Span(n) <= Span(k) /\ Span(k) <= m.end - m.start
  BY <1>1 DEF Smaller, Larger
<1>3. StreamedAt(m, n) = m.rate * Span(n) /\ StreamedAt(m, k) = m.rate * Span(k)
      /\ Deposit(m) = m.rate * (m.end - m.start)
  BY DEF StreamedAt, Deposit
<1> HIDE DEF Span
<1> QED
  BY <1>1, <1>2, <1>3, Multiplied

LEMMA StreamsStart ==
  ASSUME Init
  PROVE  StreamsPart
BY DEF Init, LocksInit, StreamsPart, StreamsSound

LEMMA StreamEffects ==
  ASSUME Next
  PROVE  UNCHANGED streams \/ (StreamNext /\ now' = now)
<1>1. LockStep \/ UNCHANGED streams
  BY StepGroups, Zenon DEF lockVars, featureVars
<1>2. \A s, c, t, x, y, z : (create_vesting_schedule(s, c, t, x, y, z) \/ withdraw_vested(c, x))
        => UNCHANGED streams
  BY DEF create_vesting_schedule, withdraw_vested
<1>3. \A s, c, t, x, y : (process_expired_tips \/ set_refund_window(x)
        \/ tip_time_locked(s, c, t, x, y) \/ withdraw_time_locked(s, t, x)
        \/ cancel_time_lock(s, t, x)) => UNCHANGED streams
  BY DEF process_expired_tips, set_refund_window, tip_time_locked, withdraw_time_locked,
         cancel_time_lock
<1>4. \A s, c, t, x, y : (create_time_lock_puzzle(s, c, t, x, y) \/ solve_time_lock_puzzle(x, y)
        \/ cancel_time_lock_puzzle(s, x)) => UNCHANGED streams
  BY DEF create_time_lock_puzzle, solve_time_lock_puzzle, cancel_time_lock_puzzle
<1>5. VestingNext \/ TimeLockNext \/ PuzzleNext => UNCHANGED streams
  BY <1>2, <1>3, <1>4, Zenon DEF VestingNext, TimeLockNext, PuzzleNext
<1>6. LockStep => now' = now
  BY LocksKeep
<1> QED
  BY <1>1, <1>5, <1>6, Zenon DEF LockStep

LEMMA StreamsStep ==
  ASSUME StreamsPart, now \in 1 .. MaxTime, [Next]_jarVars
  PROVE  StreamsPart'
<1>0. /\ now \in Nat /\ now' \in Nat /\ now <= now'
      /\ StreamRates \subseteq Nat /\ Delays \subseteq Nat
  BY TimeStep, LedgerAssumption, LocksAssumption
<1>1. streams \in Seq(Stream) /\ \A i \in DOMAIN streams : SoundAt(streams[i], now)
  BY StreamsPartIs
<1>2. ASSUME streams' \in Seq(Stream), \A i \in DOMAIN streams' : SoundAt(streams'[i], now')
      PROVE  StreamsPart'
  <2>1. (streams \in Seq(Stream) /\ \A i \in DOMAIN streams : SoundAt(streams[i], now))'
    BY <1>2
  <2> QED
    BY <2>1, StreamsPartIs, PTL
<1>3. ASSUME NEW m \in Stream, SoundAt(m, now)
      PROVE  SoundAt(m, now')
  <2>1. m.updated \in Nat
    BY DEF Stream
  <2> QED
    BY <1>0, <1>3, <2>1 DEF SoundAt
<1>4. CASE UNCHANGED streams
  <2>1. \A i \in DOMAIN streams : SoundAt(streams[i], now')
    BY <1>1, <1>3
  <2> QED
    BY <1>1, <1>2, <1>4, <2>1
<1>5. ASSUME now' = now, NEW i \in DOMAIN streams, NEW n \in Stream, SoundAt(n, now),
             streams' = [streams EXCEPT ![i] = n]
      PROVE  StreamsPart'
  <2>1. /\ streams' \in Seq(Stream) /\ DOMAIN streams' = DOMAIN streams
        /\ \A j \in DOMAIN streams : streams'[j] = IF j = i THEN n ELSE streams[j]
    BY <1>1, <1>5, SeqUpdated
  <2> QED
    BY <1>1, <1>2, <1>5, <2>1
<1>6. ASSUME now' = now, NEW s \in Party, NEW c \in Party, NEW t \in Token,
             NEW r \in StreamRates, NEW d \in Delays, create_stream(s, c, t, r, d)
      PROVE  StreamsPart'
  <2> DEFINE n == [sender |-> s, creator |-> c, token |-> t, rate |-> r,
                   start |-> now, end |-> now + d, withdrawn |-> 0,
                   status |-> "Active", updated |-> now, paid |-> 0, refunded |-> 0]
  <2>1. streams' = Append(streams, n)
    BY <1>6 DEF create_stream
  <2>2. /\ n \in Stream /\ n.start = now /\ n.end = now + d /\ n.updated = now /\ n.rate = r
        /\ n.withdrawn = 0 /\ n.paid = 0 /\ n.refunded = 0 /\ n.status = "Active"
    BY <1>0 DEF Stream
  <2> HIDE DEF n
  <2>3. SoundAt(n, now)
    <3>1. StreamedAt(n, now) = r * 0
      BY <1>0, <2>2 DEF StreamedAt, Smaller, Larger
    <3>2. r * 0 = 0
      BY <1>0
    <3> QED
      BY <1>0, <2>2, <3>1, <3>2 DEF SoundAt
  <2>4. /\ streams' \in Seq(Stream)
        /\ DOMAIN streams = 1 .. Len(streams) /\ DOMAIN streams' = 1 .. Len(streams) + 1
        /\ \A j \in DOMAIN streams : streams'[j] = streams[j]
        /\ streams'[Len(streams) + 1] = n
    BY <1>1, <2>1, <2>2, SeqAppended
  <2>5. \A i \in DOMAIN streams' : i \in DOMAIN streams \/ i = Len(streams) + 1
    BY <1>1, <2>4
  <2> QED
    BY <1>1, <1>2, <1>6, <2>3, <2>4, <2>5
<1>7. ASSUME NEW i \in DOMAIN streams
      PROVE  /\ streams[i] \in Stream /\ SoundAt(streams[i], now)
             /\ streams[i].rate \in Nat /\ streams[i].start \in Nat /\ streams[i].end \in Nat
             /\ streams[i].updated \in Nat
             /\ streams[i].withdrawn \in Int /\ streams[i].paid \in Int /\ streams[i].refunded \in Int
             /\ streams[i].status \in {"Active", "Paused", "Completed", "Cancelled"}
  <2>1. streams[i] \in Stream /\ SoundAt(streams[i], now)
    BY <1>1
  <2> QED
    BY <2>1 DEF Stream
<1>8. ASSUME now' = now, NEW p \in Party, NEW i \in DOMAIN streams, start_stream(p, i)
      PROVE  StreamsPart'
  <2> DEFINE m == streams[i]
             idle == IF m.status = "Paused" THEN now - m.updated ELSE 0
             n == [m EXCEPT !.start = @ + idle, !.end = @ + idle, !.status = "Active", !.updated = now]
  <2>1. streams' = [streams EXCEPT ![i] = n] /\ m.status \in {"Active", "Paused"}
    BY <1>7, <1>8 DEF start_stream
  <2>2. idle \in Nat
    BY <1>0, <1>7 DEF SoundAt
  <2>3. m \in Stream /\ m.start \in Nat /\ m.end \in Nat /\ SoundAt(m, now) /\ m.updated \in Nat
        /\ m.withdrawn \in Int
    BY <1>7
  <2>4. idle = IF m.status = "Paused" THEN now - m.updated ELSE 0
    OBVIOUS
  <2> HIDE DEF m, idle
  <2>5. n \in Stream /\ n.start = m.start + idle /\ n.end = m.end + idle /\ n.status = "Active"
        /\ n.updated = now /\ n.rate = m.rate /\ n.withdrawn = m.withdrawn /\ n.paid = m.paid
        /\ n.refunded = m.refunded
    <3> DEFINE a == m.start + idle
               b == m.end + idle
               k == [m EXCEPT !.start = a, !.end = b, !.status = "Active", !.updated = now]
    <3>1. a \in Nat /\ b \in Nat /\ now \in Nat
      BY <1>0, <2>2, <2>3
    <3>2. n = k
      OBVIOUS
    <3> HIDE DEF a, b, n
    <3>3. k \in Stream /\ k.start = a /\ k.end = b /\ k.status = "Active"
          /\ k.updated = now /\ k.rate = m.rate /\ k.withdrawn = m.withdrawn /\ k.paid = m.paid
          /\ k.refunded = m.refunded
      BY <2>3, <3>1 DEF Stream
    <3> QED
      BY <3>2, <3>3 DEF a, b
  <2> HIDE DEF n
  <2>6. n.withdrawn <= StreamedAt(n, now)
    <3>1. CASE m.status = "Paused"
      <4>1. Smaller(Larger(now, n.start), n.end) - n.start
              = Smaller(Larger(m.updated, m.start), m.end) - m.start
        BY <1>0, <2>2, <2>3, <2>4, <2>5, <3>1 DEF Smaller, Larger, SoundAt
      <4>2. StreamedAt(n, now) = StreamedAt(m, m.updated)
        BY <2>5, <4>1 DEF StreamedAt
      <4> QED
        BY <2>1, <2>3, <2>5, <4>2 DEF SoundAt
    <3>2. CASE m.status # "Paused"
      <4>1. n.start = m.start /\ n.end = m.end
        BY <2>2, <2>3, <2>4, <2>5, <3>2
      <4>2. StreamedAt(n, now) = StreamedAt(m, now)
        BY <2>5, <4>1 DEF StreamedAt
      <4>3. m.start <= m.end /\ m.updated <= now /\ m.withdrawn <= StreamedAt(m, m.updated)
        BY <2>1, <2>3 DEF SoundAt
      <4>4. StreamedAt(m, m.updated) \in Int /\ StreamedAt(m, now) \in Int
            /\ StreamedAt(m, m.updated) <= StreamedAt(m, now)
        BY <1>0, <2>3, <4>3, StreamedGrows
      <4> QED
        BY <2>3, <2>5, <4>2, <4>3, <4>4
    <3> QED
      BY <3>1, <3>2
  <2>7. SoundAt(n, now)
    BY <1>0, <2>1, <2>2, <2>3, <2>5, <2>6 DEF SoundAt
  <2> QED
    BY <1>5, <1>8, <2>1, <2>5, <2>7
<1>9. ASSUME NEW i \in DOMAIN streams, streams[i].status \in {"Active", "Paused"}
      PROVE  LET m == streams[i]
             IN  /\ m.start <= m.end /\ m.updated <= now
                 /\ m.paid <= m.withdrawn /\ m.withdrawn <= StreamedAt(m, now) /\ m.refunded = 0
                 /\ StreamedAt(m, now) \in Int /\ StreamedAt(m, now) <= Deposit(m)
                 /\ Deposit(m) \in Int
                 /\ calculate_streamed_amount(m) = StreamedAt(m, now)
  <2> DEFINE m == streams[i]
  <2>1. m.start <= m.end /\ m.updated <= now /\ m.withdrawn <= StreamedAt(m, m.updated)
        /\ m.paid <= m.withdrawn /\ m.refunded = 0
    BY <1>7, <1>9 DEF SoundAt
  <2>2. StreamedAt(m, m.updated) \in Int /\ StreamedAt(m, now) \in Int
        /\ StreamedAt(m, m.updated) <= StreamedAt(m, now)
        /\ StreamedAt(m, now) <= Deposit(m) /\ Deposit(m) \in Int
    BY <1>0, <1>7, <2>1, StreamedGrows
  <2>3. calculate_streamed_amount(m) = StreamedAt(m, now)
    BY <1>9 DEF calculate_streamed_amount, StreamedAt
  <2>4. m.withdrawn <= StreamedAt(m, now)
    <3>1. m.withdrawn \in Int
      BY <1>7
    <3> QED
      BY <2>1, <2>2, <3>1
  <2> QED
    BY <2>1, <2>2, <2>3, <2>4
<1>10. ASSUME now' = now, NEW p \in Party, NEW i \in DOMAIN streams, stop_stream(p, i)
      PROVE  StreamsPart'
  <2> DEFINE m == streams[i]
             y == calculate_streamed_amount(m)
             n == [m EXCEPT !.status = "Paused", !.withdrawn = y, !.updated = now]
  <2>1. streams' = [streams EXCEPT ![i] = n] /\ m.status = "Active"
    BY <1>10 DEF stop_stream
  <2>2. m \in Stream /\ m.paid \in Int /\ m.withdrawn \in Int
    BY <1>7
  <2>3. /\ m.start <= m.end /\ m.paid <= m.withdrawn /\ m.withdrawn <= StreamedAt(m, now)
        /\ m.refunded = 0 /\ StreamedAt(m, now) \in Int /\ y = StreamedAt(m, now)
    BY <1>9, <2>1
  <2> HIDE DEF m, y
  <2>4. n \in Stream /\ n.start = m.start /\ n.end = m.end /\ n.status = "Paused"
        /\ n.updated = now /\ n.rate = m.rate /\ n.withdrawn = y /\ n.paid = m.paid
        /\ n.refunded = m.refunded
    BY <1>0, <2>2, <2>3 DEF Stream
  <2> HIDE DEF n
  <2>5. StreamedAt(n, now) = StreamedAt(m, now)
    BY <2>4 DEF StreamedAt
  <2>6. SoundAt(n, now)
    BY <1>0, <2>2, <2>3, <2>4, <2>5 DEF SoundAt
  <2> QED
    BY <1>5, <1>10, <2>1, <2>4, <2>6
<1>11. ASSUME now' = now, NEW p \in Party, NEW i \in DOMAIN streams, withdraw_streamed(p, i)
      PROVE  StreamsPart'
  <2> DEFINE m == streams[i]
             x == calculate_streamed_amount(m) - m.withdrawn
             w == m.withdrawn + x
             u == m.paid + x
             e == IF now >= m.end THEN "Completed" ELSE m.status
             n == [m EXCEPT !.withdrawn = w, !.paid = u, !.status = e, !.updated = now]
  <2>1. streams' = [streams EXCEPT ![i] = n] /\ x > 0
    BY <1>11 DEF withdraw_streamed
  <2>2. m \in Stream /\ m.paid \in Int /\ m.withdrawn \in Int
        /\ m.status \in {"Active", "Paused", "Completed", "Cancelled"}
    BY <1>7
  <2>3. m.status \in {"Active", "Paused"}
    <3>1. m.status \notin {"Active", "Paused"} => x = 0
      BY <2>2 DEF calculate_streamed_amount
    <3> QED
      BY <2>1, <3>1
  <2>4. /\ m.start <= m.end /\ m.paid <= m.withdrawn /\ m.withdrawn <= StreamedAt(m, now)
        /\ m.refunded = 0 /\ StreamedAt(m, now) \in Int
        /\ StreamedAt(m, now) <= Deposit(m) /\ Deposit(m) \in Int
        /\ calculate_streamed_amount(m) = StreamedAt(m, now)
    BY <1>9, <2>3
  <2>5. w \in Int /\ u \in Int /\ u <= w /\ w = StreamedAt(m, now) /\ e \in {"Completed", "Active", "Paused"}
    BY <2>2, <2>3, <2>4
  <2> HIDE DEF m, w, u, e
  <2>6. n \in Stream /\ n.start = m.start /\ n.end = m.end /\ n.status = e
        /\ n.updated = now /\ n.rate = m.rate /\ n.withdrawn = w /\ n.paid = u
        /\ n.refunded = m.refunded
    BY <1>0, <2>2, <2>5 DEF Stream
  <2> HIDE DEF n
  <2>7. StreamedAt(n, now) = StreamedAt(m, now) /\ Deposit(n) = Deposit(m)
    BY <2>6 DEF StreamedAt, Deposit
  <2>8. SoundAt(n, now)
    BY <1>0, <2>2, <2>4, <2>5, <2>6, <2>7 DEF SoundAt
  <2> QED
    BY <1>5, <1>11, <2>1, <2>6, <2>8
<1>12. ASSUME now' = now, NEW p \in Party, NEW i \in DOMAIN streams, cancel_stream(p, i)
      PROVE  StreamsPart'
  <2> DEFINE m == streams[i]
             back == Deposit(m) - calculate_streamed_amount(m)
             n == [m EXCEPT !.status = "Cancelled", !.updated = now, !.refunded = back]
  <2>1. streams' = [streams EXCEPT ![i] = n] /\ m.status \in {"Active", "Paused"}
    BY <1>7, <1>12 DEF cancel_stream
  <2>2. m \in Stream /\ m.paid \in Int /\ m.withdrawn \in Int
    BY <1>7
  <2>3. /\ m.start <= m.end /\ m.paid <= m.withdrawn /\ m.withdrawn <= StreamedAt(m, now)
        /\ m.refunded = 0 /\ StreamedAt(m, now) \in Int
        /\ StreamedAt(m, now) <= Deposit(m) /\ Deposit(m) \in Int
        /\ calculate_streamed_amount(m) = StreamedAt(m, now)
    BY <1>9, <2>1
  <2>4. back \in Int /\ m.paid + back <= Deposit(m)
    BY <2>2, <2>3
  <2> HIDE DEF m, back
  <2>5. n \in Stream /\ n.start = m.start /\ n.end = m.end /\ n.status = "Cancelled"
        /\ n.updated = now /\ n.rate = m.rate /\ n.withdrawn = m.withdrawn /\ n.paid = m.paid
        /\ n.refunded = back
    BY <1>0, <2>2, <2>4 DEF Stream
  <2> HIDE DEF n
  <2>6. Deposit(n) = Deposit(m)
    BY <2>5 DEF Deposit
  <2>7. SoundAt(n, now)
    BY <1>0, <2>2, <2>3, <2>4, <2>5, <2>6 DEF SoundAt
  <2> QED
    BY <1>5, <1>12, <2>1, <2>5, <2>7
<1>13. UNCHANGED jarVars => UNCHANGED streams
  BY DEF jarVars, lockVars
<1> QED
  BY <1>4, <1>6, <1>8, <1>10, <1>11, <1>12, <1>13, StreamEffects, Zenon DEF StreamNext

LEMMA StreamsPay ==
  ASSUME StreamsPart, now \in 1 .. MaxTime
  PROVE  StreamWithinDeposit
<1> SUFFICES ASSUME NEW i \in DOMAIN streams
             PROVE  LET m == streams[i]
                    IN  /\ m.paid + m.refunded <= Deposit(m)
                        /\ m.paid <= m.withdrawn
                        /\ m.withdrawn <= calculate_streamed_amount(m)
  BY DEF StreamWithinDeposit
<1> DEFINE m == streams[i]
<1>1. m \in Stream /\ SoundAt(m, now)
  BY StreamsPartIs
<1> HIDE DEF m
<1>2. m.updated \in Nat /\ m.withdrawn \in Int /\ m.paid \in Int /\ m.refunded \in Int /\ now \in Nat
  BY <1>1, LedgerAssumption DEF Stream
<1>3. CASE m.status \in {"Active", "Paused"}
  <2>1. m.start <= m.end /\ m.updated <= now /\ m.withdrawn <= StreamedAt(m, m.updated)
        /\ m.paid <= m.withdrawn /\ m.refunded = 0
    BY <1>1, <1>3 DEF SoundAt
  <2>2. StreamedAt(m, m.updated) \in Int /\ StreamedAt(m, now) \in Int
        /\ StreamedAt(m, m.updated) <= StreamedAt(m, now)
        /\ StreamedAt(m, now) <= Deposit(m) /\ Deposit(m) \in Int
    BY <1>1, <1>2, <2>1, StreamedGrows
  <2>3. calculate_streamed_amount(m) = StreamedAt(m, now)
    BY <1>3 DEF calculate_streamed_amount, StreamedAt
  <2>4. m.paid + m.refunded <= Deposit(m) /\ m.withdrawn <= StreamedAt(m, now)
    BY <1>2, <2>1, <2>2
  <2> QED
    BY <2>1, <2>3, <2>4 DEF m
<1>4. CASE m.status \notin {"Active", "Paused"}
  <2>1. calculate_streamed_amount(m) = m.withdrawn
    BY <1>4 DEF calculate_streamed_amount
  <2>2. m.paid + m.refunded <= Deposit(m) /\ m.paid <= m.withdrawn
    BY <1>1, <1>4 DEF SoundAt
  <2> QED
    BY <1>2, <2>1, <2>2 DEF m
<1> QED
  BY <1>3, <1>4

-----------------------------------------------------------------------------
\* The subscriptions.  SubscriptionSound at a time n, with the tiers k.
SubscribedAt(m, n, k) ==
  /\ m.last <= n
  /\ m.next >= m.last + m.interval \/ m.granted >= m.last
  /\ m.pending # None => k[m.pending] # None
\* A pull of a subscription m at time n that its subscriber allowed.
Allowed(m, n) == n >= m.last + m.interval \/ m.granted >= m.last

LEMMA SubscriptionsInvIs ==
  SubscriptionsInv <=>
    /\ SubscriptionsTypeOK
    /\ \A s, c \in Party : subs[s][c] # None => SubscribedAt(subs[s][c], now, tiers)
BY DEF SubscriptionsInv, SubscriptionSound, SubscribedAt

LEMMA SubscriptionsStart ==
  ASSUME Init
  PROVE  SubscriptionsInv
BY DEF Init, SubscriptionsInit, SubscriptionsInv, SubscriptionsTypeOK

LEMMA SubscriptionsStep ==
  ASSUME SubscriptionsInv, now \in 1 .. MaxTime, [Next]_jarVars
  PROVE  /\ SubscriptionsInv'
         /\ \A s, c \in Party :
              (subs[s][c] # None /\ subs'[s][c].pulls > subs[s][c].pulls)
                => Allowed(subs[s][c], now)
<1> DEFINE Spaced == \A s, c \in Party :
                       (subs[s][c] # None /\ subs'[s][c].pulls > subs[s][c].pulls)
                         => Allowed(subs[s][c], now)
<1>0. /\ now \in Nat /\ now' \in Nat /\ now <= now'
      /\ Amounts \subseteq Nat /\ Intervals \subseteq Nat /\ TierPrices \subseteq Nat
      /\ None \notin Int /\ None \notin Tier /\ FirstTier \in Tier
  BY TimeStep, LedgerAssumption, SubscriptionsAssumption
<1>1. /\ SubscriptionsTypeOK
      /\ \A s, c \in Party : subs[s][c] # None => SubscribedAt(subs[s][c], now, tiers)
  BY SubscriptionsInvIs
<1>2. ASSUME SubscriptionsTypeOK',
             \A s, c \in Party : subs'[s][c] # None => SubscribedAt(subs'[s][c], now', tiers')
      PROVE  SubscriptionsInv'
  <2>1. (/\ SubscriptionsTypeOK
         /\ \A s, c \in Party : subs[s][c] # None => SubscribedAt(subs[s][c], now, tiers))'
    BY <1>2
  <2> QED
    BY <2>1, SubscriptionsInvIs, PTL
<1>3. ASSUME NEW s \in Party, NEW c \in Party, subs[s][c] # None
      PROVE  subs[s][c] \in Subscription /\ subs[s][c].pulls \in Nat /\ subs[s][c].last \in Nat
             /\ subs[s][c].interval \in Nat /\ subs[s][c].next \in Nat /\ subs[s][c].granted \in Nat
             /\ subs[s][c].pending \in {None} \cup Tier
             /\ SubscribedAt(subs[s][c], now, tiers)
  <2>1. subs[s][c] \in Subscription
    BY <1>1, <1>3 DEF SubscriptionsTypeOK
  <2> QED
    BY <1>1, <1>3, <2>1 DEF Subscription
<1>4. CASE UNCHANGED subs /\ (UNCHANGED tiers \/ \E k \in Tier, x \in TierPrices : set_tier_config(k, x))
  <2>1. tiers' \in [Tier -> {None} \cup Nat] /\ \A k \in Tier : tiers[k] # None => tiers'[k] # None
    BY <1>0, <1>1, <1>4 DEF SubscriptionsTypeOK, set_tier_config
  <2>2. SubscriptionsTypeOK'
    BY <1>1, <1>4, <2>1 DEF SubscriptionsTypeOK
  <2>3. ASSUME NEW s \in Party, NEW c \in Party, subs[s][c] # None
        PROVE  SubscribedAt(subs[s][c], now', tiers')
    BY <1>0, <1>3, <2>1, <2>3 DEF SubscribedAt
  <2>4. Spaced
    BY <1>3, <1>4
  <2> QED
    BY <1>2, <1>4, <2>2, <2>3, <2>4
<1>5. ASSUME NEW s \in Party, NEW c \in Party, NEW n \in Subscription, UNCHANGED <<now, tiers>>,
             SubscribedAt(n, now, tiers),
             subs' = [subs EXCEPT ![s] = [subs[s] EXCEPT ![c] = n]],
             subs[s][c] # None => n.pulls <= subs[s][c].pulls \/ Allowed(subs[s][c], now)
      PROVE  SubscriptionsInv' /\ Spaced
  <2>1. ASSUME NEW a \in Party, NEW b \in Party
        PROVE  subs'[a][b] = IF a = s /\ b = c THEN n ELSE subs[a][b]
    BY <1>1, <1>5 DEF SubscriptionsTypeOK
  <2>2. SubscriptionsTypeOK'
    <3>1. [subs[s] EXCEPT ![c] = n] \in [Party -> {None} \cup Subscription]
      BY <1>1 DEF SubscriptionsTypeOK
    <3> DEFINE r == [subs[s] EXCEPT ![c] = n]
    <3> HIDE DEF r
    <3>2. subs' = [subs EXCEPT ![s] = r] /\ r \in [Party -> {None} \cup Subscription]
      BY <1>5, <3>1 DEF r
    <3> QED
      BY <1>1, <1>5, <3>2 DEF SubscriptionsTypeOK
  <2>3. \A a, b \in Party : subs'[a][b] # None => SubscribedAt(subs'[a][b], now', tiers')
    BY <1>1, <1>5, <2>1
  <2>4. ASSUME NEW a \in Party, NEW b \in Party, subs[a][b] # None,
               subs'[a][b].pulls > subs[a][b].pulls
        PROVE  Allowed(subs[a][b], now)
    <3>1. subs[a][b].pulls \in Nat
      BY <1>3, <2>4
    <3>2. n.pulls \in Nat
      BY DEF Subscription
    <3> QED
      BY <1>5, <2>1, <2>4, <3>1, <3>2
  <2> QED
    BY <1>2, <2>2, <2>3, <2>4
<1>6. ASSUME NEW t \in Token, NEW x \in Nat, NEW i \in Nat, NEW k \in Tier
      PROVE  LET n == NewSubscription(t, x, i, k)
             IN  n \in Subscription /\ SubscribedAt(n, now, tiers) /\ n.pulls = 0
  <2> DEFINE n == NewSubscription(t, x, i, k)
  <2>1. n \in Subscription /\ n.pulls = 0 /\ n.last = 0 /\ n.granted = now /\ n.pending = None
    BY <1>0 DEF NewSubscription, Subscription
  <2> HIDE DEF n
  <2>2. SubscribedAt(n, now, tiers)
    BY <1>0, <2>1 DEF SubscribedAt
  <2> QED
    BY <2>1, <2>2 DEF n
<1>7. ASSUME NEW s \in Party, NEW c \in Party, NEW n, n \in Subscription, SubscribedAt(n, now, tiers),
             n.pulls = 0, UNCHANGED <<now, tiers>>, subs' = [subs EXCEPT ![s][c] = n]
      PROVE  SubscriptionsInv' /\ Spaced
  <2>1. subs[s][c] # None => n.pulls <= subs[s][c].pulls
    BY <1>3, <1>7
  <2> QED
    BY <1>5, <1>7, <2>1
<1>8. ASSUME NEW s \in Party, NEW c \in Party, NEW t \in Token, NEW x \in Amounts, NEW i \in Intervals,
             create_subscription(s, c, t, x, i)
      PROVE  SubscriptionsInv' /\ Spaced
  <2> DEFINE n == NewSubscription(t, x, i, FirstTier)
  <2>1. UNCHANGED <<now, tiers>> /\ subs' = [subs EXCEPT ![s][c] = n]
    BY <1>8 DEF create_subscription
  <2>2. n \in Subscription /\ SubscribedAt(n, now, tiers) /\ n.pulls = 0
    BY <1>0, <1>6
  <2> HIDE DEF n
  <2> QED
    BY <1>7, <2>1, <2>2
<1>9. ASSUME NEW s \in Party, NEW c \in Party, NEW t \in Token, NEW k \in Tier, NEW i \in Intervals,
             create_tiered_subscription(s, c, t, k, i)
      PROVE  SubscriptionsInv' /\ Spaced
  <2> DEFINE n == NewSubscription(t, tiers[k], i, k)
  <2>1. UNCHANGED <<now, tiers>> /\ subs' = [subs EXCEPT ![s][c] = n] /\ tiers[k] # None
    BY <1>9 DEF create_tiered_subscription
  <2>2. tiers[k] \in Nat
    BY <1>1, <2>1 DEF SubscriptionsTypeOK
  <2>3. n \in Subscription /\ SubscribedAt(n, now, tiers) /\ n.pulls = 0
    BY <1>0, <1>6, <2>2
  <2> HIDE DEF n
  <2> QED
    BY <1>7, <2>1, <2>3
<1>10. ASSUME NEW s \in Party, NEW c \in Party, NEW k \in Tier, upgrade_subscription(s, c, k)
       PROVE  SubscriptionsInv' /\ Spaced
  <2> DEFINE m == subs[s][c]
             y == tiers[k]
             d == now + m.interval
             n == [m EXCEPT !.tier = k, !.amount = y, !.last = now, !.next = d, !.pending = None]
  <2>1. UNCHANGED <<now, tiers>> /\ subs' = [subs EXCEPT ![s] = [subs[s] EXCEPT ![c] = n]]
        /\ m # None /\ y # None
    BY <1>10 DEF upgrade_subscription, Subscribed
  <2>2. y \in Nat /\ d \in Nat /\ m \in Subscription /\ m.pulls \in Nat /\ m.interval \in Nat
    BY <1>0, <1>1, <1>3, <2>1 DEF SubscriptionsTypeOK
  <2>3. d = now + m.interval
    OBVIOUS
  <2> HIDE DEF m, y, d
  <2>4. n \in Subscription /\ n.pulls = m.pulls /\ n.last = now /\ n.next = d /\ n.pending = None
        /\ n.interval = m.interval
    BY <1>0, <2>2 DEF Subscription
  <2> HIDE DEF n
  <2>5. SubscribedAt(n, now, tiers) /\ n.pulls <= m.pulls
    BY <1>0, <2>2, <2>3, <2>4 DEF SubscribedAt
  <2> QED
    BY <1>5, <2>1, <2>4, <2>5 DEF m
<1>11. ASSUME NEW s \in Party, NEW c \in Party, NEW k \in Tier, downgrade_subscription(s, c, k)
       PROVE  SubscriptionsInv' /\ Spaced
  <2> DEFINE m == subs[s][c]
             n == [m EXCEPT !.pending = k]
  <2>1. UNCHANGED <<now, tiers>> /\ subs' = [subs EXCEPT ![s] = [subs[s] EXCEPT ![c] = n]]
        /\ m # None /\ tiers[k] # None
    BY <1>11 DEF downgrade_subscription, Subscribed, ledgerVars
  <2>2. m \in Subscription /\ m.pulls \in Nat /\ SubscribedAt(m, now, tiers)
    BY <1>3, <2>1
  <2> HIDE DEF m
  <2>3. n \in Subscription /\ n.pulls = m.pulls /\ n.last = m.last /\ n.next = m.next /\ n.pending = k
        /\ n.interval = m.interval /\ n.granted = m.granted
    BY <2>2 DEF Subscription
  <2> HIDE DEF n
  <2>4. SubscribedAt(n, now, tiers) /\ n.pulls <= m.pulls
    BY <2>1, <2>2, <2>3 DEF SubscribedAt
  <2> QED
    BY <1>5, <2>1, <2>3, <2>4 DEF m
<1>12. ASSUME NEW s \in Party, NEW c \in Party, execute_subscription_payment(s, c)
       PROVE  SubscriptionsInv' /\ Spaced
  <2> DEFINE o == subs[s][c]
             m == Repriced(o)
             u == m.pulls + 1
             d == now + m.interval
             n == [m EXCEPT !.last = now, !.pulls = u, !.next = d]
  <2>1. UNCHANGED <<now, tiers>> /\ subs' = [subs EXCEPT ![s] = [subs[s] EXCEPT ![c] = n]]
        /\ o # None /\ now >= o.next
    BY <1>12 DEF execute_subscription_payment, Subscribed
  <2>2. /\ o \in Subscription /\ o.pulls \in Nat /\ o.last \in Nat /\ o.interval \in Nat
        /\ o.next \in Nat /\ o.granted \in Nat /\ o.pending \in {None} \cup Tier
        /\ SubscribedAt(o, now, tiers)
    BY <1>3, <2>1
  <2>3. Allowed(o, now)
    BY <1>0, <2>1, <2>2 DEF Allowed, SubscribedAt
  <2>4. m \in Subscription /\ m.pending = None
    <3> HIDE DEF o
    <3>1. CASE o.pending = None
      BY <2>2, <3>1 DEF Repriced
    <3>2. CASE o.pending # None
      <4> DEFINE p == o.pending
                 y == tiers[p]
                 k == [o EXCEPT !.tier = p, !.amount = y, !.pending = None]
      <4>1. p \in Tier /\ y \in Nat
        BY <1>1, <2>2, <3>2 DEF SubscribedAt, SubscriptionsTypeOK
      <4>2. m = k
        BY <3>2 DEF Repriced
      <4> HIDE DEF p, y, m
      <4>3. k \in Subscription /\ k.pending = None
        BY <2>2, <4>1 DEF Subscription
      <4> QED
        BY <4>2, <4>3
    <3> QED
      BY <3>1, <3>2
  <2> HIDE DEF m
  <2>5. u \in Nat /\ d \in Nat /\ m.interval \in Nat
    BY <1>0, <2>4 DEF Subscription
  <2>6. d = now + m.interval
    OBVIOUS
  <2> HIDE DEF u, d
  <2>7. n \in Subscription /\ n.last = now /\ n.next = d /\ n.pending = None /\ n.interval = m.interval
    BY <1>0, <2>4, <2>5 DEF Subscription
  <2> HIDE DEF n
  <2>8. SubscribedAt(n, now, tiers)
    BY <1>0, <2>5, <2>6, <2>7 DEF SubscribedAt
  <2> QED
    BY <1>5, <2>1, <2>3, <2>7, <2>8
<1>13. ASSUME NEW s \in Party, NEW c \in Party, NEW e,
              subs[s][c] # None, e \in {"Paused", "Cancelled"}, UNCHANGED <<now, tiers>>,
              subs' = [subs EXCEPT ![s] = [subs[s] EXCEPT ![c] = [subs[s][c] EXCEPT !.status = e]]]
       PROVE  SubscriptionsInv' /\ Spaced
  <2> DEFINE m == subs[s][c]
             n == [m EXCEPT !.status = e]
  <2>1. subs' = [subs EXCEPT ![s] = [subs[s] EXCEPT ![c] = n]]
    BY <1>13
  <2>2. m \in Subscription /\ m.pulls \in Nat /\ SubscribedAt(m, now, tiers)
    BY <1>3, <1>13
  <2> HIDE DEF m
  <2>3. n \in Subscription /\ n.pulls = m.pulls /\ n.last = m.last /\ n.next = m.next
        /\ n.pending = m.pending /\ n.interval = m.interval /\ n.granted = m.granted
    BY <1>13, <2>2 DEF Subscription
  <2> HIDE DEF n
  <2>4. SubscribedAt(n, now, tiers) /\ n.pulls <= m.pulls
    BY <2>2, <2>3 DEF SubscribedAt
  <2> QED
    BY <1>5, <1>13, <2>1, <2>3, <2>4 DEF m
<1>14. ASSUME NEW s \in Party, NEW c \in Party,
              pause_subscription(s, c) \/ cancel_subscription(s, c)
       PROVE  SubscriptionsInv' /\ Spaced
  <2>1. subs[s][c] # None /\ UNCHANGED <<now, tiers>>
    BY <1>14 DEF pause_subscription, cancel_subscription, Subscribed, ledgerVars
  <2>2. \E e \in {"Paused", "Cancelled"} :
          subs' = [subs EXCEPT ![s] = [subs[s] EXCEPT ![c] = [subs[s][c] EXCEPT !.status = e]]]
    BY <1>14 DEF pause_subscription, cancel_subscription
  <2> QED
    BY <1>13, <2>1, <2>2
<1>15. ASSUME NEW s \in Party, NEW c \in Party, resume_subscription(s, c)
       PROVE  SubscriptionsInv' /\ Spaced
  <2> DEFINE m == subs[s][c]
             n == [m EXCEPT !.status = "Active", !.next = now, !.granted = now]
  <2>1. UNCHANGED <<now, tiers>> /\ subs' = [subs EXCEPT ![s] = [subs[s] EXCEPT ![c] = n]]
        /\ m # None
    BY <1>15 DEF resume_subscription, Subscribed, ledgerVars
  <2>2. m \in Subscription /\ m.pulls \in Nat /\ SubscribedAt(m, now, tiers) /\ m.last \in Nat
    BY <1>3, <2>1
  <2> HIDE DEF m
  <2>3. n \in Subscription /\ n.pulls = m.pulls /\ n.last = m.last /\ n.granted = now
        /\ n.pending = m.pending
    BY <1>0, <2>2 DEF Subscription
  <2> HIDE DEF n
  <2>4. SubscribedAt(n, now, tiers) /\ n.pulls <= m.pulls
    BY <1>0, <2>2, <2>3 DEF SubscribedAt
  <2> QED
    BY <1>5, <2>1, <2>3, <2>4 DEF m
<1>16. Next => SubscriptionsNext \/ UNCHANGED <<tiers, subs>>
  BY StepGroups, Zenon DEF subVars, featureVars
<1>17. UNCHANGED jarVars => UNCHANGED <<tiers, subs>>
  BY DEF jarVars, subVars
<1>18. \A k, x : set_tier_config(k, x) => UNCHANGED subs
  BY DEF set_tier_config
<1> QED
  BY <1>4, <1>8, <1>9, <1>10, <1>11, <1>12, <1>14, <1>15, <1>16, <1>17, <1>18, Zenon
     DEF SubscriptionsNext

-----------------------------------------------------------------------------
\* The insurance pools: the counters of active claims.
LEMMA ClaimsStart ==
  ASSUME Init
  PROVE  InsuranceInv
<1>1. InsuranceTypeOK
  BY DEF Init, InsuranceInit, InsuranceTypeOK, PerToken, PerParty
<1>2. ASSUME NEW t \in Token
      PROVE  pools[t].active = SumFunction([c \in Party |-> activeClaims[c][t]])
  <2> DEFINE f == [c \in Party |-> activeClaims[c][t]]
  <2>1. f \in [Party -> Int] /\ (\A c \in Party : f[c] = 0) /\ pools[t].active = 0
    BY DEF Init, InsuranceInit, PerToken, PerParty
  <2> HIDE DEF f
  <2>2. SumFunction(f) = 0
    BY <2>1, LedgerAssumption, SumZero
  <2> QED
    BY <2>1, <2>2 DEF f
<1> QED
  BY <1>1, <1>2 DEF InsuranceInv, ClaimsCounted

\* Approving claims takes from both counters what it takes from either.
LEMMA CountedDown ==
  ASSUME InsuranceInv, NEW ids, IsFiniteSet(DOMAIN ids), CountDown(ids),
         UNCHANGED <<contributed, claims>>
  PROVE  InsuranceInv'
<1> DEFINE times(c, t) == Cardinality({k \in DOMAIN ids :
                            claims[ids[k]].creator = c /\ claims[ids[k]].token = t})
           all(t) == SumFunction([c \in Party |-> times(c, t)])
<1>1. /\ activeClaims' = [c \in Party |-> [t \in Token |-> activeClaims[c][t] - times(c, t)]]
      /\ pools' = [t \in Token |-> [pools[t] EXCEPT !.active = @ - all(t)]]
  BY DEF CountDown
<1>2. \A c, t : times(c, t) \in Nat
  <2> SUFFICES ASSUME NEW c, NEW t PROVE times(c, t) \in Nat
    OBVIOUS
  <2> DEFINE T == {k \in DOMAIN ids : claims[ids[k]].creator = c /\ claims[ids[k]].token = t}
  <2>1. T \in SUBSET (DOMAIN ids)
    OBVIOUS
  <2> HIDE DEF T
  <2>2. IsFiniteSet(T)
    BY <2>1, FS_Subset
  <2>3. Cardinality(T) \in Nat
    BY <2>2, FS_CardinalityType
  <2> QED
    BY <2>3 DEF T
<1> HIDE DEF times
<1>3. \A t : all(t) \in Int
  <2> SUFFICES ASSUME NEW t PROVE all(t) \in Int
    OBVIOUS
  <2> DEFINE g == [c \in Party |-> times(c, t)]
  <2>1. g \in [Party -> Int]
    BY <1>2
  <2> HIDE DEF g
  <2>2. SumFunction(g) \in Int
    BY <2>1, LedgerAssumption, SumType
  <2> QED
    BY <2>2 DEF g
<1>4. ASSUME NEW t \in Token
      PROVE  SumFunction([c \in Party |-> activeClaims'[c][t]])
               = SumFunction([c \in Party |-> activeClaims[c][t]]) - all(t)
  <2> DEFINE f == [c \in Party |-> activeClaims[c][t]]
             g == [c \in Party |-> times(c, t)]
             h == [c \in Party |-> activeClaims'[c][t]]
  <2>1. f \in [Party -> Int] /\ g \in [Party -> Int] /\ h \in [Party -> Int]
        /\ \A c \in Party : f[c] = h[c] + g[c]
    BY <1>1, <1>2 DEF InsuranceInv, InsuranceTypeOK
  <2>2. all(t) = SumFunction(g)
    OBVIOUS
  <2> HIDE DEF f, g, h, all
  <2>3. SumFunction(f) = SumFunction(h) + SumFunction(g)
    BY <2>1, LedgerAssumption, SumPlus
  <2>4. SumFunction(f) \in Int /\ SumFunction(g) \in Int /\ SumFunction(h) \in Int
    BY <2>1, LedgerAssumption, SumType
  <2>5. SumFunction(h) = SumFunction(f) - all(t)
    BY <2>2, <2>3, <2>4
  <2> QED
    BY <2>5 DEF f, h
<1> HIDE DEF all
<1>5. \A t \in Token : pools'[t].active = pools[t].active - all(t)
  BY <1>1, <1>3 DEF InsuranceInv, InsuranceTypeOK
<1>6. ClaimsCounted'
  BY <1>4, <1>5 DEF InsuranceInv, ClaimsCounted
<1>7. activeClaims' \in [Party -> [Token -> Int]]
  BY <1>1, <1>2 DEF InsuranceInv, InsuranceTypeOK
<1>8. pools' \in [Token -> [contributions : Nat, active : Int]]
  <2>1. ASSUME NEW t \in Token
        PROVE  [pools[t] EXCEPT !.active = @ - all(t)] \in [contributions : Nat, active : Int]
    <3> DEFINE o == pools[t]
               y == pools[t].active - all(t)
    <3>1. o \in [contributions : Nat, active : Int]
      BY DEF InsuranceInv, InsuranceTypeOK
    <3>2. y \in Int
      BY <1>3, <3>1
    <3> HIDE DEF o, y
    <3>3. [o EXCEPT !.active = y] \in [contributions : Nat, active : Int]
      BY <3>1, <3>2
    <3> QED
      BY <3>3 DEF o, y
  <2> QED
    BY <1>1, <2>1
<1> QED
  BY <1>6, <1>7, <1>8 DEF InsuranceInv, InsuranceTypeOK

LEMMA ClaimsStep ==
  ASSUME InsuranceInv, [Next]_jarVars
  PROVE  InsuranceInv'
<1>1. CASE UNCHANGED insuranceVars
  BY <1>1 DEF insuranceVars, InsuranceInv, InsuranceTypeOK, ClaimsCounted
<1>2. ASSUME UNCHANGED <<pools, contributed, activeClaims, claims>> PROVE InsuranceInv'
  BY <1>2 DEF InsuranceInv, InsuranceTypeOK, ClaimsCounted
<1>3. ASSUME NEW c \in Party, NEW t \in Token, NEW x \in Amounts, insurance_contribute(c, t, x)
      PROVE  InsuranceInv'
  <2>1. x \in Nat
    BY LedgerAssumption
  <2>2. /\ pools' = [pools EXCEPT ![t].contributions = @ + x]
        /\ contributed' = [contributed EXCEPT ![c][t] = @ + x]
        /\ UNCHANGED <<activeClaims, claims>>
    BY <1>3 DEF insurance_contribute
  <2>3. pools' \in [Token -> [contributions : Nat, active : Int]]
        /\ \A u \in Token : pools'[u].active = pools[u].active
    BY <2>1, <2>2 DEF InsuranceInv, InsuranceTypeOK
  <2>4. contributed' \in [Party -> [Token -> Int]]
    BY <2>1, <2>2 DEF InsuranceInv, InsuranceTypeOK
  <2> QED
    BY <2>2, <2>3, <2>4 DEF InsuranceInv, InsuranceTypeOK, ClaimsCounted
<1>4. ASSUME NEW c \in Party, NEW t \in Token, NEW x \in Amounts, insurance_submit_claim(c, t, x)
      PROVE  InsuranceInv'
  <2> DEFINE r == [creator |-> c, token |-> t, amount |-> x]
  <2>1. x \in Int
    BY LedgerAssumption
  <2>2. /\ pools' = [pools EXCEPT ![t].active = @ + 1]
        /\ activeClaims' = [activeClaims EXCEPT ![c][t] = @ + 1]
        /\ claims' = Append(claims, r) /\ UNCHANGED contributed
    BY <1>4 DEF insurance_submit_claim
  <2>3. r \in [creator : Party, token : Token, amount : Int]
    BY <2>1
  <2> HIDE DEF r
  <2>4. claims' \in Seq([creator : Party, token : Token, amount : Int])
    BY <2>2, <2>3 DEF InsuranceInv, InsuranceTypeOK
  <2>5. pools' \in [Token -> [contributions : Nat, active : Int]]
        /\ \A u \in Token : pools'[u].active = IF u = t THEN pools[u].active + 1 ELSE pools[u].active
    <3> DEFINE o == pools[t]
               y == pools[t].active + 1
               n == [o EXCEPT !.active = y]
    <3>1. o \in [contributions : Nat, active : Int] /\ y \in Int /\ y = pools[t].active + 1
      BY DEF InsuranceInv, InsuranceTypeOK
    <3>2. pools' = [pools EXCEPT ![t] = n]
      BY <2>2
    <3> HIDE DEF o, y
    <3>3. n \in [contributions : Nat, active : Int] /\ n.active = y
      BY <3>1
    <3> HIDE DEF n
    <3> QED
      BY <3>1, <3>2, <3>3 DEF InsuranceInv, InsuranceTypeOK
  <2>6. activeClaims' \in [Party -> [Token -> Int]]
        /\ \A b \in Party, u \in Token : activeClaims'[b][u] =
             IF b = c /\ u = t THEN activeClaims[b][u] + 1 ELSE activeClaims[b][u]
    <3> DEFINE o == activeClaims[c]
               k == o[t] + 1
               n == [o EXCEPT ![t] = k]
    <3>1. /\ activeClaims \in [Party -> [Token -> Int]] /\ o \in [Token -> Int]
          /\ k \in Int /\ k = activeClaims[c][t] + 1
      BY DEF InsuranceInv, InsuranceTypeOK
    <3>2. activeClaims' = [activeClaims EXCEPT ![c] = n]
      BY <2>2, <3>1
    <3> HIDE DEF k
    <3>3. n \in [Token -> Int] /\ \A u \in Token : n[u] = IF u = t THEN k ELSE activeClaims[c][u]
      BY <3>1
    <3> HIDE DEF o, n
    <3> QED
      BY <3>1, <3>2, <3>3
  <2>7. ASSUME NEW u \in Token
        PROVE  pools'[u].active = SumFunction([b \in Party |-> activeClaims'[b][u]])
    <3> DEFINE f == [b \in Party |-> activeClaims[b][u]]
               g == [b \in Party |-> activeClaims'[b][u]]
    <3>1. f \in [Party -> Int] /\ g \in [Party -> Int]
      BY <2>6 DEF InsuranceInv, InsuranceTypeOK
    <3>2. \A b \in Party : g[b] = IF b = c /\ u = t THEN f[b] + 1 ELSE f[b]
      BY <2>6
    <3>3. pools[u].active = SumFunction(f)
      BY DEF InsuranceInv, ClaimsCounted
    <3> HIDE DEF f, g
    <3>4. SumFunction(g) = SumFunction(f) + g[c] - f[c]
      BY <3>1, <3>2, LedgerAssumption, SumUpdate
    <3>5. SumFunction(f) \in Int
      BY <3>1, LedgerAssumption, SumType
    <3>6. pools'[u].active = SumFunction(g)
      BY <2>5, <3>1, <3>2, <3>3, <3>4, <3>5
    <3> QED
      BY <3>6 DEF g
  <2> QED
    BY <2>2, <2>4, <2>5, <2>6, <2>7 DEF InsuranceInv, InsuranceTypeOK, ClaimsCounted
<1>5. ASSUME NEW p, NEW i \in DOMAIN claims, insurance_approve_claim(p, i)
      PROVE  InsuranceInv'
  <2>1. IsFiniteSet(DOMAIN <<i>>)
    <3>1. DOMAIN <<i>> = 1 .. 1 /\ 1 \in Int
      OBVIOUS
    <3>2. IsFiniteSet(1 .. 1)
      BY <3>1, FS_Interval
    <3> QED
      BY <3>1, <3>2
  <2> QED
    BY <1>5, <2>1, CountedDown DEF insurance_approve_claim
<1>6. ASSUME NEW ids \in (DOMAIN claims) \X (DOMAIN claims), insurance_process_claims_batch(ids)
      PROVE  InsuranceInv'
  <2>1. IsFiniteSet(DOMAIN ids)
    <3>1. DOMAIN ids = 1 .. 2 /\ 1 \in Int /\ 2 \in Int
      OBVIOUS
    <3>2. IsFiniteSet(1 .. 2)
      BY <3>1, FS_Interval
    <3> QED
      BY <3>1, <3>2
  <2> QED
    BY <1>6, <2>1, CountedDown DEF insurance_process_claims_batch
<1>7. /\ \A c : insurance_set_config(c) => UNCHANGED <<pools, contributed, activeClaims, claims>>
      /\ \A n : insurance_set_max_active_claims(n) => UNCHANGED <<pools, contributed, activeClaims, claims>>
      /\ \A p : insurance_set_admin(p) => UNCHANGED <<pools, contributed, activeClaims, claims>>
      /\ \A p, i : insurance_reject_claim(p, i) => UNCHANGED <<pools, contributed, activeClaims, claims>>
      /\ \A t, x : insurance_withdraw_excess(t, x) => UNCHANGED <<pools, contributed, activeClaims, claims>>
  BY DEF insurance_set_config, insurance_set_max_active_claims, insurance_set_admin,
         insurance_reject_claim, insurance_withdraw_excess, insuranceVars
<1>8. Next => InsuranceNext \/ UNCHANGED insuranceVars
  BY StepGroups, Zenon DEF featureVars
<1>9. UNCHANGED jarVars => UNCHANGED insuranceVars
  BY DEF jarVars
<1> QED
  BY <1>1, <1>2, <1>3, <1>4, <1>5, <1>6, <1>7, <1>8, <1>9, Zenon DEF InsuranceNext

\* Theorem: in every behaviour of the jar the entries of the access lists and their
\* index, the locks and the list refunds are made from, the grants and the list of
\* delegates, and the two counters of active claims agree.
THEOREM RegistersStayInStep == JarSpec => []RegistersAgree
<1> DEFINE Inv == /\ now \in 1 .. MaxTime
                  /\ ListsTypeOK /\ ListsAgree
                  /\ GrantsPart
                  /\ TimeLocksPart
                  /\ InsuranceInv
<1>1. Init => Inv
  <2>1. Init => now \in 1 .. MaxTime
    BY LedgerAssumption DEF Init, LedgerInit
  <2> QED
    BY <2>1, ListsStart, GrantsStart, TimeLocksStart, ClaimsStart
<1>2. Inv /\ [Next]_jarVars => Inv'
  BY TimeStep, ListsStep, GrantsStep, TimeLocksStep, ClaimsStep
<1>3. Inv => RegistersAgree
  BY DEF RegistersAgree, GrantsPart, TimeLocksPart, InsuranceInv
<1> QED
  BY <1>1, <1>2, <1>3, PTL DEF JarSpec

-----------------------------------------------------------------------------
\* The configuration: only the admin's calls change it, and none of them takes the terms
\* of the credit away.
ConfigPart == config \in Config /\ PremiumsCapped(config)
TermsStay(k, l) ==
  k.credit # None => l.credit # None

LEMMA ConfigStart ==
  ASSUME Init
  PROVE  ConfigPart
BY AdminAssumption, FundsAssumption DEF Init, LedgerInit, ConfigPart

LEMMA ConfigStep ==
  ASSUME ConfigPart, [Next]_jarVars
  PROVE  ConfigPart' /\ TermsStay(config, config')
<1> USE DEF Set
<1>1. config \in Config /\ PremiumsCapped(config)
  BY DEF ConfigPart
<1>2. CASE UNCHANGED config
  BY <1>1, <1>2 DEF ConfigPart, TermsStay, PremiumsCapped
<1>3. ASSUME NEW t \in Token, add_token(t) \/ remove_token(t)
      PROVE  ConfigPart' /\ TermsStay(config, config')
  <2>1. PICK w \in SUBSET Token : config' = [config EXCEPT !.whitelist = w]
    <3>1. config.whitelist \cup {t} \in SUBSET Token /\ config.whitelist \ {t} \in SUBSET Token
      BY <1>1 DEF Config
    <3> QED
      BY <1>3, <3>1 DEF add_token, remove_token
  <2> QED
    BY <1>1, <2>1 DEF ConfigPart, Config, TermsStay, PremiumsCapped
<1>4. ASSUME NEW x \in MinTips, set_min_tip(x)
      PROVE  ConfigPart' /\ TermsStay(config, config')
  <2>1. config' = [config EXCEPT !.min_tip = x] /\ x \in Int
    BY <1>4, AdminAssumption DEF set_min_tip
  <2> QED
    BY <1>1, <2>1 DEF ConfigPart, Config, TermsStay, PremiumsCapped
<1>5. ASSUME NEW x \in FeeRates, set_fee_bps(x)
      PROVE  ConfigPart' /\ TermsStay(config, config')
  <2>1. config' = [config EXCEPT !.fee_bps = x] /\ x <= MaxFeeBps
    BY <1>5 DEF set_fee_bps
  <2>2. x \in 0 .. MaxFeeBps
    BY <2>1, AdminAssumption
  <2> QED
    BY <1>1, <2>1, <2>2 DEF ConfigPart, Config, TermsStay, PremiumsCapped
<1>6. ASSUME NEW b \in Breakers, set_circuit_breaker_config(b)
      PROVE  ConfigPart' /\ TermsStay(config, config')
  <2>1. config' = [config EXCEPT !.breaker = b] /\ b \in {None} \cup BreakerConfig
    BY <1>6, AdminAssumption DEF set_circuit_breaker_config
  <2> QED
    BY <1>1, <2>1 DEF ConfigPart, Config, TermsStay, PremiumsCapped
<1>7. ASSUME NEW k \in Terms, set_credit_config(k)
      PROVE  ConfigPart' /\ TermsStay(config, config')
  <2>1. config' = [config EXCEPT !.credit = k]
    BY <1>7 DEF set_credit_config
  <2>2. k \in CreditConfig /\ k # None
    BY AdminAssumption
  <2>3. config' \in Config /\ config'.credit = k /\ config'.insurance = config.insurance
    BY <1>1, <2>1, <2>2 DEF Config
  <2> QED
    BY <1>1, <2>2, <2>3 DEF ConfigPart, TermsStay, PremiumsCapped
<1>8. ASSUME NEW on \in BOOLEAN, insurance_set_enabled(on)
      PROVE  ConfigPart' /\ TermsStay(config, config')
  <2>1. config' = [config EXCEPT !.ins_enabled = on]
    BY <1>8 DEF insurance_set_enabled
  <2> QED
    BY <1>1, <2>1 DEF ConfigPart, Config, TermsStay, PremiumsCapped
<1>9. ASSUME NEW c \in Policies, insurance_set_config(c)
      PROVE  ConfigPart' /\ TermsStay(config, config')
  <2>1. /\ c.min >= 0 /\ c.max > c.min /\ c.premium_bps <= MaxPremiumBps
        /\ c.tip_premium_bps <= MaxTipPremium
        /\ config' = [config EXCEPT !.insurance = c]
    BY <1>9 DEF insurance_set_config
  <2>2. c \in InsuranceConfig
    BY <2>1, InsuranceAssumption DEF InsuranceConfig
  <2>3. config' \in Config /\ config'.insurance = c /\ config'.credit = config.credit
    BY <1>1, <2>1, <2>2 DEF Config
  <2> QED
    BY <2>1, <2>3 DEF ConfigPart, TermsStay, PremiumsCapped
<1>10. AdminNext =>
         \/ UNCHANGED config
         \/ \E t \in Token : add_token(t) \/ remove_token(t)
         \/ \E x \in MinTips : set_min_tip(x)
         \/ \E x \in FeeRates : set_fee_bps(x)
         \/ \E b \in Breakers : set_circuit_breaker_config(b)
         \/ \E k \in Terms : set_credit_config(k)
         \/ \E on \in BOOLEAN : insurance_set_enabled(on)
  <2>1. pause \/ unpause \/ trigger_circuit_breaker \/ reset_circuit_breaker => UNCHANGED config
    BY DEF pause, unpause, Switch, trigger_circuit_breaker, reset_circuit_breaker, adminVars
  <2>2. \A s : pause_feature(s) \/ unpause_feature(s) => UNCHANGED config
    BY DEF pause_feature, unpause_feature, Switch
  <2>3. \A t : withdraw_fees(t) => UNCHANGED config
    BY DEF withdraw_fees, adminVars
  <2> QED
    BY <2>1, <2>2, <2>3, Zenon DEF AdminNext
<1>11. CreditNext => UNCHANGED config
  <2>1. \A c, t, x : borrow(c, t, x) \/ repay_credit(c, t, x) => UNCHANGED config
    BY DEF borrow, repay_credit, adminVars
  <2> QED
    BY <2>1, Zenon DEF CreditNext
<1>12. InsuranceNext => UNCHANGED config \/ \E c \in Policies : insurance_set_config(c)
  <2>1. \A n : insurance_set_max_active_claims(n) => UNCHANGED config
    BY DEF insurance_set_max_active_claims, ledgerVars
  <2>2. \A p : insurance_set_admin(p) => UNCHANGED config
    BY DEF insurance_set_admin, ledgerVars
  <2>3. \A p, i : insurance_approve_claim(p, i) \/ insurance_reject_claim(p, i) => UNCHANGED config
    BY DEF insurance_approve_claim, insurance_reject_claim, ledgerVars
  <2>4. \A ids : insurance_process_claims_batch(ids) => UNCHANGED config
    BY DEF insurance_process_claims_batch, ledgerVars
  <2>5. \A t, x : insurance_withdraw_excess(t, x) => UNCHANGED config
    BY DEF insurance_withdraw_excess, adminVars
  <2>6. \A c, t, x : insurance_contribute(c, t, x) \/ insurance_submit_claim(c, t, x) => UNCHANGED config
    BY DEF insurance_contribute, insurance_submit_claim, adminVars, ledgerVars
  <2> QED
    BY <2>1, <2>2, <2>3, <2>4, <2>5, <2>6, Zenon DEF InsuranceNext
<1>13. Tick => UNCHANGED config
  BY DEF Tick, adminVars
<1>14. Next => AdminNext \/ CreditNext \/ InsuranceNext \/ UNCHANGED config
  <2>1. TipStep \/ PayoutStep \/ LockStep \/ AuctionsNext \/ SubscriptionsNext => UNCHANGED config
    BY TipsKeep, PayoutsKeep, LocksKeep, AuctionsKeep, SubscriptionsKeep DEF adminVars
  <2> QED
    BY <1>13, <2>1, StepGroups, Zenon DEF ledgerVars
<1>15. UNCHANGED jarVars => UNCHANGED config
  BY DEF jarVars, ledgerVars
<1> QED
  BY <1>2, <1>3, <1>4, <1>5, <1>6, <1>7, <1>8, <1>9, <1>10, <1>11, <1>12, <1>14, <1>15, Zenon

-----------------------------------------------------------------------------
\* The first circuit breaker: calls count their volume, or the admin halts or resets it.
BreakerPart == breaker \in {None} \cup BreakerStates
\* A call that counts an amount.
Counts == \E x \in Nat : check_circuit_breaker(x) /\ UNCHANGED <<config, now>>

LEMMA BreakerStateType ==
  ASSUME BreakerPart, now \in 1 .. MaxTime
  PROVE  BreakerState \in BreakerStates
BY LedgerAssumption DEF BreakerPart, BreakerState, BreakerStates

LEMMA BreakerEffects ==
  ASSUME SubscriptionsTypeOK, Next
  PROVE  UNCHANGED breaker \/ Counts \/ trigger_circuit_breaker \/ reset_circuit_breaker
<1> USE DEF ledgerVars, adminVars, tipVars
<1>0. Amounts \subseteq Nat /\ Ops \subseteq [creator : Party, token : Token, amount : Int]
  BY LedgerAssumption, TipsAssumption
<1>1. /\ \A c, x : create_milestone(c, x) => UNCHANGED breaker
      /\ \A x : set_offchain_condition(x) => UNCHANGED breaker
      /\ \A c, t, x : tip_private(c, t, x) => UNCHANGED breaker
      /\ \A s, t, i, x : reveal_tip(s, t, i, x) => UNCHANGED breaker
      /\ \A s, ops : batch_tip_v2(s, ops) => UNCHANGED breaker
      /\ \A s, ops : batch_tip_multi(s, ops) => UNCHANGED breaker
  <2>1. \A c, x : create_milestone(c, x) => UNCHANGED breaker
    BY DEF create_milestone
  <2>2. \A x : set_offchain_condition(x) => UNCHANGED breaker
    BY DEF set_offchain_condition
  <2>3. \A c, t, x : tip_private(c, t, x) => UNCHANGED breaker
    BY DEF tip_private
  <2>4. \A s, t, i, x : reveal_tip(s, t, i, x) => UNCHANGED breaker
    BY DEF reveal_tip
  <2>5. \A s, ops : batch_tip_v2(s, ops) => UNCHANGED breaker
    BY DEF batch_tip_v2, InOrder, PaidIn
  <2>6. \A s, ops : batch_tip_multi(s, ops) => UNCHANGED breaker
    BY DEF batch_tip_multi, InOrder, PaidIn
  <2> QED
    BY <2>1, <2>2, <2>3, <2>4, <2>5, <2>6, Zenon
<1>2. ASSUME NEW s, NEW c, NEW t, NEW x \in Amounts, tip(s, c, t, x)
      PROVE  Counts
  BY <1>0, <1>2 DEF tip, Counts
<1>3. ASSUME NEW s, NEW c, NEW t, NEW x \in Amounts, NEW k, tip_with_fee(s, c, t, x, k)
      PROVE  Counts
  BY <1>0, <1>3 DEF tip_with_fee, Counts
<1>4. ASSUME NEW s, NEW c, NEW t, NEW x \in Amounts, tip_with_message(s, c, t, x)
      PROVE  Counts
  BY <1>0, <1>4 DEF tip_with_message, Counts
<1>5. ASSUME NEW s, NEW c, NEW d, NEW t, NEW x \in Amounts, NEW k, tip_split(s, c, d, t, x, k)
      PROVE  Counts
  BY <1>0, <1>5 DEF tip_split, Counts
<1>6. ASSUME NEW s, NEW c, NEW t, NEW x \in Amounts, NEW k, execute_conditional_tip(s, c, t, x, k)
      PROVE  Counts
  BY <1>0, <1>6 DEF execute_conditional_tip, Counts
<1>7. ASSUME NEW s, NEW t, NEW ops \in Batches, batch_tip(s, t, ops)
      PROVE  Counts
  <2> DEFINE sum == InOrder(LAMBDA n, o : n + o.amount, 0, ops)
  <2>0. \A i \in DOMAIN ops : ops[i].amount > 0
    BY <1>7 DEF batch_tip, InOrder
  <2>1. sum \in Nat
    <3>1. CASE \E o \in Ops : ops = <<o>>
      <4>1. PICK o \in Ops : ops = <<o>>
        BY <3>1
      <4>2. Len(ops) = 1 /\ ops[1] = o /\ o.amount \in Nat
        BY <1>0, <2>0, <4>1
      <4> QED
        BY <4>2 DEF InOrder
    <3>2. CASE ops \in Ops \X Ops
      <4>1. Len(ops) = 2 /\ ops[1].amount \in Nat /\ ops[2].amount \in Nat
        BY <1>0, <2>0, <3>2
      <4> QED
        BY <4>1 DEF InOrder
    <3> HIDE DEF sum
    <3> QED
      BY <3>1, <3>2 DEF Batches
  <2>2. check_circuit_breaker(sum)
    BY <1>7, Zenon DEF batch_tip
  <2>3. UNCHANGED <<config, now>>
    BY <1>7 DEF batch_tip, InOrder
  <2> HIDE DEF sum
  <2> QED
    BY <2>1, <2>2, <2>3 DEF Counts
<1>8. TipStep => UNCHANGED breaker \/ Counts
  <2>1. Fund => UNCHANGED breaker
    BY <1>1, Zenon DEF Fund
  <2>2. ASSUME NEW s, NEW c, NEW t, NEW x \in Amounts, OneTipNext(s, c, t, x)
        PROVE  UNCHANGED breaker \/ Counts
    BY <1>1, <1>2, <1>3, <1>4, <1>5, <1>6, <2>2, Zenon DEF OneTipNext
  <2>3. ASSUME NEW s, NEW t, NEW ops \in Batches, BatchNext(s, t, ops)
        PROVE  UNCHANGED breaker \/ Counts
    BY <1>1, <1>7, <2>3, Zenon DEF BatchNext
  <2>4. ASSUME NEW c, (\E goal \in Goals : create_milestone(c, goal))
                      \/ \E ok \in BOOLEAN : set_offchain_condition(ok)
        PROVE  UNCHANGED breaker
    BY <1>1, <2>4, Zenon
  <2>5. TipsNext => UNCHANGED breaker \/ Counts
    BY <2>2, <2>3, <2>4, Zenon DEF TipsNext
  <2> QED
    BY <1>1, <2>1, <2>5, Zenon DEF TipStep
<1>9. LockStep => UNCHANGED breaker \/ Counts
  <2>1. /\ \A c, i : withdraw_vested(c, i) => UNCHANGED breaker
        /\ \A x : set_refund_window(x) => UNCHANGED breaker
        /\ \A c, t, i : withdraw_time_locked(c, t, i) => UNCHANGED breaker
        /\ \A c, t, i : cancel_time_lock(c, t, i) => UNCHANGED breaker
        /\ process_expired_tips => UNCHANGED breaker
        /\ \A s, c, t, x, y : create_stream(s, c, t, x, y) => UNCHANGED breaker
        /\ \A s, i : start_stream(s, i) => UNCHANGED breaker
        /\ \A s, i : stop_stream(s, i) => UNCHANGED breaker
        /\ \A s, i : withdraw_streamed(s, i) => UNCHANGED breaker
        /\ \A s, i : cancel_stream(s, i) => UNCHANGED breaker
        /\ \A s, c, t, x, y : create_time_lock_puzzle(s, c, t, x, y) => UNCHANGED breaker
        /\ \A i, x : solve_time_lock_puzzle(i, x) => UNCHANGED breaker
        /\ \A s, i : cancel_time_lock_puzzle(s, i) => UNCHANGED breaker
    <3>1. \A c, i : withdraw_vested(c, i) => UNCHANGED breaker
      BY DEF withdraw_vested
    <3>2. \A x : set_refund_window(x) => UNCHANGED breaker
      BY DEF set_refund_window
    <3>3. \A c, t, i : withdraw_time_locked(c, t, i) => UNCHANGED breaker
      BY DEF withdraw_time_locked
    <3>4. \A c, t, i : cancel_time_lock(c, t, i) => UNCHANGED breaker
      BY DEF cancel_time_lock
    <3>5. process_expired_tips => UNCHANGED breaker
      BY DEF process_expired_tips
    <3>6. \A s, c, t, x, y : create_stream(s, c, t, x, y) => UNCHANGED breaker
      BY DEF create_stream
    <3>7. \A s, i : start_stream(s, i) => UNCHANGED breaker
      BY DEF start_stream
    <3>8. \A s, i : stop_stream(s, i) => UNCHANGED breaker
      BY DEF stop_stream
    <3>9. \A s, i : withdraw_streamed(s, i) => UNCHANGED breaker
      BY DEF withdraw_streamed
    <3>10. \A s, i : cancel_stream(s, i) => UNCHANGED breaker
      BY DEF cancel_stream
    <3>11. \A s, c, t, x, y : create_time_lock_puzzle(s, c, t, x, y) => UNCHANGED breaker
      BY DEF create_time_lock_puzzle
    <3>12. \A i, x : solve_time_lock_puzzle(i, x) => UNCHANGED breaker
      BY DEF solve_time_lock_puzzle
    <3>13. \A s, i : cancel_time_lock_puzzle(s, i) => UNCHANGED breaker
      BY DEF cancel_time_lock_puzzle
    <3> QED
      BY <3>1, <3>2, <3>3, <3>4, <3>5, <3>6, <3>7, <3>8, <3>9, <3>10, <3>11, <3>12, <3>13, Zenon
  <2>2. ASSUME NEW s, NEW c, NEW t, NEW x \in Amounts, NEW y, NEW z,
               create_vesting_schedule(s, c, t, x, y, z)
        PROVE  Counts
    BY <1>0, <2>2 DEF create_vesting_schedule, Counts
  <2>3. ASSUME NEW s, NEW c, NEW t, NEW x \in Amounts, NEW y, tip_time_locked(s, c, t, x, y)
        PROVE  Counts
    BY <1>0, <2>3 DEF tip_time_locked, Counts
  <2>4. VestingNext \/ TimeLockNext => UNCHANGED breaker \/ Counts
    BY <2>1, <2>2, <2>3, Zenon DEF VestingNext, TimeLockNext
  <2>5. StreamNext \/ PuzzleNext => UNCHANGED breaker
    BY <2>1, Zenon DEF StreamNext, PuzzleNext
  <2> QED
    BY <2>4, <2>5, Zenon DEF LockStep
<1>10. AuctionsNext => UNCHANGED breaker \/ Counts
  <2>1. /\ \A c, t, x, y : create_auction(c, t, x, y) => UNCHANGED breaker
        /\ \A c, i : settle_auction(c, i) => UNCHANGED breaker
    <3>1. \A c, t, x, y : create_auction(c, t, x, y) => UNCHANGED breaker
      BY DEF create_auction
    <3>2. \A c, i : settle_auction(c, i) => UNCHANGED breaker
      BY DEF settle_auction
    <3> QED
      BY <3>1, <3>2, Zenon
  <2>2. ASSUME NEW p, NEW i, NEW x \in Amounts, place_bid(p, i, x)
        PROVE  Counts
    BY <1>0, <2>2 DEF place_bid, Counts
  <2> QED
    BY <2>1, <2>2, Zenon DEF AuctionsNext
<1>11. SubscriptionsNext => UNCHANGED breaker \/ Counts
  <2>1. /\ \A k, x : set_tier_config(k, x) => UNCHANGED breaker
        /\ \A s, c, k : downgrade_subscription(s, c, k) => UNCHANGED breaker
        /\ \A s, c : pause_subscription(s, c) => UNCHANGED breaker
        /\ \A s, c : resume_subscription(s, c) => UNCHANGED breaker
        /\ \A s, c : cancel_subscription(s, c) => UNCHANGED breaker
    <3>1. \A k, x : set_tier_config(k, x) => UNCHANGED breaker
      BY DEF set_tier_config
    <3>2. \A s, c, k : downgrade_subscription(s, c, k) => UNCHANGED breaker
      BY DEF downgrade_subscription
    <3>3. \A s, c : pause_subscription(s, c) => UNCHANGED breaker
      BY DEF pause_subscription
    <3>4. \A s, c : resume_subscription(s, c) => UNCHANGED breaker
      BY DEF resume_subscription
    <3>5. \A s, c : cancel_subscription(s, c) => UNCHANGED breaker
      BY DEF cancel_subscription
    <3> QED
      BY <3>1, <3>2, <3>3, <3>4, <3>5, Zenon
  <2>2. ASSUME NEW s, NEW c, NEW t, NEW x \in Amounts, NEW y, create_subscription(s, c, t, x, y)
        PROVE  Counts
    BY <1>0, <2>2 DEF create_subscription, Counts
  <2>3. \A k \in Tier : tiers[k] # None => tiers[k] \in Nat
    BY DEF SubscriptionsTypeOK
  <2>4. ASSUME NEW s, NEW c, NEW t, NEW k \in Tier, NEW y, create_tiered_subscription(s, c, t, k, y)
        PROVE  Counts
    BY <2>3, <2>4 DEF create_tiered_subscription, Counts
  <2>5. ASSUME NEW s, NEW c, NEW k \in Tier, upgrade_subscription(s, c, k)
        PROVE  Counts
    BY <2>3, <2>5 DEF upgrade_subscription, Counts
  <2>6. ASSUME NEW s \in Party, NEW c \in Party, execute_subscription_payment(s, c)
        PROVE  Counts
    <3>1. subs[s][c] # None /\ check_circuit_breaker(subs[s][c].amount) /\ UNCHANGED <<config, now>>
      BY <2>6 DEF execute_subscription_payment, Subscribed
    <3>2. subs[s][c] \in Subscription
      BY <3>1 DEF SubscriptionsTypeOK
    <3>3. subs[s][c].amount \in Nat
      BY <3>2 DEF Subscription
    <3> QED
      BY <3>1, <3>3 DEF Counts
  <2> QED
    BY <2>1, <2>2, <2>4, <2>5, <2>6, Zenon DEF SubscriptionsNext
<1>12. AdminNext \/ CreditNext =>
         UNCHANGED breaker \/ trigger_circuit_breaker \/ reset_circuit_breaker
  <2>1. /\ \A t : add_token(t) => UNCHANGED breaker
        /\ \A t : remove_token(t) => UNCHANGED breaker
        /\ \A t : withdraw_fees(t) => UNCHANGED breaker
        /\ \A x : set_min_tip(x) => UNCHANGED breaker
        /\ \A x : set_fee_bps(x) => UNCHANGED breaker
        /\ \A x : set_circuit_breaker_config(x) => UNCHANGED breaker
        /\ \A x : set_credit_config(x) => UNCHANGED breaker
        /\ \A x : insurance_set_enabled(x) => UNCHANGED breaker
        /\ pause => UNCHANGED breaker
        /\ unpause => UNCHANGED breaker
        /\ \A x : pause_feature(x) => UNCHANGED breaker
        /\ \A x : unpause_feature(x) => UNCHANGED breaker
    <3>1. \A t : add_token(t) => UNCHANGED breaker
      BY DEF add_token, Set
    <3>2. \A t : remove_token(t) => UNCHANGED breaker
      BY DEF remove_token, Set
    <3>3. \A t : withdraw_fees(t) => UNCHANGED breaker
      BY DEF withdraw_fees
    <3>4. \A x : set_min_tip(x) => UNCHANGED breaker
      BY DEF set_min_tip, Set
    <3>5. \A x : set_fee_bps(x) => UNCHANGED breaker
      BY DEF set_fee_bps, Set
    <3>6. \A x : set_circuit_breaker_config(x) => UNCHANGED breaker
      BY DEF set_circuit_breaker_config, Set
    <3>7. \A x : set_credit_config(x) => UNCHANGED breaker
      BY DEF set_credit_config, Set
    <3>8. \A x : insurance_set_enabled(x) => UNCHANGED breaker
      BY DEF insurance_set_enabled, Set
    <3>9. pause => UNCHANGED breaker
      BY DEF pause, Switch
    <3>10. unpause => UNCHANGED breaker
      BY DEF unpause, Switch
    <3>11. \A x : pause_feature(x) => UNCHANGED breaker
      BY DEF pause_feature, Switch
    <3>12. \A x : unpause_feature(x) => UNCHANGED breaker
      BY DEF unpause_feature, Switch
    <3> QED
      BY <3>1, <3>2, <3>3, <3>4, <3>5, <3>6, <3>7, <3>8, <3>9, <3>10, <3>11, <3>12, Zenon
  <2>2. \A c, t, x : borrow(c, t, x) \/ repay_credit(c, t, x) => UNCHANGED breaker
    BY DEF borrow, repay_credit
  <2> QED
    BY <2>1, <2>2, Zenon DEF AdminNext, CreditNext
<1>13. Tick => UNCHANGED breaker
  BY DEF Tick
<1>14. PayoutStep \/ InsuranceNext => UNCHANGED breaker
  BY PayoutsKeep, InsuranceKeeps
<1>15. UNCHANGED ledgerVars => UNCHANGED breaker
  BY DEF ledgerVars
<1> HIDE DEF ledgerVars, adminVars, tipVars
<1> QED
  BY <1>8, <1>9, <1>10, <1>11, <1>12, <1>13, <1>14, <1>15, StepGroups, Zenon

LEMMA BreakerStep ==
  ASSUME BreakerPart, ConfigPart, SubscriptionsTypeOK, now \in 1 .. MaxTime, [Next]_jarVars
  PROVE  /\ BreakerPart'
         /\ (breaker' # None /\ breaker'.volume > BreakerState.volume)
              => breaker'.volume <= Larger(config.breaker.max_volume, config.breaker.max_single)
<1> DEFINE Capped == (breaker' # None /\ breaker'.volume > BreakerState.volume)
              => breaker'.volume <= Larger(config.breaker.max_volume, config.breaker.max_single)
           Grown == breaker' # None /\ breaker'.volume > BreakerState.volume
           s == BreakerState
<1>1. s \in BreakerStates /\ s.volume \in Nat /\ s.start \in Int /\ now \in Int
  BY BreakerStateType, LedgerAssumption DEF BreakerStates
<1>2. UNCHANGED breaker => BreakerPart' /\ ~Grown
  BY <1>1 DEF BreakerPart, BreakerState
<1>3. ASSUME NEW x \in Nat, check_circuit_breaker(x), ~UNCHANGED breaker
      PROVE  BreakerPart' /\ Capped
  <2> DEFINE cfg == config.breaker
             fresh == now >= s.start + cfg.window
             v == IF fresh THEN x ELSE s.volume + x
             b == IF fresh THEN now ELSE s.start
             n == [s EXCEPT !.start = b, !.volume = v]
  <2>1. /\ cfg # None /\ x <= cfg.max_single
        /\ fresh \/ v <= cfg.max_volume
        /\ breaker' = n
    BY <1>3 DEF check_circuit_breaker
  <2>2. cfg \in BreakerConfig
    BY <2>1 DEF ConfigPart, Config
  <2>3. cfg.max_single \in Int /\ cfg.max_volume \in Int
    BY <2>2 DEF BreakerConfig
  <2>4. v \in Nat /\ b \in Int /\ v <= Larger(cfg.max_volume, cfg.max_single)
    BY <1>1, <2>1, <2>3 DEF Larger
  <2> HIDE DEF s, v, b
  <2>5. n \in BreakerStates /\ n.volume = v
    BY <1>1, <2>4 DEF BreakerStates
  <2> QED
    BY <2>1, <2>4, <2>5 DEF BreakerPart
<1>4. ASSUME trigger_circuit_breaker
      PROVE  BreakerPart' /\ ~Grown
  <2> DEFINE h == now + config.breaker.cooldown
             k == s.trips + 1
             n == [s EXCEPT !.halted_until = h, !.trips = k]
  <2>1. config.breaker # None /\ breaker' = n
    BY <1>4 DEF trigger_circuit_breaker
  <2>2. config.breaker \in BreakerConfig
    BY <2>1 DEF ConfigPart, Config
  <2>3. config.breaker.cooldown \in Int
    BY <2>2 DEF BreakerConfig
  <2> HIDE DEF s
  <2>4. h \in Int /\ k \in Int
    BY <1>1, <2>3 DEF BreakerStates
  <2> HIDE DEF h, k
  <2>5. n \in BreakerStates /\ n.volume = s.volume
    BY <1>1, <2>4 DEF BreakerStates
  <2> QED
    BY <1>1, <2>1, <2>5 DEF BreakerPart, s
<1>5. ASSUME reset_circuit_breaker
      PROVE  BreakerPart' /\ Capped
  <2>1. breaker # None /\ breaker' = [breaker EXCEPT !.halted_until = 0, !.volume = 0, !.start = now]
    BY <1>5 DEF reset_circuit_breaker
  <2>2. breaker = s /\ breaker \in BreakerStates
    BY <1>1, <2>1 DEF BreakerState
  <2>3. breaker' \in BreakerStates /\ breaker'.volume = 0
    <3> DEFINE o == breaker
    <3>0. o \in BreakerStates
      BY <2>2
    <3>1. now \in Int /\ 0 \in Int /\ 0 \in Nat
      BY <1>1
    <3> HIDE DEF o
    <3>2. [o EXCEPT !.halted_until = 0, !.volume = 0, !.start = now] \in BreakerStates
      BY <3>0, <3>1 DEF BreakerStates
    <3>3. [o EXCEPT !.halted_until = 0, !.volume = 0, !.start = now].volume = 0
      BY <3>0 DEF BreakerStates
    <3> QED
      BY <2>1, <3>2, <3>3 DEF o
  <2> HIDE DEF s
  <2> QED
    BY <1>1, <2>3 DEF BreakerPart, s
<1>6. UNCHANGED jarVars => UNCHANGED breaker
  BY DEF jarVars, ledgerVars
<1> QED
  BY <1>2, <1>3, <1>4, <1>5, <1>6, BreakerEffects, Zenon DEF Counts

LEMMA BreakerStart ==
  ASSUME Init
  PROVE  BreakerPart
BY DEF Init, LedgerInit, BreakerPart

\* Theorem: whatever the calls and however the admin changes the limits in between, a
\* window of the breaker lets through no more than the larger of the two limits in
\* force, and nobody pulls the payments of a subscription faster than its subscriber
\* allowed.
THEOREM RatesStayLimited == JarSpec => RatesLimited
<1> DEFINE Inv == /\ now \in 1 .. MaxTime
                  /\ ConfigPart
                  /\ BreakerPart
                  /\ SubscriptionsInv
           Capped == (breaker' # None /\ breaker'.volume > BreakerState.volume)
              => breaker'.volume <= Larger(config.breaker.max_volume, config.breaker.max_single)
           Spaced == \A s, c \in Party :
              (subs[s][c] # None /\ subs'[s][c].pulls > subs[s][c].pulls)
                => \/ now >= subs[s][c].last + subs[s][c].interval
                   \/ subs[s][c].granted >= subs[s][c].last
<1>1. Init => Inv
  <2>1. Init => now \in 1 .. MaxTime
    BY LedgerAssumption DEF Init, LedgerInit
  <2> QED
    BY <2>1, ConfigStart, BreakerStart, SubscriptionsStart
<1>2. Inv => SubscriptionsTypeOK
  BY DEF SubscriptionsInv
<1>3. Inv /\ [Next]_jarVars => Inv'
  BY <1>2, TimeStep, ConfigStep, BreakerStep, SubscriptionsStep
<1>4. Inv /\ [Next]_jarVars => [Capped]_breaker
  BY <1>2, BreakerStep
<1>5. Inv /\ [Next]_jarVars => [Spaced]_subs
  BY SubscriptionsStep DEF Allowed
<1>6. JarSpec => [][Capped]_breaker /\ [][Spaced]_subs
  BY <1>1, <1>3, <1>4, <1>5, PTL DEF JarSpec
<1> QED
  BY <1>6 DEF RatesLimited, VolumeCapped, PullsSpaced

-----------------------------------------------------------------------------
\* The token accounts.
LEMMA Transferred ==
  ASSUME NEW w \in Wallets, NEW t \in Token, NEW from \in Account, NEW to \in Account,
         NEW x \in Int
  PROVE  /\ Transfer(w, t, from, to, x) \in Wallets
         /\ \A u \in Token, a \in Account : Transfer(w, t, from, to, x)[u][a] =
              IF u # t THEN w[u][a]
              ELSE w[u][a] - (IF a = from THEN x ELSE 0) + (IF a = to THEN x ELSE 0)
<1> DEFINE row == w[t]
           new == [a \in Account |-> row[a] - (IF a = from THEN x ELSE 0)
                                            + (IF a = to THEN x ELSE 0)]
           v == [w EXCEPT ![t] = new]
<1>1. row \in [Account -> Int]
  BY DEF Wallets
<1>2. new \in [Account -> Int]
  BY <1>1
<1>3. Transfer(w, t, from, to, x) = v
  BY <1>1 DEF Transfer
<1>4. v \in Wallets /\ \A u \in Token : v[u] = IF u = t THEN new ELSE w[u]
  <2> HIDE DEF new
  <2> QED
    BY <1>2 DEF Wallets
<1> HIDE DEF v
<1>5. \A a \in Account : new[a] = w[t][a] - (IF a = from THEN x ELSE 0)
                                          + (IF a = to THEN x ELSE 0)
  OBVIOUS
<1> HIDE DEF new
<1> QED
  BY <1>3, <1>4, <1>5

\* What a transfer means for the jar.
LEMMA PaidToJar ==
  ASSUME NEW w \in Wallets, NEW t \in Token, NEW s \in Party, NEW x \in Int
  PROVE  /\ Transfer(w, t, s, Jar, x) \in Wallets
         /\ \A u \in Token :
              Transfer(w, t, s, Jar, x)[u][Jar] = w[u][Jar] + (IF u = t THEN x ELSE 0)
<1>1. s \in Account /\ Jar \in Account /\ s # Jar
  BY LedgerAssumption DEF Account
<1>2. \A u \in Token : w[u][Jar] \in Int
  BY <1>1 DEF Wallets
<1> DEFINE v == Transfer(w, t, s, Jar, x)
<1>3. /\ v \in Wallets
      /\ \A u \in Token, a \in Account : v[u][a] =
           IF u # t THEN w[u][a]
           ELSE w[u][a] - (IF a = s THEN x ELSE 0) + (IF a = Jar THEN x ELSE 0)
  BY <1>1, Transferred
<1> HIDE DEF v
<1>4. ASSUME NEW u \in Token PROVE v[u][Jar] = w[u][Jar] + (IF u = t THEN x ELSE 0)
  BY <1>1, <1>2, <1>3
<1> QED
  BY <1>3, <1>4 DEF v

LEMMA PaidByJar ==
  ASSUME NEW w \in Wallets, NEW t \in Token, NEW c \in Party, NEW x \in Int
  PROVE  /\ Transfer(w, t, Jar, c, x) \in Wallets
         /\ \A u \in Token :
              Transfer(w, t, Jar, c, x)[u][Jar] = w[u][Jar] - (IF u = t THEN x ELSE 0)
<1>1. c \in Account /\ Jar \in Account /\ c # Jar
  BY LedgerAssumption DEF Account
<1>2. \A u \in Token : w[u][Jar] \in Int
  BY <1>1 DEF Wallets
<1> DEFINE v == Transfer(w, t, Jar, c, x)
<1>3. /\ v \in Wallets
      /\ \A u \in Token, a \in Account : v[u][a] =
           IF u # t THEN w[u][a]
           ELSE w[u][a] - (IF a = Jar THEN x ELSE 0) + (IF a = c THEN x ELSE 0)
  BY <1>1, Transferred
<1> HIDE DEF v
<1>4. ASSUME NEW u \in Token PROVE v[u][Jar] = w[u][Jar] - (IF u = t THEN x ELSE 0)
  BY <1>1, <1>2, <1>3
<1> QED
  BY <1>3, <1>4 DEF v

LEMMA PaidAside ==
  ASSUME NEW w \in Wallets, NEW t \in Token, NEW s \in Party, NEW c \in Party, NEW x \in Int
  PROVE  /\ Transfer(w, t, s, c, x) \in Wallets
         /\ \A u \in Token : Transfer(w, t, s, c, x)[u][Jar] = w[u][Jar]
<1>1. s \in Account /\ c \in Account /\ Jar \in Account /\ s # Jar /\ c # Jar
  BY LedgerAssumption DEF Account
<1>2. \A u \in Token : w[u][Jar] \in Int
  BY <1>1 DEF Wallets
<1> DEFINE v == Transfer(w, t, s, c, x)
<1>3. /\ v \in Wallets
      /\ \A u \in Token, a \in Account : v[u][a] =
           IF u # t THEN w[u][a]
           ELSE w[u][a] - (IF a = s THEN x ELSE 0) + (IF a = c THEN x ELSE 0)
  BY <1>1, Transferred
<1> HIDE DEF v
<1>4. ASSUME NEW u \in Token PROVE v[u][Jar] = w[u][Jar]
  BY <1>1, <1>2, <1>3
<1> QED
  BY <1>3, <1>4 DEF v

-----------------------------------------------------------------------------
\* The books.  What they record follows the balances, the fees and the reserves.
Balances == [Party -> [Token -> Int]]
Credits == [Party -> [Token -> {None} \cup Loan]]
\* What balances owe in a token.
OwedIn(f, t) == SumFunction([p \in Party |-> f[p][t]])
\* Balances g are f after y more for c in t.
Moved(f, g, c, t, y) ==
  \A p \in Party, u \in Token : g[p][u] = f[p][u] + (IF p = c /\ u = t THEN y ELSE 0)
\* The same for an amount per token.
Raised(f, g, t, y) == \A u \in Token : g[u] = f[u] + (IF u = t THEN y ELSE 0)

Plus(f, c, t, y) == [f EXCEPT ![c][t] = f[c][t] + y]
LEMMA PlusMoves ==
  ASSUME NEW f \in Balances, NEW c \in Party, NEW t \in Token, NEW y \in Int
  PROVE  Plus(f, c, t, y) \in Balances /\ Moved(f, Plus(f, c, t, y), c, t, y)
BY DEF Balances, Moved, Plus

LEMMA SumOfBalances ==
  ASSUME NEW f \in Balances, NEW g \in Balances, NEW c \in Party, NEW t \in Token, NEW y \in Int,
         Moved(f, g, c, t, y), NEW u \in Token
  PROVE  /\ OwedIn(f, u) \in Int
         /\ OwedIn(g, u) = OwedIn(f, u) + (IF u = t THEN y ELSE 0)
<1> DEFINE F == [p \in Party |-> f[p][u]]
           G == [p \in Party |-> g[p][u]]
<1>1. F \in [Party -> Int] /\ G \in [Party -> Int]
  BY DEF Balances
<1>2. \A p \in Party : G[p] = F[p] + (IF p = c /\ u = t THEN y ELSE 0)
  BY DEF Moved
<1> HIDE DEF F, G
<1>3. \A p \in Party \ {c} : G[p] = F[p]
  BY <1>1, <1>2
<1>4. SumFunction(G) = SumFunction(F) + G[c] - F[c]
  BY <1>1, <1>3, LedgerAssumption, SumUpdate
<1>5. SumFunction(F) \in Int
  BY <1>1, LedgerAssumption, SumType
<1>6. SumFunction(G) = SumFunction(F) + (IF u = t THEN y ELSE 0)
  BY <1>1, <1>2, <1>4, <1>5
<1> QED
  BY <1>5, <1>6 DEF F, G, OwedIn

\* A call that changes one balance, and the fees and the reserves of one token.
LEMMA RecordedChange ==
  ASSUME NEW b \in Books, NEW n \in Books, NEW c \in Party, NEW t \in Token,
         NEW x \in Int, NEW f \in Int, NEW r \in Int,
         Moved(b.balance, n.balance, c, t, x), Raised(b.fees, n.fees, t, f),
         Raised(b.reserves, n.reserves, t, r)
  PROVE  \A u \in Token :
           /\ RecordedIn(b, u) \in Int
           /\ RecordedIn(n, u) = RecordedIn(b, u) + (IF u = t THEN x + f + r ELSE 0)
<1>1. b.balance \in Balances /\ b.fees \in [Token -> Int] /\ b.reserves \in [Token -> Int]
  BY DEF Books, Balances
<1> DEFINE f0 == b.balance
           g0 == n.balance
<1>2. f0 \in Balances /\ g0 \in Balances /\ Moved(f0, g0, c, t, x)
  BY DEF Books, Balances
<1> HIDE DEF f0, g0
<1> SUFFICES ASSUME NEW u \in Token
             PROVE  /\ RecordedIn(b, u) \in Int
                    /\ RecordedIn(n, u) = RecordedIn(b, u) + (IF u = t THEN x + f + r ELSE 0)
  OBVIOUS
<1> DEFINE F == OwedIn(f0, u)
           G == OwedIn(g0, u)
<1>3. F \in Int /\ G = F + (IF u = t THEN x ELSE 0)
  BY <1>2, SumOfBalances
<1>4. /\ b.fees[u] \in Int /\ b.reserves[u] \in Int
      /\ n.fees[u] = b.fees[u] + (IF u = t THEN f ELSE 0)
      /\ n.reserves[u] = b.reserves[u] + (IF u = t THEN r ELSE 0)
  BY <1>1 DEF Raised
<1>5. /\ RecordedIn(b, u) = F + b.fees[u] + b.reserves[u]
      /\ RecordedIn(n, u) = G + n.fees[u] + n.reserves[u]
  BY DEF RecordedIn, OwedIn, f0, g0
<1> HIDE DEF F, G
<1> QED
  BY <1>3, <1>4, <1>5

-----------------------------------------------------------------------------
\* The loans.  LoanSound of a at a time n, under a configuration k.
LoanAt(a, n, k) ==
  /\ a.principal \in 0 .. a.borrowed
  /\ a.interest \in 0 .. a.charged
  /\ a.updated <= n
  /\ a.principal + a.interest + a.repaid = a.borrowed + a.charged
  /\ k.credit # None
LoansAt(cr, n, k) ==
  \A c \in Party, t \in Token : cr[c][t] # None => LoanAt(cr[c][t], n, k)

LEMMA LoansSoundIs == LoansSound <=> LoansAt(books.credit, now, config)
BY DEF LoansSound, LoanSound, LoansAt, LoanAt

LEMMA LoansPay == LoansSound => DebtAccounted
BY DEF LoansSound, LoanSound, DebtAccounted

LEMMA LoansLater ==
  ASSUME NEW cr \in Credits, NEW n \in Nat, NEW m \in Nat, n <= m, NEW k, NEW l,
         LoansAt(cr, n, k), TermsStay(k, l)
  PROVE  LoansAt(cr, m, l)
<1> SUFFICES ASSUME NEW c \in Party, NEW t \in Token, cr[c][t] # None
             PROVE  LoanAt(cr[c][t], m, l)
  BY DEF LoansAt
<1> DEFINE a == cr[c][t]
<1>1. a \in Loan /\ LoanAt(a, n, k)
  BY DEF Credits, LoansAt
<1> HIDE DEF a
<1>2. a.updated \in Int
  BY <1>1 DEF Loan
<1>3. LoanAt(a, m, l)
  BY <1>1, <1>2 DEF LoanAt, TermsStay
<1> QED
  BY <1>3 DEF a

\* What is a share of a natural amount.
LEMMA Portion ==
  ASSUME NEW a \in Nat, NEW u \in Nat \ {0}
  PROVE  a \div u \in Nat
OBVIOUS
LEMMA Product ==
  ASSUME NEW a \in Nat, NEW b \in Nat
  PROVE  a * b \in Nat
OBVIOUS

LEMMA Accrued ==
  ASSUME ConfigPart, now \in 1 .. MaxTime, NEW a \in Loan, LoanAt(a, now, config)
  PROVE  /\ accrue_interest(a) \in Loan
         /\ LoanAt(accrue_interest(a), now, config)
<1> DEFINE r == config.credit.rate
           z == config.credit.unit
           d == now - a.updated
           k == (a.principal * r * d) \div z
           i == a.interest + k
           w == IF a.principal = 0 THEN a.updated ELSE now
           h == a.charged + k
           n == [a EXCEPT !.interest = i, !.charged = h, !.updated = w]
<1>1. accrue_interest(a) = n
  BY DEF accrue_interest
<1>2. config.credit \in CreditConfig
  BY DEF LoanAt, ConfigPart, Config
<1>3. r \in Nat /\ z \in Nat \ {0}
  BY <1>2 DEF CreditConfig
<1>4. /\ a.principal \in Int /\ a.interest \in Int /\ a.repaid \in Int /\ a.borrowed \in Int
      /\ a.updated \in Int /\ a.charged \in Int /\ now \in Nat
  BY LedgerAssumption DEF Loan
<1>5. a.principal \in Nat /\ d \in Nat
  BY <1>4 DEF LoanAt
<1>6. k \in Nat
  <2> HIDE DEF r, z, d
  <2>1. a.principal * r \in Nat
    BY <1>3, <1>5, Product
  <2>2. a.principal * r * d \in Nat
    BY <1>5, <2>1, Product
  <2> QED
    BY <1>3, <2>2, Portion
<1> HIDE DEF k, d
<1>7. /\ i \in Int /\ w \in Int /\ w <= now /\ i = a.interest + k
      /\ h \in Int /\ h = a.charged + k
  BY <1>4, <1>6 DEF LoanAt
<1> HIDE DEF i, w, h
<1>8. /\ n \in Loan /\ n.interest = i /\ n.updated = w /\ n.principal = a.principal
      /\ n.borrowed = a.borrowed /\ n.repaid = a.repaid /\ n.charged = h
  BY <1>7 DEF Loan
<1> HIDE DEF n
<1>9. LoanAt(n, now, config)
  BY <1>4, <1>6, <1>7, <1>8 DEF LoanAt
<1> QED
  BY <1>1, <1>8, <1>9

LEMMA SettledSound ==
  ASSUME now \in 1 .. MaxTime, NEW a \in Loan, LoanAt(a, now, config),
         NEW x \in Nat, x <= a.principal + a.interest
  PROVE  Settled(a, x) \in Loan /\ LoanAt(Settled(a, x), now, config)
<1> DEFINE s == Smaller(x, a.interest)
           i == a.interest - s
           p == a.principal - (x - s)
           r == a.repaid + x
           n == [a EXCEPT !.interest = i, !.principal = p, !.repaid = r, !.updated = now]
<1>1. Settled(a, x) = n
  BY DEF Settled
<1>2. /\ a.principal \in Int /\ a.interest \in Int /\ a.repaid \in Int /\ a.borrowed \in Int
      /\ a.updated \in Int /\ a.charged \in Int /\ now \in Int
  BY LedgerAssumption DEF Loan
<1>3. /\ i \in Int /\ p \in Int /\ r \in Int
      /\ i >= 0 /\ i <= a.interest /\ p >= 0 /\ p <= a.principal
      /\ p + i + r = a.principal + a.interest + a.repaid
  BY <1>2 DEF Smaller, LoanAt
<1> HIDE DEF i, p, r
<1>4. /\ n \in Loan /\ n.interest = i /\ n.updated = now /\ n.principal = p
      /\ n.borrowed = a.borrowed /\ n.repaid = r /\ n.charged = a.charged
  BY <1>2, <1>3 DEF Loan
<1> HIDE DEF n
<1>5. LoanAt(n, now, config)
  BY <1>2, <1>3, <1>4 DEF LoanAt
<1> QED
  BY <1>1, <1>4, <1>5

\* What a payment to a creator keeps back, and the loans after it.
LEMMA Repaid ==
  ASSUME ConfigPart, now \in 1 .. MaxTime, NEW cr \in Credits, LoansAt(cr, now, config),
         NEW c \in Party, NEW t \in Token, NEW x \in Nat
  PROVE  /\ Repayment(cr, c, t, x) \in Nat
         /\ AfterRepayment(cr, c, t, x) \in Credits
         /\ LoansAt(AfterRepayment(cr, c, t, x), now, config)
<1> DEFINE a == cr[c][t]
           due == accrue_interest(a)
           share == (x * config.credit.share) \div Bps
           paid == Repayment(cr, c, t, x)
<1>1. CASE ~CreditEnabled \/ a = None
  <2>1. paid = 0
    BY <1>1 DEF Repayment
  <2> QED
    BY <2>1 DEF AfterRepayment
<1>2. CASE CreditEnabled /\ a # None
  <2>1. a \in Loan /\ LoanAt(a, now, config)
    BY <1>2 DEF Credits, LoansAt
  <2>2. due \in Loan /\ LoanAt(due, now, config)
    <3> HIDE DEF a
    <3> QED
      BY <2>1, Accrued
  <2>3. config.credit \in CreditConfig
    BY <1>2 DEF CreditEnabled, ConfigPart, Config
  <2>4. share \in Nat
    <3>1. config.credit.share \in Nat
      BY <2>3 DEF CreditConfig
    <3> DEFINE f == config.credit.share
    <3> HIDE DEF f
    <3>2. f \in Nat /\ x * f \in Nat
      BY <3>1, Product DEF f
    <3>3. (x * f) \div Bps \in Nat
      BY <3>2, LedgerAssumption, Portion
    <3> QED
      BY <3>3 DEF f
  <2>5. paid = IF a.principal = 0 /\ a.interest = 0 THEN 0
               ELSE Smaller(share, due.principal + due.interest)
    BY <1>2 DEF Repayment
  <2>6. AfterRepayment(cr, c, t, x) = IF paid = 0 THEN cr
          ELSE [cr EXCEPT ![c] = [cr[c] EXCEPT ![t] = Settled(due, paid)]]
    BY DEF AfterRepayment
  <2> HIDE DEF share, due, paid
  <2>7. due.principal \in Nat /\ due.interest \in Nat
    BY <2>2 DEF Loan, LoanAt
  <2>8. paid \in Nat /\ paid <= due.principal + due.interest
    BY <2>4, <2>5, <2>7 DEF Smaller
  <2> DEFINE n == Settled(due, paid)
             g == [cr[c] EXCEPT ![t] = n]
             cs == [cr EXCEPT ![c] = g]
  <2>9. n \in Loan /\ LoanAt(n, now, config)
    BY <2>2, <2>8, SettledSound
  <2> HIDE DEF n
  <2>10. g \in [Token -> {None} \cup Loan] /\ \A u \in Token : g[u] = IF u = t THEN n ELSE cr[c][u]
    BY <2>9 DEF Credits
  <2> HIDE DEF g
  <2>11. cs \in Credits /\ \A p \in Party : cs[p] = IF p = c THEN g ELSE cr[p]
    BY <2>10 DEF Credits
  <2> HIDE DEF cs
  <2>12. LoansAt(cs, now, config)
    BY <2>9, <2>10, <2>11 DEF LoansAt
  <2>13. AfterRepayment(cr, c, t, x) = IF paid = 0 THEN cr ELSE cs
    BY <2>6 DEF n, g, cs
  <2> QED
    BY <2>8, <2>11, <2>12, <2>13 DEF paid
<1> QED
  BY <1>1, <1>2

-----------------------------------------------------------------------------
\* Books whose loans are sound, and books n that record y more in t than b, r of it in
\* the reserves.
Good(b) == b \in Books /\ LoansAt(b.credit, now, config)
Recording(b, n, t, y, r) ==
  /\ Good(n)
  /\ \A u \in Token : /\ RecordedIn(b, u) \in Int
                      /\ RecordedIn(n, u) = RecordedIn(b, u) + (IF u = t THEN y ELSE 0)
  /\ Raised(b.reserves, n.reserves, t, r)

\* An update of the fields of the books that have a part in the records.
Posted(b, c, t, x, m, f, r, cr) ==
  [b EXCEPT !.balance[c][t] = b.balance[c][t] + x, !.total[c][t] = b.total[c][t] + m,
            !.fees[t] = b.fees[t] + f, !.reserves[t] = b.reserves[t] + r, !.credit = cr]
LEMMA PostedSound ==
  ASSUME NEW b, b \in Books, NEW c \in Party, NEW t \in Token,
         NEW x \in Int, NEW m \in Int, NEW f \in Int, NEW r \in Int,
         NEW cr \in Credits, LoansAt(cr, now, config)
  PROVE  Recording(b, Posted(b, c, t, x, m, f, r, cr), t, x + f + r, r)
<1> DEFINE bal == [b.balance EXCEPT ![c][t] = b.balance[c][t] + x]
           tot == [b.total EXCEPT ![c][t] = b.total[c][t] + m]
           fee == [b.fees EXCEPT ![t] = b.fees[t] + f]
           res == [b.reserves EXCEPT ![t] = b.reserves[t] + r]
           n == [b EXCEPT !.balance = bal, !.total = tot, !.fees = fee, !.reserves = res, !.credit = cr]
<1>1. /\ b.balance \in Balances /\ b.total \in Balances
      /\ b.fees \in [Token -> Int] /\ b.reserves \in [Token -> Int]
  BY DEF Books, Balances
<1>2. bal \in Balances /\ Moved(b.balance, bal, c, t, x)
  BY <1>1 DEF Balances, Moved
<1>3. tot \in Balances
  BY <1>1 DEF Balances
<1>4. /\ fee \in [Token -> Int] /\ Raised(b.fees, fee, t, f)
      /\ res \in [Token -> Int] /\ Raised(b.reserves, res, t, r)
  BY <1>1 DEF Raised
<1> HIDE DEF bal, tot, fee, res
<1>5. /\ n \in Books /\ n.balance = bal /\ n.fees = fee /\ n.reserves = res /\ n.credit = cr
  BY <1>2, <1>3, <1>4 DEF Books, Balances, Credits
<1> HIDE DEF n
<1>6. \A u \in Token : /\ RecordedIn(b, u) \in Int
                       /\ RecordedIn(n, u) = RecordedIn(b, u) + (IF u = t THEN x + f + r ELSE 0)
  BY <1>2, <1>4, <1>5, RecordedChange
<1>7. Recording(b, n, t, x + f + r, r)
  BY <1>4, <1>5, <1>6 DEF Recording, Good
<1> QED
  BY <1>7 DEF Posted, n, bal, tot, fee, res

LEMMA CreditToSound ==
  ASSUME ConfigPart, now \in 1 .. MaxTime, NEW b, Good(b), NEW c \in Party, NEW t \in Token,
         NEW x \in Nat, NEW m \in Int, NEW f \in Int, NEW r \in Int
  PROVE  Recording(b, CreditTo(b, c, t, x, m, f, r), t, x + f + r, r)
<1> DEFINE k == Repayment(b.credit, c, t, x)
           cr == AfterRepayment(b.credit, c, t, x)
<1>1. b \in Books /\ b.credit \in Credits /\ LoansAt(b.credit, now, config)
  BY DEF Good, Books, Credits
<1>2. k \in Nat /\ cr \in Credits /\ LoansAt(cr, now, config)
  BY <1>1, Repaid
<1>3. b.balance[c][t] \in Int /\ b.fees[t] \in Int
  BY <1>1 DEF Books
<1> DEFINE n == Posted(b, c, t, x - k, m, f + k, r, cr)
<1>4. CreditTo(b, c, t, x, m, f, r) = n
  <2>1. b.balance[c][t] + x - k = b.balance[c][t] + (x - k) /\ b.fees[t] + f + k = b.fees[t] + (f + k)
    BY <1>2, <1>3
  <2> HIDE DEF k
  <2>2. CreditTo(b, c, t, x, m, f, r) =
          [b EXCEPT !.balance[c][t] = b.balance[c][t] + x - k, !.total[c][t] = b.total[c][t] + m,
                    !.fees[t] = b.fees[t] + f + k, !.reserves[t] = b.reserves[t] + r,
                    !.credit = cr]
    BY DEF CreditTo, k
  <2> QED
    BY <2>1, <2>2 DEF Posted
<1>5. x - k \in Int /\ f + k \in Int /\ (x - k) + (f + k) + r = x + f + r
  BY <1>2
<1> HIDE DEF k, cr
<1>6. Recording(b, n, t, (x - k) + (f + k) + r, r)
  BY <1>1, <1>2, <1>5, PostedSound
<1> QED
  BY <1>4, <1>5, <1>6

\* Two changes of the books in a row, and changes that record nothing or one balance.
LEMMA RecordingTwice ==
  ASSUME NEW b, NEW m, NEW n, NEW t \in Token, NEW x \in Int, NEW y \in Int, NEW q \in Int,
         NEW r \in Int, Good(b), Recording(b, m, t, x, q), Recording(m, n, t, y, r)
  PROVE  Recording(b, n, t, x + y, q + r)
<1>1. \A u \in Token : b.reserves[u] \in Int
  BY DEF Good, Books
<1>2. ASSUME NEW u \in Token
      PROVE  /\ RecordedIn(b, u) \in Int
             /\ RecordedIn(n, u) = RecordedIn(b, u) + (IF u = t THEN x + y ELSE 0)
             /\ n.reserves[u] = b.reserves[u] + (IF u = t THEN q + r ELSE 0)
  <2>1. RecordedIn(b, u) \in Int /\ RecordedIn(m, u) = RecordedIn(b, u) + (IF u = t THEN x ELSE 0)
    BY DEF Recording
  <2>2. RecordedIn(n, u) = RecordedIn(m, u) + (IF u = t THEN y ELSE 0)
    BY DEF Recording
  <2>3. /\ m.reserves[u] = b.reserves[u] + (IF u = t THEN q ELSE 0)
        /\ n.reserves[u] = m.reserves[u] + (IF u = t THEN r ELSE 0)
    BY DEF Recording, Raised
  <2> QED
    BY <1>1, <2>1, <2>2, <2>3
<1> QED
  BY <1>2 DEF Recording, Raised

LEMMA RecordingNothing ==
  ASSUME NEW b, Good(b), NEW t \in Token
  PROVE  Recording(b, b, t, 0, 0)
<1>1. b \in Books /\ Moved(b.balance, b.balance, t, t, 0) /\ Raised(b.fees, b.fees, t, 0)
      /\ Raised(b.reserves, b.reserves, t, 0)
  BY DEF Good, Books, Moved, Raised
<1>2. \A u \in Token : RecordedIn(b, u) \in Int
  <2> SUFFICES ASSUME NEW u \in Token PROVE RecordedIn(b, u) \in Int
    OBVIOUS
  <2> DEFINE F == [p \in Party |-> b.balance[p][u]]
  <2>1. F \in [Party -> Int] /\ b.fees[u] \in Int /\ b.reserves[u] \in Int
    BY <1>1 DEF Books
  <2>2. RecordedIn(b, u) = SumFunction(F) + b.fees[u] + b.reserves[u]
    BY DEF RecordedIn
  <2> HIDE DEF F
  <2>3. SumFunction(F) \in Int
    BY <2>1, LedgerAssumption, SumType
  <2> QED
    BY <2>1, <2>2, <2>3
<1> QED
  BY <1>1, <1>2 DEF Recording

LEMMA Ranked ==
  ASSUME NEW b, NEW m, NEW s \in Party, NEW c \in Party, NEW x \in Int, NEW t, NEW y, NEW r,
         Recording(b, m, t, y, r)
  PROVE  /\ Recording(b, update_leaderboard_stats(m, s, c, x), t, y, r)
         /\ update_leaderboard_stats(m, s, c, x).total = m.total
<1> DEFINE f == [m.tipped EXCEPT ![s] = m.tipped[s] + x]
           g == [m.received EXCEPT ![c] = m.received[c] + x]
           n == [m EXCEPT !.tipped = f, !.received = g]
<1>1. m \in Books
  BY DEF Recording, Good
<1>2. f \in [Party -> Int] /\ g \in [Party -> Int]
  BY <1>1 DEF Books
<1>3. update_leaderboard_stats(m, s, c, x) = n
  BY DEF update_leaderboard_stats
<1> HIDE DEF f, g
<1>4. n \in Books /\ n.balance = m.balance /\ n.fees = m.fees /\ n.reserves = m.reserves
      /\ n.credit = m.credit /\ n.total = m.total
  BY <1>1, <1>2 DEF Books
<1> HIDE DEF n
<1>5. \A u : RecordedIn(n, u) = RecordedIn(m, u)
  BY <1>4 DEF RecordedIn
<1>6. Recording(b, n, t, y, r)
  BY <1>4, <1>5 DEF Recording, Good
<1> QED
  BY <1>3, <1>4, <1>6

Debit(b, c, t, x) == [b EXCEPT !.balance[c][t] = b.balance[c][t] - x]
LEMMA DebitSound ==
  ASSUME NEW b, Good(b), NEW c \in Party, NEW t \in Token, NEW x \in Int
  PROVE  Recording(b, Debit(b, c, t, x), t, -x, 0)
<1> DEFINE bal == [b.balance EXCEPT ![c][t] = b.balance[c][t] - x]
           n == [b EXCEPT !.balance = bal]
<1>1. b \in Books /\ b.balance \in Balances /\ -x \in Int /\ LoansAt(b.credit, now, config)
  BY DEF Good, Books, Balances
<1>2. bal \in Balances /\ Moved(b.balance, bal, c, t, -x)
  BY <1>1 DEF Balances, Moved
<1>3. Debit(b, c, t, x) = n
  BY DEF Debit
<1> HIDE DEF bal
<1>4. n \in Books /\ n.balance = bal /\ n.fees = b.fees /\ n.reserves = b.reserves /\ n.credit = b.credit
  BY <1>1, <1>2 DEF Books, Balances
<1> HIDE DEF n
<1>5. Raised(b.fees, n.fees, t, 0) /\ Raised(b.reserves, n.reserves, t, 0)
  BY <1>1, <1>4 DEF Raised, Books
<1>6. \A u \in Token : /\ RecordedIn(b, u) \in Int
                       /\ RecordedIn(n, u) = RecordedIn(b, u) + (IF u = t THEN (-x) + 0 + 0 ELSE 0)
  BY <1>1, <1>2, <1>4, <1>5, RecordedChange
<1>7. (-x) + 0 + 0 = -x
  OBVIOUS
<1> QED
  BY <1>1, <1>3, <1>4, <1>5, <1>6, <1>7 DEF Recording, Good

LEMMA Bookkept ==
  ASSUME NEW b, Good(b), NEW n, n \in Books, LoansAt(n.credit, now, config),
         NEW c \in Party, NEW t \in Token, NEW x \in Int, NEW f \in Int, NEW r \in Int,
         Moved(b.balance, n.balance, c, t, x), Raised(b.fees, n.fees, t, f),
         Raised(b.reserves, n.reserves, t, r), NEW y, y = x + f + r
  PROVE  Recording(b, n, t, y, r)
<1>1. b \in Books
  BY DEF Good
<1>2. \A u \in Token : /\ RecordedIn(b, u) \in Int
                       /\ RecordedIn(n, u) = RecordedIn(b, u) + (IF u = t THEN x + f + r ELSE 0)
  BY <1>1, RecordedChange
<1> QED
  BY <1>2 DEF Recording, Good

-----------------------------------------------------------------------------
\* Fees and premiums are a part of the amount, and not the whole of it.
LEMMA Factor ==
  ASSUME NEW a \in Int, NEW b \in Int, NEW u \in Nat \ {0}
  PROVE  /\ a * u <= b * u => a <= b
         /\ a * u < b * u => a < b
<1>1. a >= b + 1 => a * u >= (b + 1) * u
  OBVIOUS
<1>2. (b + 1) * u = b * u + u
  OBVIOUS
<1>3. a >= b => a * u >= b * u
  OBVIOUS
<1> QED
  BY <1>1, <1>2, <1>3

LEMMA Parts ==
  ASSUME NEW x \in Nat, NEW f \in Nat, NEW p \in Nat, f + p <= Bps
  PROVE  /\ (x * f) \div Bps \in Nat /\ (x * p) \div Bps \in Nat
         /\ (x * f) \div Bps + (x * p) \div Bps <= x
         /\ x > 0 /\ f + p < Bps => (x * f) \div Bps + (x * p) \div Bps < x
<1> DEFINE k == (x * f) \div Bps
           l == (x * p) \div Bps
<1>1. Bps \in Nat \ {0}
  BY LedgerAssumption
<1>2. x * f \in Nat /\ x * p \in Nat
  BY Product
<1>3. k \in Nat /\ l \in Nat
  BY <1>1, <1>2, Portion
<1>4. k * Bps <= x * f /\ l * Bps <= x * p
  BY <1>1, <1>2
<1> HIDE DEF k, l
<1>5. (k + l) * Bps = k * Bps + l * Bps
  BY <1>1, <1>3
<1>6. x * (f + p) = x * f + x * p
  OBVIOUS
<1>7. x * (f + p) <= x * Bps /\ (x > 0 /\ f + p < Bps => x * (f + p) < x * Bps)
  <2>1. x * Bps - x * (f + p) = x * (Bps - (f + p))
    BY <1>1
  <2>2. Bps - (f + p) \in Nat /\ x * (Bps - (f + p)) \in Nat
    BY <1>1, Product
  <2>3. ASSUME x > 0, Bps - (f + p) > 0 PROVE x * (Bps - (f + p)) > 0
    BY <1>1, <2>2, <2>3
  <2>4. x * Bps \in Int /\ x * (f + p) \in Int
    BY <1>1
  <2> QED
    BY <1>1, <2>1, <2>2, <2>3, <2>4
<1>8. k * Bps \in Int /\ l * Bps \in Int /\ (k + l) * Bps \in Int /\ x * Bps \in Int /\ x * (f + p) \in Int
  BY <1>1, <1>3
<1>9. (k + l) * Bps <= x * Bps /\ (x > 0 /\ f + p < Bps => (k + l) * Bps < x * Bps)
  BY <1>2, <1>4, <1>5, <1>6, <1>7, <1>8
<1>10. k + l <= x /\ (x > 0 /\ f + p < Bps => k + l < x)
  BY <1>1, <1>3, <1>9, Factor
<1> QED
  BY <1>3, <1>10 DEF k, l

LEMMA PremiumRate ==
  ASSUME ConfigPart, NEW x \in Nat
  PROVE  \E p \in Nat : Premium(x) = (x * p) \div Bps /\ p <= MaxTipPremium
<1>1. CASE config.insurance = None \/ ~config.ins_enabled
  <2>1. Premium(x) = 0 /\ (x * 0) \div Bps = 0
    BY <1>1, LedgerAssumption DEF Premium
  <2>2. 0 \in Nat /\ 0 <= MaxTipPremium
    BY InsuranceAssumption
  <2> QED
    BY <2>1, <2>2, Zenon
<1>2. CASE config.insurance # None /\ config.ins_enabled
  <2>1. config.insurance \in InsuranceConfig /\ config.insurance.tip_premium_bps <= MaxTipPremium
    BY <1>2 DEF ConfigPart, Config, PremiumsCapped
  <2>2. config.insurance.tip_premium_bps \in Nat
    BY <2>1 DEF InsuranceConfig
  <2> QED
    BY <1>2, <2>1, <2>2 DEF Premium
<1> QED
  BY <1>1, <1>2

LEMMA Charged ==
  ASSUME ConfigPart, NEW x \in Nat
  PROVE  /\ PlatformFee(x) \in Nat /\ Premium(x) \in Nat
         /\ x - PlatformFee(x) - Premium(x) \in Nat
         /\ x > 0 => x - PlatformFee(x) - Premium(x) > 0
<1>1. config.fee_bps \in Nat /\ config.fee_bps <= MaxFeeBps
  BY AdminAssumption DEF ConfigPart, Config
<1>2. PICK p \in Nat : Premium(x) = (x * p) \div Bps /\ p <= MaxTipPremium
  BY PremiumRate
<1> DEFINE f == config.fee_bps
<1>3. PlatformFee(x) = (x * f) \div Bps
  BY DEF PlatformFee
<1> HIDE DEF f
<1>4. f \in Nat /\ f + p < Bps /\ f + p <= Bps
  BY <1>1, <1>2, FundsAssumption, AdminAssumption, InsuranceAssumption, LedgerAssumption DEF f
<1> DEFINE k == (x * f) \div Bps
           l == (x * p) \div Bps
<1>5. k \in Nat /\ l \in Nat /\ k + l <= x /\ (x > 0 => k + l < x)
  BY <1>4, Parts
<1>6. PlatformFee(x) = k /\ Premium(x) = l
  BY <1>2, <1>3
<1> HIDE DEF k, l
<1> QED
  BY <1>5, <1>6

\* The same for the rate of a congestion level.
LEMMA Congested ==
  ASSUME ConfigPart, NEW x \in Nat, NEW level \in DOMAIN Congestion
  PROVE  /\ (x * Congestion[level]) \div Bps \in Nat /\ Premium(x) \in Nat
         /\ x - (x * Congestion[level]) \div Bps - Premium(x) \in Nat
<1>1. PICK p \in Nat : Premium(x) = (x * p) \div Bps /\ p <= MaxTipPremium
  BY PremiumRate
<1> DEFINE f == Congestion[level]
<1>2. Congestion[level] \in Nat /\ Congestion[level] + MaxTipPremium <= Bps
  BY FundsAssumption, TipsAssumption, LedgerAssumption
<1> HIDE DEF f
<1>3. f \in Nat /\ f + p <= Bps
  BY <1>1, <1>2, InsuranceAssumption, LedgerAssumption DEF f
<1> DEFINE k == (x * f) \div Bps
           l == (x * p) \div Bps
<1>4. k \in Nat /\ l \in Nat /\ k + l <= x
  BY <1>3, Parts
<1>5. (x * Congestion[level]) \div Bps = k /\ Premium(x) = l
  BY <1>1 DEF f
<1> HIDE DEF k, l
<1> QED
  BY <1>4, <1>5

-----------------------------------------------------------------------------
\* What the jar holds in a token beyond its books, for accounts w, books b and a drift d.
Off(d, u) == d.lost[u] + d.swapped[u] - d.rewards[u] - d.repaid[u]
Excess(w, b, d, u) == w[u][Jar] - RecordedIn(b, u) - Off(d, u)
Into(w, v, t, x) == \A u \in Token : v[u][Jar] = w[u][Jar] + (IF u = t THEN x ELSE 0)
Drifted(d, e, t, z) == \A u \in Token : Off(e, u) = Off(d, u) + (IF u = t THEN z ELSE 0)

LedgerPart == wallet \in Wallets /\ Good(books) /\ drift \in Drifts
\* A step that takes x more of t than it books, and one that takes from no reserve.
Takes(t, x) ==
  /\ wallet' \in Wallets /\ Good(books') /\ drift' \in Drifts
  /\ \A u \in Token : Excess(wallet', books', drift', u)
                        = Excess(wallet, books, drift, u) + (IF u = t THEN x ELSE 0)
ReservesKept == \A u \in Token : books'.reserves[u] >= books.reserves[u]

LEMMA OffType ==
  ASSUME NEW d \in Drifts, NEW u \in Token
  PROVE  Off(d, u) \in Int
BY DEF Drifts, Off

LEMMA Balanced ==
  ASSUME LedgerPart, NEW t \in Token, NEW x \in Int, NEW y \in Int, NEW z \in Int, NEW r \in Int,
         wallet' \in Wallets, Into(wallet, wallet', t, x),
         Recording(books, books', t, y, r),
         drift' \in Drifts, Drifted(drift, drift', t, z)
  PROVE  /\ Takes(t, x - y - z)
         /\ r >= 0 => ReservesKept
<1>1. Jar \in Account
  BY DEF Account
<1>2. ASSUME NEW u \in Token
      PROVE  /\ Excess(wallet', books', drift', u)
                  = Excess(wallet, books, drift, u) + (IF u = t THEN x - y - z ELSE 0)
             /\ r >= 0 => books'.reserves[u] >= books.reserves[u]
  <2>1. wallet[u][Jar] \in Int /\ wallet'[u][Jar] = wallet[u][Jar] + (IF u = t THEN x ELSE 0)
    BY <1>1 DEF LedgerPart, Wallets, Into
  <2>2. RecordedIn(books, u) \in Int
        /\ RecordedIn(books', u) = RecordedIn(books, u) + (IF u = t THEN y ELSE 0)
    BY DEF Recording
  <2>3. Off(drift, u) \in Int /\ Off(drift', u) = Off(drift, u) + (IF u = t THEN z ELSE 0)
    BY OffType DEF LedgerPart, Drifted
  <2>4. books.reserves[u] \in Int
    BY DEF LedgerPart, Good, Books
  <2>5. books'.reserves[u] = books.reserves[u] + (IF u = t THEN r ELSE 0)
    BY DEF Recording, Raised
  <2> QED
    BY <2>1, <2>2, <2>3, <2>4, <2>5 DEF Excess
<1> QED
  BY <1>2 DEF Takes, ReservesKept, Recording

LEMMA NoDrift ==
  ASSUME NEW d \in Drifts, NEW t \in Token
  PROVE  Drifted(d, d, t, 0)
BY OffType DEF Drifted

LEMMA LostMore ==
  ASSUME NEW d \in Drifts, NEW t \in Token, NEW f \in Int, NEW l \in [Token -> Int],
         Raised(d.lost, l, t, f)
  PROVE  [d EXCEPT !.lost = l] \in Drifts /\ Drifted(d, [d EXCEPT !.lost = l], t, f)
<1> DEFINE e == [d EXCEPT !.lost = l]
<1>1. e \in Drifts /\ e.lost = l /\ e.swapped = d.swapped /\ e.rewards = d.rewards /\ e.repaid = d.repaid
  BY DEF Drifts
<1> HIDE DEF e
<1>2. ASSUME NEW u \in Token PROVE Off(e, u) = Off(d, u) + (IF u = t THEN f ELSE 0)
  <2>1. d.lost[u] \in Int /\ d.swapped[u] \in Int /\ d.rewards[u] \in Int /\ d.repaid[u] \in Int
        /\ l[u] = d.lost[u] + (IF u = t THEN f ELSE 0)
    BY DEF Drifts, Raised
  <2> QED
    BY <1>1, <2>1 DEF Off
<1> QED
  BY <1>1, <1>2 DEF e, Drifted

LEMMA RepaidMore ==
  ASSUME NEW d \in Drifts, NEW t \in Token, NEW f \in Int, NEW l \in [Token -> Int],
         Raised(d.repaid, l, t, f)
  PROVE  [d EXCEPT !.repaid = l] \in Drifts /\ Drifted(d, [d EXCEPT !.repaid = l], t, -f)
<1> DEFINE e == [d EXCEPT !.repaid = l]
<1>1. e \in Drifts /\ e.lost = d.lost /\ e.swapped = d.swapped /\ e.rewards = d.rewards /\ e.repaid = l
  BY DEF Drifts
<1> HIDE DEF e
<1>2. ASSUME NEW u \in Token PROVE Off(e, u) = Off(d, u) + (IF u = t THEN -f ELSE 0)
  <2>1. d.lost[u] \in Int /\ d.swapped[u] \in Int /\ d.rewards[u] \in Int /\ d.repaid[u] \in Int
        /\ l[u] = d.repaid[u] + (IF u = t THEN f ELSE 0)
    BY DEF Drifts, Raised
  <2> QED
    BY <1>1, <2>1 DEF Off
<1> QED
  BY <1>1, <1>2 DEF e, Drifted

LEMMA NoTransfer ==
  ASSUME NEW w \in Wallets, NEW t \in Token
  PROVE  Into(w, w, t, 0)
BY DEF Into, Wallets, Account

-----------------------------------------------------------------------------
\* The milestones: what a list of them has earned.
RewardOf(m) == (m.goal * RewardPct) \div 100
EarnedIn(q) == SumFunction([i \in DOMAIN q |-> IF q[i].completed THEN RewardOf(q[i]) ELSE 0])
EarnedBy(m) == SumFunction([c \in Party |-> EarnedIn(m[c])])
MilestonesPart == milestones \in [Party -> Seq(Milestone)] /\ RewardedOnce

LEMMA RewardedOnceIs ==
  RewardedOnce <=> SumFunction(drift.rewards) = EarnedBy(milestones)
BY DEF RewardedOnce, Earned, EarnedBy, EarnedIn, RewardOf, Reward

LEMMA EarnedType ==
  ASSUME NEW q \in Seq(Milestone)
  PROVE  EarnedIn(q) \in Int
<1> DEFINE f == [i \in DOMAIN q |-> IF q[i].completed THEN RewardOf(q[i]) ELSE 0]
<1>1. IsFiniteSet(DOMAIN q)
  BY FS_Interval
<1>2. \A i \in DOMAIN q : q[i] \in Milestone
  OBVIOUS
<1>3. \A m \in Milestone : RewardOf(m) \in Int
  <2> SUFFICES ASSUME NEW m \in Milestone PROVE RewardOf(m) \in Int
    OBVIOUS
  <2>1. m.goal \in Nat /\ RewardPct \in Nat
    BY TipsAssumption DEF Milestone
  <2>2. m.goal * RewardPct \in Nat
    BY <2>1, Product
  <2> QED
    BY <2>2 DEF RewardOf
<1>4. f \in [DOMAIN q -> Int]
  BY <1>2, <1>3
<1> HIDE DEF f
<1>5. SumFunction(f) \in Int
  BY <1>1, <1>4, SumType
<1> QED
  BY <1>5 DEF EarnedIn, f

\* Milestones that complete earn their rewards.
RewardsFor(q, hit) == SumFunction([i \in DOMAIN q |-> IF i \in hit THEN RewardOf(q[i]) ELSE 0])
Completed(q, n, hit) ==
  /\ n \in Seq(Milestone) /\ DOMAIN n = DOMAIN q
  /\ \A i \in DOMAIN q : /\ n[i].goal = q[i].goal
                         /\ n[i].completed <=> (q[i].completed \/ i \in hit)
LEMMA EarnedMore ==
  ASSUME NEW q \in Seq(Milestone), NEW n, NEW hit,
         \A i \in hit : i \in DOMAIN q /\ ~q[i].completed, Completed(q, n, hit)
  PROVE  /\ RewardsFor(q, hit) \in Int
         /\ EarnedIn(n) = EarnedIn(q) + RewardsFor(q, hit)
<1> DEFINE D == DOMAIN q
           f == [i \in D |-> IF q[i].completed THEN RewardOf(q[i]) ELSE 0]
           g == [i \in D |-> IF i \in hit THEN RewardOf(q[i]) ELSE 0]
           h == [i \in D |-> IF n[i].completed THEN RewardOf(n[i]) ELSE 0]
<1>1. IsFiniteSet(D)
  BY FS_Interval
<1>2. ASSUME NEW i \in D PROVE q[i] \in Milestone /\ RewardOf(q[i]) \in Int /\ RewardOf(n[i]) = RewardOf(q[i])
  <2>1. q[i] \in Milestone
    OBVIOUS
  <2>2. q[i].goal \in Nat /\ RewardPct \in Nat
    BY <2>1, TipsAssumption DEF Milestone
  <2>3. q[i].goal * RewardPct \in Nat
    BY <2>2, Product
  <2>4. RewardOf(q[i]) \in Int
    BY <2>3 DEF RewardOf
  <2>5. RewardOf(n[i]) = RewardOf(q[i])
    BY DEF RewardOf, Completed
  <2> QED
    BY <2>1, <2>4, <2>5
<1>3. f \in [D -> Int] /\ g \in [D -> Int] /\ h \in [D -> Int]
  BY <1>2
<1>4. \A i \in D : h[i] = f[i] + g[i]
  BY <1>2 DEF Completed
<1>5. EarnedIn(q) = SumFunction(f) /\ EarnedIn(n) = SumFunction(h) /\ RewardsFor(q, hit) = SumFunction(g)
  BY DEF EarnedIn, RewardsFor, Completed
<1> HIDE DEF f, g, h, D
<1>6. SumFunction(h) = SumFunction(f) + SumFunction(g)
  <2>1. Adds(D, f, g, h)
    BY <1>3, <1>4 DEF Adds
  <2> QED
    BY <1>1, <2>1, SumAdded
<1>7. SumFunction(g) \in Int
  BY <1>1, <1>3, SumType
<1> QED
  BY <1>5, <1>6, <1>7

Paying(m, d) ==
  m \in [Party -> Seq(Milestone)] /\ d \in [Token -> Int] /\ SumFunction(d) = EarnedBy(m)
EarnsMore(m, n, d, e, c, t, z) ==
  /\ n \in [Party -> Seq(Milestone)] /\ EarnedIn(n[c]) = EarnedIn(m[c]) + z
  /\ \A p \in Party \ {c} : n[p] = m[p]
  /\ e \in [Token -> Int] /\ Raised(d, e, t, z)
LEMMA EarnedByAll ==
  ASSUME NEW m, NEW n, NEW d, NEW e, NEW c \in Party, NEW t \in Token, NEW z \in Int,
         Paying(m, d), EarnsMore(m, n, d, e, c, t, z)
  PROVE  Paying(n, e)
<1> DEFINE F == [p \in Party |-> EarnedIn(m[p])]
           G == [p \in Party |-> EarnedIn(n[p])]
<1>0. /\ m \in [Party -> Seq(Milestone)] /\ n \in [Party -> Seq(Milestone)]
      /\ d \in [Token -> Int] /\ e \in [Token -> Int] /\ Raised(d, e, t, z)
  BY DEF Paying, EarnsMore
<1>1. F \in [Party -> Int] /\ G \in [Party -> Int]
  BY <1>0, EarnedType
<1>2. \A p \in Party \ {c} : G[p] = F[p]
  BY DEF EarnsMore
<1>3. G[c] = F[c] + z
  BY DEF EarnsMore
<1> HIDE DEF F, G
<1>4. SumFunction(G) = SumFunction(F) + G[c] - F[c]
  <2>1. Alters(Party, F, G, c)
    BY <1>1, <1>2 DEF Alters
  <2> QED
    BY <2>1, LedgerAssumption, SumAltered
<1>5. SumFunction(F) \in Int /\ SumFunction(d) \in Int
  BY <1>0, <1>1, LedgerAssumption, SumType
<1>6. e[t] = d[t] + z /\ d[t] \in Int /\ \A u \in Token \ {t} : e[u] = d[u]
  BY <1>0 DEF Raised
<1>7. SumFunction(e) = SumFunction(d) + e[t] - d[t]
  <2>1. Alters(Token, d, e, t)
    BY <1>0, <1>6 DEF Alters
  <2> QED
    BY <2>1, LedgerAssumption, SumAltered
<1>8. SumFunction(d) = SumFunction(F)
  BY DEF F, EarnedBy, Paying
<1>9. SumFunction(e) = SumFunction(G)
  BY <1>1, <1>3, <1>4, <1>5, <1>6, <1>7, <1>8
<1> QED
  BY <1>0, <1>9 DEF G, EarnedBy, Paying

\* The award of milestones: what it books is what it takes from the drift.
Awards(b, t) ==
  \E z \in Int : /\ Recording(b, books', t, z, 0)
                 /\ drift' \in Drifts /\ Drifted(drift, drift', t, -z)
LEMMA Awarded ==
  ASSUME MilestonesPart, drift \in Drifts, NEW b, Good(b), NEW c \in Party, NEW t \in Token,
         check_and_award_milestones(b, c, t)
  PROVE  Awards(b, t) /\ MilestonesPart'
<1> DEFINE q == milestones[c]
           hit == Reached(c, b.total[c][t])
           z == RewardsFor(q, hit)
           n == [i \in DOMAIN q |-> IF i \in hit THEN [q[i] EXCEPT !.completed = TRUE] ELSE q[i]]
           rew == [drift.rewards EXCEPT ![t] = drift.rewards[t] + z]
<1>1. z = SumFunction([i \in DOMAIN milestones[c] |-> IF i \in hit THEN Reward(c, i) ELSE 0])
  BY DEF RewardsFor, Reward, RewardOf
<1>2. /\ books' = [b EXCEPT !.balance[c][t] = b.balance[c][t] + z]
      /\ drift' = [drift EXCEPT !.rewards = rew]
      /\ milestones' = [milestones EXCEPT ![c] = n]
  <2> HIDE DEF z, hit
  <2>1. check_and_award_milestones(b, c, t) =>
          /\ books' = [b EXCEPT !.balance[c][t] = b.balance[c][t] + z]
          /\ drift' = [drift EXCEPT !.rewards[t] = drift.rewards[t] + z]
          /\ milestones' = [milestones EXCEPT ![c] = n]
    BY <1>1 DEF check_and_award_milestones, hit
  <2> QED
    BY <2>1
<1>3. milestones \in [Party -> Seq(Milestone)] /\ q \in Seq(Milestone)
  BY DEF MilestonesPart
<1>4. \A i \in hit : i \in DOMAIN q /\ ~q[i].completed
  BY DEF Reached
<1>5. Completed(q, n, hit)
  <2> HIDE DEF hit
  <2>1. \A i \in DOMAIN q : q[i] \in Milestone
    BY <1>3
  <2> HIDE DEF q
  <2>2. \A i \in DOMAIN q : /\ n[i] \in Milestone /\ n[i].goal = q[i].goal
                            /\ n[i].completed <=> (q[i].completed \/ i \in hit)
    BY <2>1 DEF Milestone
  <2>3. DOMAIN n = DOMAIN q /\ DOMAIN q = 1 .. Len(q) /\ Len(q) \in Nat
    BY <1>3 DEF q
  <2>4. n \in Seq(Milestone)
    <3>1. n \in [1 .. Len(q) -> Milestone]
      BY <2>2, <2>3
    <3> HIDE DEF n
    <3> QED
      BY <2>3, <3>1
  <2> QED
    BY <2>2, <2>3, <2>4 DEF Completed
<1>6. z \in Int /\ EarnedIn(n) = EarnedIn(q) + z
  <2> HIDE DEF q, n, hit
  <2> QED
    BY <1>3, <1>4, <1>5, EarnedMore
<1> HIDE DEF z, hit, n
<1>7. milestones' \in [Party -> Seq(Milestone)] /\ milestones'[c] = n
      /\ \A p \in Party \ {c} : milestones'[p] = milestones[p]
  BY <1>2, <1>3, <1>5 DEF Completed
<1>8. drift.rewards \in [Token -> Int] /\ rew \in [Token -> Int] /\ Raised(drift.rewards, rew, t, z)
  BY <1>6 DEF Drifts, Raised
<1>9. drift' \in Drifts /\ Drifted(drift, drift', t, -z) /\ drift'.rewards = rew
  <2> HIDE DEF rew
  <2>1. drift' \in Drifts /\ drift'.rewards = rew /\ drift'.lost = drift.lost
        /\ drift'.swapped = drift.swapped /\ drift'.repaid = drift.repaid
    BY <1>2, <1>8 DEF Drifts
  <2>2. ASSUME NEW u \in Token PROVE Off(drift', u) = Off(drift, u) + (IF u = t THEN -z ELSE 0)
    <3>1. drift.lost[u] \in Int /\ drift.swapped[u] \in Int /\ drift.repaid[u] \in Int
          /\ drift.rewards[u] \in Int /\ rew[u] = drift.rewards[u] + (IF u = t THEN z ELSE 0)
      BY <1>8 DEF Drifts, Raised
    <3> QED
      BY <1>6, <2>1, <3>1 DEF Off
  <2> QED
    BY <2>1, <2>2 DEF Drifted
<1> HIDE DEF rew
<1>10. Recording(b, books', t, z, 0)
  <2>1. books' = Debit(b, c, t, -z)
    <3>1. b.balance[c][t] \in Int
      BY DEF Good, Books
    <3>2. b.balance[c][t] + z = b.balance[c][t] - (-z)
      BY <1>6, <3>1
    <3> QED
      BY <1>2, <3>2 DEF Debit
  <2>2. -z \in Int /\ -(-z) = z
    BY <1>6
  <2>3. Recording(b, Debit(b, c, t, -z), t, -(-z), 0)
    BY <2>2, DebitSound
  <2> QED
    BY <2>1, <2>2, <2>3
<1>11. RewardedOnce'
  <2>1. Paying(milestones, drift.rewards)
    BY <1>3, <1>8, RewardedOnceIs DEF MilestonesPart, Paying
  <2>2. EarnsMore(milestones, milestones', drift.rewards, rew, c, t, z)
    BY <1>6, <1>7, <1>8 DEF EarnsMore
  <2>3. Paying(milestones', rew)
    BY <1>6, <2>1, <2>2, EarnedByAll
  <2>4. (RewardedOnce <=> SumFunction(drift.rewards) = EarnedBy(milestones))'
    BY RewardedOnceIs, PTL
  <2> QED
    BY <1>9, <2>3, <2>4 DEF Paying
<1> QED
  BY <1>6, <1>7, <1>9, <1>10, <1>11 DEF Awards, MilestonesPart

-----------------------------------------------------------------------------
\* The calls.  Each takes what it puts into an escrow beyond what it books; the ones of
\* this part have none.
LEMMA PayIn ==
  ASSUME LedgerPart, NEW s \in Party, NEW t \in Token, NEW x \in Int, NEW y \in Int,
         NEW z \in Int, NEW r \in Int, Pay(t, s, Jar, x), Recording(books, books', t, y, r),
         drift' \in Drifts, Drifted(drift, drift', t, z)
  PROVE  Takes(t, x - y - z) /\ (r >= 0 => ReservesKept)
<1>1. wallet' = Transfer(wallet, t, s, Jar, x) /\ wallet \in Wallets
  BY DEF Pay, LedgerPart
<1>2. wallet' \in Wallets /\ Into(wallet, wallet', t, x)
  BY <1>1, PaidToJar DEF Into
<1> QED
  BY <1>2, Balanced

LEMMA PayOut ==
  ASSUME LedgerPart, NEW c \in Party, NEW t \in Token, NEW x \in Int, NEW y \in Int,
         NEW z \in Int, NEW r \in Int, Pay(t, Jar, c, x), Recording(books, books', t, y, r),
         drift' \in Drifts, Drifted(drift, drift', t, z)
  PROVE  Takes(t, (-x) - y - z) /\ (r >= 0 => ReservesKept)
<1>1. wallet' = Transfer(wallet, t, Jar, c, x) /\ wallet \in Wallets
  BY DEF Pay, LedgerPart
<1>2. wallet' \in Wallets /\ \A u \in Token : wallet'[u][Jar] = wallet[u][Jar] - (IF u = t THEN x ELSE 0)
  BY <1>1, PaidByJar
<1>3. \A u \in Token : wallet[u][Jar] \in Int
  BY <1>1 DEF Wallets, Account
<1>4. -x \in Int /\ Into(wallet, wallet', t, -x)
  BY <1>2, <1>3 DEF Into
<1> QED
  BY <1>2, <1>4, Balanced

LEMMA PayNobody ==
  ASSUME LedgerPart, NEW t \in Token, NEW y \in Int,
         NEW z \in Int, NEW r \in Int, wallet' \in Wallets, Into(wallet, wallet', t, 0),
         Recording(books, books', t, y, r),
         drift' \in Drifts, Drifted(drift, drift', t, z)
  PROVE  Takes(t, 0 - y - z) /\ (r >= 0 => ReservesKept)
BY Balanced

LEMMA NothingTaken ==
  ASSUME LedgerPart, NEW t, UNCHANGED <<wallet, books, drift>>
  PROVE  Takes(t, 0) /\ ReservesKept
<1>1. \A u \in Token : Excess(wallet, books, drift, u) \in Int /\ books.reserves[u] \in Int
  <2> SUFFICES ASSUME NEW u \in Token
               PROVE  Excess(wallet, books, drift, u) \in Int /\ books.reserves[u] \in Int
    OBVIOUS
  <2>1. wallet[u][Jar] \in Int
    BY DEF LedgerPart, Wallets, Account
  <2>2. Off(drift, u) \in Int
    BY OffType DEF LedgerPart
  <2>3. RecordedIn(books, u) \in Int
    BY RecordingNothing DEF LedgerPart, Recording
  <2>4. books.reserves[u] \in Int
    BY DEF LedgerPart, Good, Books
  <2> QED
    BY <2>1, <2>2, <2>3, <2>4 DEF Excess
<1> QED
  BY <1>1 DEF Takes, ReservesKept, LedgerPart

LEMMA TipTakes ==
  ASSUME ConfigPart, now \in 1 .. MaxTime, LedgerPart, MilestonesPart,
         NEW s \in Party, NEW c \in Party, NEW t \in Token, NEW x \in Nat, tip(s, c, t, x)
  PROVE  Takes(t, 0) /\ ReservesKept /\ MilestonesPart'
<1> DEFINE f == PlatformFee(x)
           p == Premium(x)
           net == x - f - p
           m == CreditTo(books, c, t, net, net, f, p)
           b == update_leaderboard_stats(m, s, c, net)
<1>1. Pay(t, s, Jar, x) /\ check_and_award_milestones(b, c, t)
  BY Zenon DEF tip
<1>2. f \in Nat /\ p \in Nat /\ net \in Nat
  BY Charged
<1>3. net + f + p = x
  BY <1>2
<1> HIDE DEF f, p, net
<1>4. Good(books) /\ drift \in Drifts
  BY DEF LedgerPart
<1>5. Recording(books, m, t, net + f + p, p)
  BY <1>2, <1>4, CreditToSound
<1> HIDE DEF m
<1>6. Recording(books, b, t, net + f + p, p)
  BY <1>2, <1>5, Ranked
<1> HIDE DEF b
<1>7. Good(b) /\ Recording(books, b, t, x, p)
  BY <1>3, <1>6 DEF Recording
<1>8. Awards(b, t) /\ MilestonesPart'
  BY <1>1, <1>4, <1>7, Awarded
<1>9. PICK z \in Int : /\ Recording(b, books', t, z, 0)
                       /\ drift' \in Drifts /\ Drifted(drift, drift', t, -z)
  BY <1>8 DEF Awards
<1>10. Recording(books, books', t, x + z, p + 0)
  BY <1>2, <1>4, <1>7, <1>9, RecordingTwice
<1>11. x + z \in Int /\ -z \in Int /\ p + 0 \in Int /\ p + 0 >= 0 /\ x - (x + z) - (-z) = 0
  BY <1>2
<1>12. Takes(t, x - (x + z) - (-z)) /\ (p + 0 >= 0 => ReservesKept)
  BY <1>1, <1>9, <1>10, <1>11, PayIn
<1> QED
  BY <1>8, <1>11, <1>12

LEMMA TipWithFeeTakes ==
  ASSUME ConfigPart, now \in 1 .. MaxTime, LedgerPart,
         NEW s \in Party, NEW c \in Party, NEW t \in Token, NEW x \in Nat,
         NEW level \in DOMAIN Congestion, tip_with_fee(s, c, t, x, level)
  PROVE  Takes(t, 0) /\ ReservesKept
<1> DEFINE f == (x * Congestion[level]) \div Bps
           p == Premium(x)
           net == x - f - p
           y == net + 0 + p
           lost == [drift.lost EXCEPT ![t] = drift.lost[t] + f]
<1>1. /\ Pay(t, s, Jar, x) /\ books' = CreditTo(books, c, t, net, net, 0, p)
      /\ drift' = [drift EXCEPT !.lost = lost]
  BY DEF tip_with_fee
<1>2. f \in Nat /\ p \in Nat /\ net \in Nat
  BY Congested
<1>3. y \in Int /\ f \in Int /\ p \in Int /\ x - y - f = 0
  BY <1>2
<1> HIDE DEF f, p, net
<1>4. Good(books) /\ drift \in Drifts
  BY DEF LedgerPart
<1>5. Recording(books, books', t, y, p)
  BY <1>1, <1>2, <1>4, CreditToSound
<1> HIDE DEF y
<1>6. drift.lost \in [Token -> Int] /\ lost \in [Token -> Int] /\ Raised(drift.lost, lost, t, f)
  BY <1>2, <1>4 DEF Drifts, Raised
<1> HIDE DEF lost
<1>7. drift' \in Drifts /\ Drifted(drift, drift', t, f)
  BY <1>1, <1>2, <1>4, <1>6, LostMore
<1>8. Takes(t, x - y - f) /\ (p >= 0 => ReservesKept)
  BY <1>1, <1>3, <1>5, <1>7, PayIn
<1> QED
  BY <1>2, <1>3, <1>8

\* The three most common ends of a call: what it takes it books, what it pays it takes
\* off the books, and it only moves amounts inside the books.
LEMMA TakenAndBooked ==
  ASSUME LedgerPart, NEW s \in Party, NEW t \in Token, NEW x \in Int, NEW r \in Nat,
         Pay(t, s, Jar, x), Recording(books, books', t, x, r), drift' = drift
  PROVE  Takes(t, 0) /\ ReservesKept
<1>1. drift' \in Drifts /\ Drifted(drift, drift', t, 0)
  BY NoDrift DEF LedgerPart
<1>2. Takes(t, x - x - 0) /\ (r >= 0 => ReservesKept)
  BY <1>1, PayIn
<1>3. x - x - 0 = 0 /\ r >= 0
  OBVIOUS
<1> QED
  BY <1>2, <1>3

LEMMA PaidAndBooked ==
  ASSUME LedgerPart, NEW c \in Party, NEW t \in Token, NEW x \in Int, NEW r \in Int,
         Pay(t, Jar, c, x), Recording(books, books', t, -x, r), drift' = drift
  PROVE  Takes(t, 0) /\ (r >= 0 => ReservesKept)
<1>1. drift' \in Drifts /\ Drifted(drift, drift', t, 0) /\ -x \in Int
  BY NoDrift DEF LedgerPart
<1>2. Takes(t, (-x) - (-x) - 0) /\ (r >= 0 => ReservesKept)
  BY <1>1, PayOut
<1>3. (-x) - (-x) - 0 = 0
  OBVIOUS
<1> QED
  BY <1>2, <1>3

LEMMA Rebooked ==
  ASSUME LedgerPart, NEW t \in Token, UNCHANGED <<wallet, drift>>,
         Recording(books, books', t, 0, 0)
  PROVE  Takes(t, 0) /\ ReservesKept
<1>1. wallet' \in Wallets /\ Into(wallet, wallet', t, 0)
  BY NoTransfer DEF LedgerPart
<1>2. drift' \in Drifts /\ Drifted(drift, drift', t, 0)
  BY NoDrift DEF LedgerPart
<1>3. Takes(t, 0 - 0 - 0) /\ (0 >= 0 => ReservesKept)
  BY <1>1, <1>2, PayNobody
<1>4. 0 - 0 - 0 = 0 /\ 0 >= 0
  OBVIOUS
<1> QED
  BY <1>3, <1>4

LEMMA TipWithMessageTakes ==
  ASSUME ConfigPart, now \in 1 .. MaxTime, LedgerPart,
         NEW s \in Party, NEW c \in Party, NEW t \in Token, NEW x \in Nat,
         tip_with_message(s, c, t, x)
  PROVE  Takes(t, 0) /\ ReservesKept
<1> DEFINE f == PlatformFee(x)
           p == Premium(x)
           net == x - f - p
           m == CreditTo(books, c, t, net, x, f, p)
<1>1. Pay(t, s, Jar, x) /\ books' = update_leaderboard_stats(m, s, c, x) /\ drift' = drift
  BY DEF tip_with_message
<1>2. f \in Nat /\ p \in Nat /\ net \in Nat
  BY Charged
<1>3. net + f + p = x
  BY <1>2
<1> HIDE DEF f, p, net
<1>4. Good(books)
  BY DEF LedgerPart
<1>5. Recording(books, m, t, net + f + p, p)
  BY <1>2, <1>4, CreditToSound
<1> HIDE DEF m
<1>6. Recording(books, books', t, net + f + p, p)
  BY <1>1, <1>2, <1>5, Ranked
<1>7. Recording(books, books', t, x, p)
  BY <1>3, <1>6
<1> QED
  BY <1>1, <1>2, <1>7, TakenAndBooked

LEMMA TipSplitTakes ==
  ASSUME ConfigPart, now \in 1 .. MaxTime, LedgerPart,
         NEW s \in Party, NEW c \in Party, NEW d \in Party, NEW t \in Token, NEW x \in Nat,
         NEW share \in Shares, tip_split(s, c, d, t, x, share)
  PROVE  Takes(t, 0) /\ ReservesKept
<1> DEFINE k == (x * share) \div Bps
           l == x - k
           m == CreditTo(books, c, t, k, k, 0, 0)
<1>1. Pay(t, s, Jar, x) /\ books' = CreditTo(m, d, t, l, l, 0, 0) /\ drift' = drift
  BY DEF tip_split
<1>2. k \in Nat /\ l \in Nat
  <2>1. share \in Nat /\ 0 \in Nat /\ share + 0 <= Bps
    BY TipsAssumption, LedgerAssumption
  <2>2. k \in Nat /\ (x * 0) \div Bps \in Nat /\ k + (x * 0) \div Bps <= x
    BY <2>1, Parts
  <2> HIDE DEF k
  <2> QED
    BY <2>2
<1>3. k + 0 + 0 = k /\ l + 0 + 0 = l /\ k + l = x /\ 0 + 0 = 0
  BY <1>2
<1> HIDE DEF k, l
<1>4. Good(books)
  BY DEF LedgerPart
<1>5. Recording(books, m, t, k + 0 + 0, 0)
  BY <1>2, <1>4, CreditToSound
<1>6. Good(m) /\ Recording(books, m, t, k, 0)
  BY <1>3, <1>5 DEF Recording
<1> HIDE DEF m
<1>7. Recording(m, books', t, l + 0 + 0, 0)
  BY <1>1, <1>2, <1>6, CreditToSound
<1>8. Recording(m, books', t, l, 0)
  BY <1>3, <1>7
<1>9. Recording(books, books', t, k + l, 0 + 0)
  BY <1>2, <1>4, <1>6, <1>8, RecordingTwice
<1>10. Recording(books, books', t, x, 0)
  BY <1>3, <1>9
<1> QED
  BY <1>1, <1>10, TakenAndBooked

\* A repayment that goes into the fees.
Levied(b, c, t, x) ==
  [b EXCEPT !.fees[t] = @ + Repayment(b.credit, c, t, x), !.credit = AfterRepayment(@, c, t, x)]
LEMMA FeesTaken ==
  ASSUME ConfigPart, now \in 1 .. MaxTime, NEW b, Good(b), NEW c \in Party, NEW t \in Token,
         NEW x \in Nat
  PROVE  /\ Repayment(b.credit, c, t, x) \in Nat
         /\ Recording(b, Levied(b, c, t, x), t, Repayment(b.credit, c, t, x), 0)
<1> DEFINE k == Repayment(b.credit, c, t, x)
           cr == AfterRepayment(b.credit, c, t, x)
           fee == [b.fees EXCEPT ![t] = b.fees[t] + k]
           n == [b EXCEPT !.fees = fee, !.credit = cr]
<1>1. b \in Books /\ b.credit \in Credits /\ LoansAt(b.credit, now, config)
  BY DEF Good, Books, Credits
<1>2. k \in Nat /\ cr \in Credits /\ LoansAt(cr, now, config)
  BY <1>1, Repaid
<1>3. n = Levied(b, c, t, x)
  BY DEF Levied
<1> HIDE DEF k, cr
<1>4. fee \in [Token -> Int] /\ Raised(b.fees, fee, t, k)
  BY <1>1, <1>2 DEF Books, Raised
<1> HIDE DEF fee
<1>5. /\ n \in Books /\ n.balance = b.balance /\ n.fees = fee /\ n.reserves = b.reserves /\ n.credit = cr
  BY <1>1, <1>2, <1>4 DEF Books, Credits
<1> HIDE DEF n
<1>6. Moved(b.balance, n.balance, c, t, 0) /\ Raised(b.reserves, n.reserves, t, 0)
  BY <1>1, <1>5 DEF Moved, Raised, Books
<1>7. k \in Int /\ 0 \in Int /\ k = 0 + k + 0
  BY <1>2
<1>8. Recording(b, n, t, k, 0)
  BY <1>2, <1>4, <1>5, <1>6, <1>7, Bookkept
<1> QED
  BY <1>2, <1>3, <1>8 DEF k

LEMMA ConditionalTipTakes ==
  ASSUME ConfigPart, now \in 1 .. MaxTime, LedgerPart,
         NEW s \in Party, NEW c \in Party, NEW t \in Token, NEW x \in Nat, NEW cs,
         execute_conditional_tip(s, c, t, x, cs)
  PROVE  Takes(t, 0) /\ ReservesKept
<1> DEFINE k == Repayment(books.credit, c, t, x)
           rep0 == [drift.repaid EXCEPT ![t] = drift.repaid[t] + k]
<1>1. CASE ~evaluate_all(cs)
  <2>1. UNCHANGED <<wallet, books, drift>>
    BY <1>1 DEF execute_conditional_tip
  <2> QED
    BY <2>1, NothingTaken
<1>2. CASE evaluate_all(cs)
  <2>1. /\ Pay(t, s, c, x - k)
        /\ books' = Levied(books, c, t, x)
        /\ drift' = [drift EXCEPT !.repaid = rep0]
    BY <1>2 DEF execute_conditional_tip, Levied
  <2>2. wallet \in Wallets /\ Good(books) /\ drift \in Drifts
    BY DEF LedgerPart
  <2>3. k \in Nat /\ Recording(books, books', t, k, 0)
    BY <2>1, <2>2, FeesTaken
  <2> HIDE DEF k
  <2>4. drift.repaid \in [Token -> Int] /\ rep0 \in [Token -> Int] /\ Raised(drift.repaid, rep0, t, k)
    BY <2>2, <2>3 DEF Drifts, Raised
  <2> HIDE DEF rep0
  <2>5. drift' \in Drifts /\ Drifted(drift, drift', t, -k) /\ -k \in Int /\ k \in Int
    BY <2>1, <2>2, <2>3, <2>4, RepaidMore
  <2>6. x - k \in Int /\ wallet' = Transfer(wallet, t, s, c, x - k)
    BY <2>1, <2>3 DEF Pay
  <2>7. wallet' \in Wallets /\ \A u \in Token : wallet'[u][Jar] = wallet[u][Jar]
    BY <2>2, <2>6, PaidAside
  <2>8. Into(wallet, wallet', t, 0)
    BY <2>2, <2>7 DEF Into, Wallets, Account
  <2>9. Takes(t, 0 - k - (-k)) /\ (0 >= 0 => ReservesKept)
    BY <2>3, <2>5, <2>7, <2>8, PayNobody
  <2>10. 0 - k - (-k) = 0 /\ 0 >= 0
    BY <2>5
  <2> QED
    BY <2>9, <2>10
<1> QED
  BY <1>1, <1>2

LEMMA RevealTakes ==
  ASSUME ConfigPart, now \in 1 .. MaxTime, LedgerPart,
         NEW s \in Party, NEW t \in Token, NEW x \in Nat, NEW i \in DOMAIN private,
         private \in Seq(PrivateTip),
         reveal_tip(s, t, i, x)
  PROVE  Takes(t, 0) /\ ReservesKept
<1> DEFINE c == private[i].creator
           f == PlatformFee(x)
           net == x - f
           bal == Plus(books.balance, c, t, net)
           tot == Plus(books.total, c, t, net)
           fee == [books.fees EXCEPT ![t] = books.fees[t] + f]
<1>1. /\ Pay(t, s, Jar, x) /\ drift' = drift
      /\ books' = [books EXCEPT !.balance = bal, !.total = tot, !.fees = fee]
  BY DEF reveal_tip, Plus
<1>2. c \in Party
  <2>1. private[i] \in PrivateTip
    OBVIOUS
  <2> QED
    BY <2>1 DEF PrivateTip
<1> HIDE DEF c
<1>3. f \in Nat
  BY Charged
<1>4. net \in Int
  BY <1>3
<1>4x. x = net + f + 0
  BY <1>3
<1> HIDE DEF f, net
<1>5. books \in Books /\ Good(books) /\ LoansAt(books.credit, now, config)
  BY DEF LedgerPart, Good
<1>6. bal \in Balances /\ tot \in Balances /\ fee \in [Token -> Int]
      /\ Moved(books.balance, bal, c, t, net) /\ Raised(books.fees, fee, t, f)
  <2>1. books.balance \in Balances /\ books.total \in Balances /\ books.fees \in [Token -> Int]
    BY <1>5 DEF Books, Balances
  <2>2. bal \in Balances /\ Moved(books.balance, bal, c, t, net)
    BY <1>2, <1>4, <2>1, PlusMoves
  <2>3. tot \in Balances
    BY <1>2, <1>4, <2>1, PlusMoves
  <2>4. fee \in [Token -> Int] /\ Raised(books.fees, fee, t, f)
    BY <1>3, <2>1 DEF Raised
  <2> QED
    BY <2>2, <2>3, <2>4
<1> HIDE DEF bal, tot, fee
<1>7. /\ books' \in Books /\ books'.balance = bal /\ books'.fees = fee
      /\ books'.reserves = books.reserves /\ books'.credit = books.credit
  BY <1>1, <1>5, <1>6 DEF Books, Balances
<1>8. Raised(books.reserves, books'.reserves, t, 0)
  BY <1>5, <1>7 DEF Raised, Books
<1>9. Recording(books, books', t, x, 0)
  BY <1>2, <1>3, <1>4, <1>4x, <1>5, <1>6, <1>7, <1>8, Bookkept
<1> QED
  BY <1>1, <1>9, TakenAndBooked

\* Batches.  Accounts v and books n are as far apart as accounts w and books b.
Even(w, b, v, n) ==
  /\ v \in Wallets /\ Good(n)
  /\ \A u \in Token : /\ v[u][Jar] - RecordedIn(n, u) = w[u][Jar] - RecordedIn(b, u)
                      /\ n.reserves[u] = b.reserves[u]

LEMMA EvenMove ==
  ASSUME NEW w \in Wallets, NEW b, Good(b), NEW v \in Wallets, NEW n, NEW t \in Token,
         NEW x \in Int, Into(w, v, t, x), Recording(b, n, t, x, 0)
  PROVE  Even(w, b, v, n)
<1>1. ASSUME NEW u \in Token
      PROVE  /\ v[u][Jar] - RecordedIn(n, u) = w[u][Jar] - RecordedIn(b, u)
             /\ n.reserves[u] = b.reserves[u]
  <2>1. w[u][Jar] \in Int /\ v[u][Jar] = w[u][Jar] + (IF u = t THEN x ELSE 0)
    BY DEF Wallets, Account, Into
  <2>2. RecordedIn(b, u) \in Int /\ RecordedIn(n, u) = RecordedIn(b, u) + (IF u = t THEN x ELSE 0)
    BY DEF Recording
  <2>3. b.reserves[u] \in Int /\ n.reserves[u] = b.reserves[u] + (IF u = t THEN 0 ELSE 0)
    BY DEF Recording, Raised, Good, Books
  <2> QED
    BY <2>1, <2>2, <2>3
<1> QED
  BY <1>1 DEF Even, Recording

LEMMA EvenIn ==
  ASSUME NEW w \in Wallets, NEW b, Good(b), NEW n, NEW s \in Party, NEW t \in Token,
         NEW x \in Int, Recording(b, n, t, x, 0)
  PROVE  Even(w, b, Transfer(w, t, s, Jar, x), n)
<1> DEFINE v == Transfer(w, t, s, Jar, x)
<1>1. v \in Wallets /\ Into(w, v, t, x)
  BY PaidToJar DEF Into
<1> HIDE DEF v
<1>2. Even(w, b, v, n)
  BY <1>1, EvenMove
<1> QED
  BY <1>2 DEF v

LEMMA EvenOut ==
  ASSUME NEW w \in Wallets, NEW b, Good(b), NEW n, NEW c \in Party, NEW t \in Token,
         NEW x \in Int, Recording(b, n, t, -x, 0)
  PROVE  Even(w, b, Transfer(w, t, Jar, c, x), n)
<1> DEFINE v == Transfer(w, t, Jar, c, x)
<1>1. v \in Wallets /\ \A u \in Token : v[u][Jar] = w[u][Jar] - (IF u = t THEN x ELSE 0)
  BY PaidByJar
<1> HIDE DEF v
<1>2. \A u \in Token : w[u][Jar] \in Int
  BY DEF Wallets, Account
<1>3. -x \in Int /\ Into(w, v, t, -x)
  BY <1>1, <1>2 DEF Into
<1>4. Even(w, b, v, n)
  BY <1>1, <1>3, EvenMove
<1> QED
  BY <1>4 DEF v

LEMMA EvenSame ==
  ASSUME NEW w \in Wallets, NEW b, Good(b)
  PROVE  Even(w, b, w, b)
BY DEF Even

LEMMA EvenTwice ==
  ASSUME NEW w, NEW b, NEW v, NEW n, NEW y, NEW m, Even(w, b, v, n), Even(v, n, y, m)
  PROVE  Even(w, b, y, m)
BY DEF Even

LEMMA EvenTakes ==
  ASSUME LedgerPart, NEW t, Even(wallet, books, wallet', books'), drift' = drift
  PROVE  Takes(t, 0) /\ ReservesKept
<1>1. wallet' \in Wallets /\ Good(books') /\ drift \in Drifts /\ wallet \in Wallets
  BY DEF Even, LedgerPart
<1>2. ASSUME NEW u \in Token
      PROVE  /\ Excess(wallet', books', drift', u)
                  = Excess(wallet, books, drift, u) + (IF u = t THEN 0 ELSE 0)
             /\ books'.reserves[u] >= books.reserves[u]
  <2>1. wallet[u][Jar] \in Int /\ wallet'[u][Jar] \in Int
    BY <1>1 DEF Wallets, Account
  <2>2. RecordedIn(books, u) \in Int /\ RecordedIn(books', u) \in Int
    BY <1>1, RecordingNothing DEF LedgerPart, Recording
  <2>3. Off(drift, u) \in Int
    BY <1>1, OffType
  <2>4. /\ wallet'[u][Jar] - RecordedIn(books', u) = wallet[u][Jar] - RecordedIn(books, u)
        /\ books'.reserves[u] = books.reserves[u] /\ books.reserves[u] \in Int
    BY DEF Even, LedgerPart, Good, Books
  <2> QED
    BY <2>1, <2>2, <2>3, <2>4 DEF Excess
<1> QED
  BY <1>1, <1>2 DEF Takes, ReservesKept

TipOp == [creator : Party, token : Token, amount : Int]
LEMMA PlainSound ==
  ASSUME NEW b, Good(b), NEW s \in Party, NEW o \in TipOp
  PROVE  Recording(b, Plain(s, o, b), o.token, o.amount, 0)
<1> DEFINE c == o.creator
           t == o.token
           x == o.amount
           bal == Plus(b.balance, c, t, x)
           tot == Plus(b.total, c, t, x)
           n == [b EXCEPT !.balance = bal, !.total = tot]
<1>1. c \in Party /\ t \in Token /\ x \in Int
  BY DEF TipOp
<1>2. Plain(s, o, b) = update_leaderboard_stats(n, s, c, x)
  BY DEF Plain, Plus
<1> HIDE DEF c, t, x
<1>3. b \in Books /\ LoansAt(b.credit, now, config)
  BY DEF Good
<1>4. b.balance \in Balances /\ b.total \in Balances
  BY <1>3 DEF Books, Balances
<1>5. bal \in Balances /\ tot \in Balances /\ Moved(b.balance, bal, c, t, x)
  BY <1>1, <1>4, PlusMoves
<1> HIDE DEF bal, tot
<1>6. /\ n \in Books /\ n.balance = bal /\ n.fees = b.fees /\ n.reserves = b.reserves /\ n.credit = b.credit
  BY <1>3, <1>5 DEF Books, Balances
<1> HIDE DEF n
<1>7. Raised(b.fees, n.fees, t, 0) /\ Raised(b.reserves, n.reserves, t, 0)
  BY <1>3, <1>6 DEF Raised, Books
<1>8. x = x + 0 + 0 /\ 0 \in Int
  BY <1>1
<1>9. Recording(b, n, t, x, 0)
  BY <1>1, <1>3, <1>5, <1>6, <1>7, <1>8, Bookkept
<1>10. Recording(b, update_leaderboard_stats(n, s, c, x), t, x, 0)
  BY <1>1, <1>9, Ranked
<1> QED
  BY <1>2, <1>10 DEF t, x

\* A batch of up to two operations, each of which keeps them so.
LEMMA BatchTakes ==
  ASSUME LedgerPart, NEW t, NEW n \in Nat, NEW w1, NEW w2, NEW b1, NEW b2, drift' = drift,
         n # 0 => Even(wallet, books, w1, b1),
         n # 0 /\ n # 1 => Even(w1, b1, w2, b2),
         books' = IF n = 0 THEN books ELSE IF n = 1 THEN b1 ELSE b2,
         wallet' = IF n = 0 THEN wallet ELSE IF n = 1 THEN w1 ELSE w2
  PROVE  Takes(t, 0) /\ ReservesKept
<1>1. CASE n = 0
  BY <1>1, NothingTaken
<1>2. CASE n = 1
  BY <1>2, EvenTakes
<1>3. CASE n # 0 /\ n # 1
  <2>1. Even(wallet, books, w1, b1) /\ Even(w1, b1, w2, b2) /\ wallet' = w2 /\ books' = b2
    BY <1>3
  <2>2. Even(wallet, books, w2, b2)
    BY <2>1, EvenTwice
  <2> QED
    BY <2>1, <2>2, EvenTakes
<1> QED
  BY <1>1, <1>2, <1>3

LEMMA SecondOf ==
  ASSUME NEW n \in Nat, n # 0, n # 1
  PROVE  2 \in 1 .. n
OBVIOUS

LEMMA PlainEven ==
  ASSUME NEW w \in Wallets, NEW b, Good(b), NEW s \in Party, NEW o \in TipOp
  PROVE  Even(w, b, Transfer(w, o.token, s, Jar, o.amount), Plain(s, o, b))
<1>1. o.token \in Token /\ o.amount \in Int
  BY DEF TipOp
<1>2. Recording(b, Plain(s, o, b), o.token, o.amount, 0)
  BY PlainSound
<1> DEFINE t == o.token
           x == o.amount
           n == Plain(s, o, b)
<1> HIDE DEF t, x, n
<1>3. t \in Token /\ x \in Int /\ Recording(b, n, t, x, 0)
  BY <1>1, <1>2 DEF t, x, n
<1>4. Even(w, b, Transfer(w, t, s, Jar, x), n)
  BY <1>3, EvenIn
<1> QED
  BY <1>4 DEF t, x, n

LEMMA BatchV2Takes ==
  ASSUME LedgerPart, NEW s \in Party, NEW ops \in Seq(TipOp), NEW t, batch_tip_v2(s, ops)
  PROVE  Takes(t, 0) /\ ReservesKept
<1> DEFINE b1 == Plain(s, ops[1], books)
           b2 == Plain(s, ops[2], b1)
           w1 == Transfer(wallet, ops[1].token, s, Jar, ops[1].amount)
           w2 == Transfer(w1, ops[2].token, s, Jar, ops[2].amount)
<1>1. /\ drift' = drift
      /\ books' = IF Len(ops) = 0 THEN books ELSE IF Len(ops) = 1 THEN b1 ELSE b2
      /\ wallet' = IF Len(ops) = 0 THEN wallet ELSE IF Len(ops) = 1 THEN w1 ELSE w2
  BY DEF batch_tip_v2, PaidIn, InOrder
<1>2. wallet \in Wallets /\ Good(books)
  BY DEF LedgerPart
<1>3. Len(ops) \in Nat /\ \A i \in 1 .. Len(ops) : ops[i] \in TipOp
  OBVIOUS
<1>4. ASSUME Len(ops) # 0 PROVE Even(wallet, books, w1, b1)
  <2>1. ops[1] \in TipOp
    BY <1>3, <1>4
  <2> QED
    BY <1>2, <2>1, PlainEven
<1>5. ASSUME Len(ops) # 0, Len(ops) # 1 PROVE Even(w1, b1, w2, b2)
  <2>1. 2 \in 1 .. Len(ops)
    BY <1>3, <1>5, SecondOf
  <2>2. ops[2] \in TipOp
    BY <1>3, <2>1
  <2>3. w1 \in Wallets /\ Good(b1)
    BY <1>4, <1>5 DEF Even
  <2> HIDE DEF w1, b1
  <2> QED
    BY <2>2, <2>3, PlainEven
<1> HIDE DEF w1, w2, b1, b2
<1> QED
  BY <1>1, <1>3, <1>4, <1>5, BatchTakes

LEMMA BatchMultiTakes ==
  ASSUME LedgerPart, NEW s \in Party, NEW ops \in Seq(TipOp), NEW t, batch_tip_multi(s, ops)
  PROVE  Takes(t, 0) /\ ReservesKept
<1> DEFINE ok(o) == o.amount > 0 /\ Whitelisted(o.token)
           b1 == IF ok(ops[1]) THEN Plain(s, ops[1], books) ELSE books
           b2 == IF ok(ops[2]) THEN Plain(s, ops[2], b1) ELSE b1
           w1 == IF ok(ops[1]) THEN Transfer(wallet, ops[1].token, s, Jar, ops[1].amount) ELSE wallet
           w2 == IF ok(ops[2]) THEN Transfer(w1, ops[2].token, s, Jar, ops[2].amount) ELSE w1
<1>1. /\ drift' = drift
      /\ books' = IF Len(ops) = 0 THEN books ELSE IF Len(ops) = 1 THEN b1 ELSE b2
      /\ wallet' = IF Len(ops) = 0 THEN wallet ELSE IF Len(ops) = 1 THEN w1 ELSE w2
  BY DEF batch_tip_multi, PaidIn, InOrder
<1> HIDE DEF ok
<1>2. wallet \in Wallets /\ Good(books)
  BY DEF LedgerPart
<1>3. Len(ops) \in Nat /\ \A i \in 1 .. Len(ops) : ops[i] \in TipOp
  OBVIOUS
<1>4. ASSUME Len(ops) # 0 PROVE Even(wallet, books, w1, b1)
  <2>1. ops[1] \in TipOp
    BY <1>3, <1>4
  <2> QED
    BY <1>2, <2>1, PlainEven, EvenSame
<1>5. ASSUME Len(ops) # 0, Len(ops) # 1 PROVE Even(w1, b1, w2, b2)
  <2>1. 2 \in 1 .. Len(ops)
    BY <1>3, <1>5, SecondOf
  <2>2. ops[2] \in TipOp
    BY <1>3, <2>1
  <2>3. w1 \in Wallets /\ Good(b1)
    BY <1>4, <1>5 DEF Even
  <2> HIDE DEF w1, b1
  <2> QED
    BY <2>2, <2>3, PlainEven, EvenSame
<1> HIDE DEF w1, w2, b1, b2
<1> QED
  BY <1>1, <1>3, <1>4, <1>5, BatchTakes

\* One operation of batch_tip.
Charging(s, t, o, b) ==
  LET net == o.amount - PlatformFee(o.amount)
  IN  update_leaderboard_stats(
        CreditTo(b, o.creator, t, net, net, PlatformFee(o.amount), 0), s, o.creator, net)
LEMMA ChargingSound ==
  ASSUME ConfigPart, now \in 1 .. MaxTime, NEW b, Good(b), NEW s \in Party, NEW t \in Token,
         NEW o \in TipOp, o.amount > 0
  PROVE  Recording(b, Charging(s, t, o, b), t, o.amount, 0) /\ Good(Charging(s, t, o, b))
<1> DEFINE c == o.creator
           x == o.amount
           f == PlatformFee(x)
           net == x - f
           m == CreditTo(b, c, t, net, net, f, 0)
<1>1. c \in Party /\ x \in Nat
  BY DEF TipOp
<1>2. Charging(s, t, o, b) = update_leaderboard_stats(m, s, c, net)
  BY DEF Charging
<1> HIDE DEF c, x
<1>3. f \in Nat /\ Premium(x) \in Nat /\ x - f - Premium(x) \in Nat
  BY <1>1, Charged
<1>4. net \in Nat
  BY <1>1, <1>3
<1>5. net + f + 0 = x
  BY <1>1, <1>3
<1> HIDE DEF f, net
<1>6. Recording(b, m, t, net + f + 0, 0)
  BY <1>1, <1>3, <1>4, CreditToSound
<1> HIDE DEF m
<1>7. Recording(b, update_leaderboard_stats(m, s, c, net), t, net + f + 0, 0)
  BY <1>1, <1>4, <1>6, Ranked
<1> QED
  BY <1>2, <1>5, <1>7 DEF x, Recording

LEMMA BatchTipTakes ==
  ASSUME ConfigPart, now \in 1 .. MaxTime, LedgerPart, NEW s \in Party, NEW t \in Token,
         NEW ops \in Seq(TipOp), Len(ops) # 0, batch_tip(s, t, ops)
  PROVE  Takes(t, 0) /\ ReservesKept
<1> DEFINE b1 == Charging(s, t, ops[1], books)
           b2 == Charging(s, t, ops[2], b1)
           x == ops[1].amount
           y == ops[2].amount
           sum == IF Len(ops) = 1 THEN 0 + x ELSE 0 + x + y
<1>1. /\ drift' = drift
      /\ \A i \in DOMAIN ops : ops[i].amount > 0
      /\ books' = IF Len(ops) = 1 THEN b1 ELSE b2
      /\ Pay(t, s, Jar, sum)
  BY DEF batch_tip, InOrder, Charging
<1>2. Good(books)
  BY DEF LedgerPart
<1>3. Len(ops) \in Nat /\ \A i \in 1 .. Len(ops) : ops[i] \in TipOp /\ ops[i].amount > 0
  BY <1>1
<1>4. x \in Int /\ Recording(books, b1, t, x, 0) /\ Good(b1)
  <2>1. ops[1] \in TipOp /\ ops[1].amount > 0
    BY <1>3
  <2>2. ops[1].amount \in Int
    BY <2>1 DEF TipOp
  <2> QED
    BY <1>2, <2>1, <2>2, ChargingSound
<1>5. ASSUME Len(ops) # 1 PROVE y \in Int /\ Recording(b1, b2, t, y, 0)
  <2>1. 2 \in 1 .. Len(ops)
    BY <1>3, <1>5, SecondOf
  <2>2. ops[2] \in TipOp /\ ops[2].amount > 0
    BY <1>3, <2>1
  <2>3. ops[2].amount \in Int
    BY <2>2 DEF TipOp
  <2> HIDE DEF b1
  <2> QED
    BY <1>4, <2>2, <2>3, ChargingSound
<1> HIDE DEF b1, b2, x, y
<1>6. CASE Len(ops) = 1
  <2>1. Pay(t, s, Jar, x) /\ books' = b1
    BY <1>1, <1>4, <1>6
  <2> QED
    BY <1>1, <1>4, <2>1, TakenAndBooked
<1>7. CASE Len(ops) # 1
  <2>1. y \in Int /\ Recording(b1, b2, t, y, 0)
    BY <1>5, <1>7
  <2>2. Pay(t, s, Jar, x + y) /\ books' = b2 /\ x + y \in Int /\ 0 + 0 = 0
    BY <1>1, <1>4, <1>7, <2>1
  <2>3. Recording(books, b2, t, x + y, 0 + 0)
    BY <1>2, <1>4, <2>1, RecordingTwice
  <2>4. Recording(books, books', t, x + y, 0)
    BY <2>2, <2>3
  <2> QED
    BY <1>1, <2>2, <2>4, TakenAndBooked
<1> QED
  BY <1>6, <1>7

-----------------------------------------------------------------------------
\* The milestones when no reward is paid.
RewardsSame == UNCHANGED milestones /\ drift'.rewards = drift.rewards
LEMMA MilestonesSame ==
  ASSUME MilestonesPart, RewardsSame
  PROVE  MilestonesPart'
<1>1. (RewardedOnce <=> SumFunction(drift.rewards) = EarnedBy(milestones))'
  BY RewardedOnceIs, PTL
<1>2. milestones' = milestones /\ drift'.rewards = drift.rewards
  BY DEF RewardsSame
<1>3. SumFunction(drift.rewards) = EarnedBy(milestones)
  BY RewardedOnceIs DEF MilestonesPart
<1>4. SumFunction(drift'.rewards) = EarnedBy(milestones')
  BY <1>2, <1>3
<1> QED
  BY <1>1, <1>2, <1>4 DEF MilestonesPart

LEMMA OneMoreMilestone ==
  ASSUME NEW q \in Seq(Milestone), NEW m \in Milestone, ~m.completed
  PROVE  Append(q, m) \in Seq(Milestone) /\ EarnedIn(Append(q, m)) = EarnedIn(q)
<1> DEFINE n == Append(q, m)
           f == [i \in DOMAIN q |-> IF q[i].completed THEN RewardOf(q[i]) ELSE 0]
           g == [i \in DOMAIN n |-> IF n[i].completed THEN RewardOf(n[i]) ELSE 0]
           k == Len(q)
<1>1. /\ n \in Seq(Milestone) /\ k \in Nat /\ DOMAIN q = 1 .. k /\ DOMAIN n = 1 .. k + 1
      /\ (\A i \in DOMAIN q : n[i] = q[i]) /\ n[k + 1] = m
  BY SeqAppended
<1> HIDE DEF n, k
<1>2. ASSUME NEW i \in 1 .. k PROVE q[i] \in Milestone /\ RewardOf(q[i]) \in Int
  <2>1. q[i] \in Milestone
    BY <1>1
  <2>2. q[i].goal \in Nat /\ RewardPct \in Nat
    BY <2>1, TipsAssumption DEF Milestone
  <2>3. q[i].goal * RewardPct \in Nat
    BY <2>2, Product
  <2> QED
    BY <2>1, <2>3 DEF RewardOf
<1>3. f \in [1 .. k -> Int]
  BY <1>1, <1>2
<1>4. g[k + 1] = 0 /\ \A i \in 1 .. k : g[i] = f[i]
  BY <1>1
<1>5. g \in [1 .. k + 1 -> Int]
  <2>1. g = [i \in 1 .. k + 1 |-> g[i]]
    BY <1>1
  <2>2. ASSUME NEW i \in 1 .. k + 1 PROVE g[i] \in Int
    <3>1. i \in 1 .. k \/ i = k + 1
      BY <1>1
    <3>2. \A j \in 1 .. k : f[j] \in Int
      BY <1>3
    <3> HIDE DEF f, g
    <3> QED
      BY <1>4, <3>1, <3>2
  <2> HIDE DEF g
  <2> QED
    BY <2>1, <2>2
<1>6. EarnedIn(q) = SumFunction(f) /\ EarnedIn(n) = SumFunction(g)
  BY DEF EarnedIn
<1> HIDE DEF f, g
<1>7. SumFunction(g) = SumFunction(f) + g[k + 1]
  BY <1>1, <1>3, <1>4, <1>5, SumAppend
<1>8. SumFunction(f) \in Int
  <2>1. IsFiniteSet(1 .. k)
    BY <1>1, FS_Interval
  <2> QED
    BY <1>3, <2>1, SumType
<1>9. EarnedIn(n) = EarnedIn(q)
  BY <1>4, <1>6, <1>7, <1>8
<1> QED
  BY <1>1, <1>9 DEF n

LEMMA MilestoneCreated ==
  ASSUME MilestonesPart, drift \in Drifts, NEW c \in Party, NEW goal \in Goals,
         create_milestone(c, goal)
  PROVE  MilestonesPart'
<1> DEFINE m == [goal |-> goal, completed |-> FALSE]
           n == Append(milestones[c], m)
<1>1. milestones' = [milestones EXCEPT ![c] = n] /\ drift' = drift
  BY DEF create_milestone, ledgerVars
<1>2. milestones \in [Party -> Seq(Milestone)] /\ milestones[c] \in Seq(Milestone)
  BY DEF MilestonesPart
<1>3. m \in Milestone /\ ~m.completed
  BY TipsAssumption DEF Milestone
<1>4. n \in Seq(Milestone) /\ EarnedIn(n) = EarnedIn(milestones[c])
  <2> DEFINE q == milestones[c]
  <2> HIDE DEF m, q
  <2>1. q \in Seq(Milestone)
    BY <1>2 DEF q
  <2>2. Append(q, m) \in Seq(Milestone) /\ EarnedIn(Append(q, m)) = EarnedIn(q)
    BY <1>3, <2>1, OneMoreMilestone
  <2> QED
    BY <2>2 DEF q
<1> HIDE DEF n
<1>5. /\ milestones' \in [Party -> Seq(Milestone)] /\ milestones'[c] = n
      /\ \A p \in Party \ {c} : milestones'[p] = milestones[p]
  BY <1>1, <1>2, <1>4
<1>6. EarnedBy(milestones') = EarnedBy(milestones)
  <2>1. \A p \in Party : EarnedIn(milestones'[p]) = EarnedIn(milestones[p])
    BY <1>4, <1>5
  <2>2. [p \in Party |-> EarnedIn(milestones'[p])] = [p \in Party |-> EarnedIn(milestones[p])]
    BY <2>1
  <2> QED
    BY <2>2 DEF EarnedBy
<1>7. (RewardedOnce <=> SumFunction(drift.rewards) = EarnedBy(milestones))'
  BY RewardedOnceIs, PTL
<1>8. SumFunction(drift'.rewards) = EarnedBy(milestones')
  BY <1>1, <1>6, RewardedOnceIs DEF MilestonesPart
<1> QED
  BY <1>5, <1>7, <1>8 DEF MilestonesPart

\* A step that keeps the jar's holdings and its books in step, and takes from no reserve.
Settles == (\E t : Takes(t, 0)) /\ ReservesKept
PrivatePart == private \in Seq(PrivateTip)
TipsFine == Settles /\ MilestonesPart' /\ PrivatePart'
LEMMA TipsTake ==
  ASSUME ConfigPart, now \in 1 .. MaxTime, LedgerPart, MilestonesPart, PrivatePart, TipStep
  PROVE  TipsFine
<1> USE DEF tipVars, ledgerVars
<1>0. \A x \in Amounts : x \in Nat
  BY LedgerAssumption
<1>1. drift \in Drifts
  BY DEF LedgerPart
<1>2. private' = private => PrivatePart'
  BY DEF PrivatePart
<1>3. UNCHANGED <<wallet, books, drift>> => Settles
  BY NothingTaken DEF Settles
<1>4. ASSUME NEW c \in Party, NEW goal \in Goals, create_milestone(c, goal) PROVE TipsFine
  <2>1. UNCHANGED <<wallet, books, drift, private>>
    BY <1>4 DEF create_milestone
  <2> QED
    BY <1>1, <1>2, <1>3, <1>4, <2>1, MilestoneCreated DEF TipsFine
<1>5. ASSUME NEW ok, set_offchain_condition(ok) PROVE TipsFine
  <2>1. UNCHANGED <<wallet, books, drift, private, milestones>>
    BY <1>5 DEF set_offchain_condition
  <2> QED
    BY <1>2, <1>3, <2>1, MilestonesSame DEF TipsFine, RewardsSame
<1>6. ASSUME NEW s \in Party, NEW c \in Party, NEW t \in Token, NEW x \in Amounts, tip(s, c, t, x)
      PROVE  TipsFine
  <2>1. private' = private
    BY <1>6 DEF tip
  <2> QED
    BY <1>0, <1>2, <1>6, <2>1, TipTakes DEF TipsFine, Settles
<1>7. ASSUME NEW s \in Party, NEW c \in Party, NEW t \in Token, NEW x \in Amounts,
             NEW level \in DOMAIN Congestion, tip_with_fee(s, c, t, x, level)
      PROVE  TipsFine
  <2>1. private' = private /\ RewardsSame
    <3>1. UNCHANGED <<private, milestones>>
      BY <1>7 DEF tip_with_fee
    <3>2. drift' = [drift EXCEPT !.lost[t] = @ + (x * Congestion[level]) \div Bps]
      BY <1>7 DEF tip_with_fee
    <3>3. drift'.rewards = drift.rewards
      BY <1>1, <3>2 DEF Drifts
    <3> QED
      BY <3>1, <3>3 DEF RewardsSame
  <2> QED
    BY <1>0, <1>2, <1>7, <2>1, TipWithFeeTakes, MilestonesSame DEF TipsFine, Settles
<1>8. ASSUME NEW s \in Party, NEW c \in Party, NEW t \in Token, NEW x \in Amounts,
             tip_with_message(s, c, t, x)
      PROVE  TipsFine
  <2>1. private' = private /\ RewardsSame
    BY <1>8 DEF tip_with_message, RewardsSame
  <2> QED
    BY <1>0, <1>2, <1>8, <2>1, TipWithMessageTakes, MilestonesSame DEF TipsFine, Settles
<1>9. ASSUME NEW s \in Party, NEW c \in Party, NEW d \in Party, NEW t \in Token, NEW x \in Amounts,
             NEW share \in Shares, tip_split(s, c, d, t, x, share)
      PROVE  TipsFine
  <2>1. private' = private /\ RewardsSame
    BY <1>9 DEF tip_split, RewardsSame
  <2> QED
    BY <1>0, <1>2, <1>9, <2>1, TipSplitTakes, MilestonesSame DEF TipsFine, Settles
<1>10. ASSUME NEW s \in Party, NEW c \in Party, NEW t \in Token, NEW x \in Amounts, NEW cs,
              execute_conditional_tip(s, c, t, x, cs)
       PROVE  TipsFine
  <2>1. private' = private /\ RewardsSame
    <3>1. UNCHANGED <<private, milestones>>
      BY <1>10 DEF execute_conditional_tip
    <3>2. drift' = drift \/ \E k : drift' = [drift EXCEPT !.repaid = k]
      <4> DEFINE k == [drift.repaid EXCEPT ![t] = @ + Repayment(books.credit, c, t, x)]
      <4>1. drift' = drift \/ drift' = [drift EXCEPT !.repaid = k]
        BY <1>10 DEF execute_conditional_tip
      <4> QED
        BY <4>1, Zenon
    <3>3. drift'.rewards = drift.rewards
      BY <1>1, <3>2 DEF Drifts
    <3> QED
      BY <3>1, <3>3 DEF RewardsSame
  <2> QED
    BY <1>0, <1>2, <1>10, <2>1, ConditionalTipTakes, MilestonesSame DEF TipsFine, Settles
<1>11. ASSUME NEW s \in Party, NEW c \in Party, NEW t \in Token, NEW x \in Amounts, tip_private(c, t, x)
       PROVE  TipsFine
  <2>1. UNCHANGED <<wallet, books, drift, milestones>>
        /\ private' = Append(private, [creator |-> c, amount |-> x, revealed |-> FALSE])
    BY <1>11 DEF tip_private
  <2>2. [creator |-> c, amount |-> x, revealed |-> FALSE] \in PrivateTip
    BY <1>0 DEF PrivateTip
  <2>3. PrivatePart'
    BY <2>1, <2>2, SeqAppended DEF PrivatePart
  <2> QED
    BY <1>3, <2>1, <2>3, MilestonesSame DEF TipsFine, RewardsSame
<1>12. ASSUME NEW s \in Party, NEW t \in Token, NEW x \in Amounts, NEW i \in DOMAIN private,
              reveal_tip(s, t, i, x)
       PROVE  TipsFine
  <2>1. RewardsSame /\ private' = [private EXCEPT ![i].revealed = TRUE]
    BY <1>12 DEF reveal_tip, RewardsSame
  <2>2. [private[i] EXCEPT !.revealed = TRUE] \in PrivateTip
    <3>1. private[i] \in PrivateTip
      BY DEF PrivatePart
    <3> QED
      BY <3>1 DEF PrivateTip
  <2>3. PrivatePart'
    BY <2>1, <2>2, SeqUpdated DEF PrivatePart
  <2>4. Takes(t, 0) /\ ReservesKept
    BY <1>0, <1>12, RevealTakes DEF PrivatePart
  <2> QED
    BY <2>1, <2>3, <2>4, MilestonesSame DEF TipsFine, Settles
<1>13. ASSUME NEW s \in Party, NEW t \in Token, NEW ops \in Seq(TipOp), Len(ops) # 0,
              batch_tip(s, t, ops)
       PROVE  TipsFine
  <2>1. private' = private /\ RewardsSame
    BY <1>13 DEF batch_tip, RewardsSame, InOrder
  <2> QED
    BY <1>2, <1>13, <2>1, BatchTipTakes, MilestonesSame DEF TipsFine, Settles
<1>14. ASSUME NEW s \in Party, NEW ops \in Seq(TipOp), batch_tip_v2(s, ops)
       PROVE  TipsFine
  <2>1. private' = private /\ RewardsSame
    BY <1>14 DEF batch_tip_v2, RewardsSame, InOrder, PaidIn
  <2>2. Takes(None, 0) /\ ReservesKept
    BY <1>14, BatchV2Takes
  <2> QED
    BY <1>2, <2>1, <2>2, MilestonesSame DEF TipsFine, Settles
<1>15. ASSUME NEW s \in Party, NEW ops \in Seq(TipOp), batch_tip_multi(s, ops)
       PROVE  TipsFine
  <2>1. private' = private /\ RewardsSame
    BY <1>15 DEF batch_tip_multi, RewardsSame, InOrder, PaidIn
  <2>2. Takes(None, 0) /\ ReservesKept
    BY <1>15, BatchMultiTakes
  <2> QED
    BY <1>2, <2>1, <2>2, MilestonesSame DEF TipsFine, Settles
<1>16. \A ops \in Batches : ops \in Seq(TipOp) /\ Len(ops) # 0
  <2>1. \A o \in Ops : o \in TipOp
    BY TipsAssumption DEF TipOp
  <2>2. \A o \in TipOp : <<o>> \in Seq(TipOp) /\ Len(<<o>>) # 0
    OBVIOUS
  <2>3. \A o, q \in TipOp : <<o, q>> \in Seq(TipOp) /\ Len(<<o, q>>) # 0
    OBVIOUS
  <2>4. ASSUME NEW ops \in Batches PROVE ops \in Seq(TipOp) /\ Len(ops) # 0
    <3>1. (\E o \in Ops : ops = <<o>>) \/ (\E o, q \in Ops : ops = <<o, q>>)
      BY DEF Batches
    <3> QED
      BY <2>1, <2>2, <2>3, <3>1, Zenon
  <2> QED
    BY <2>4
<1>17. CASE TipsNext
  <2>1. ASSUME NEW s \in Party, NEW c \in Party, NEW t \in Token, NEW x \in Amounts,
               OneTipNext(s, c, t, x)
        PROVE  TipsFine
    BY <1>6, <1>7, <1>8, <1>9, <1>10, <1>11, <1>12, <2>1, Zenon DEF OneTipNext
  <2>2. ASSUME NEW s \in Party, NEW t \in Token, NEW ops \in Batches, BatchNext(s, t, ops)
        PROVE  TipsFine
    BY <1>13, <1>14, <1>15, <1>16, <2>2, Zenon DEF BatchNext
  <2> QED
    BY <1>4, <1>5, <1>17, <2>1, <2>2, Zenon DEF TipsNext
<1>18. CASE Fund
  <2>1. \A c \in Party, t \in Token, x \in Amounts :
          <<[creator |-> c, token |-> t, amount |-> x]>> \in Seq(TipOp)
    BY <1>0 DEF TipOp
  <2> QED
    BY <1>14, <1>18, <2>1 DEF Fund
<1> QED
  BY <1>4, <1>17, <1>18 DEF TipStep

-----------------------------------------------------------------------------
\* The ways out take off the books what they pay.
LEMMA DebitTakes ==
  ASSUME LedgerPart, NEW c \in Party, NEW d \in Party, NEW t \in Token, NEW x \in Int,
         Debited(c, t, x), Pay(t, Jar, d, x), drift' = drift
  PROVE  Settles
<1>1. books' = Debit(books, c, t, x) /\ Good(books)
  BY DEF Debited, Debit, LedgerPart
<1>2. Recording(books, books', t, -x, 0)
  BY <1>1, DebitSound
<1>3. Takes(t, 0) /\ ReservesKept
  BY <1>2, PaidAndBooked
<1> QED
  BY <1>3 DEF Settles

WithdrawOp == [token : Token, amount : Int]
LEMMA DebitEven ==
  ASSUME NEW w \in Wallets, NEW b, Good(b), NEW c \in Party, NEW o \in WithdrawOp
  PROVE  Even(w, b, Transfer(w, o.token, Jar, c, o.amount), Debit(b, c, o.token, o.amount))
<1> DEFINE t == o.token
           x == o.amount
<1>1. t \in Token /\ x \in Int
  BY DEF WithdrawOp
<1> HIDE DEF t, x
<1>2. Recording(b, Debit(b, c, t, x), t, -x, 0)
  BY <1>1, DebitSound
<1>3. Even(w, b, Transfer(w, t, Jar, c, x), Debit(b, c, t, x))
  BY <1>1, <1>2, EvenOut
<1> QED
  BY <1>3 DEF t, x

LEMMA BatchWithdrawTakes ==
  ASSUME LedgerPart, NEW c \in Party, NEW o \in WithdrawOp, NEW q \in WithdrawOp,
         batch_withdraw(c, <<o, q>>)
  PROVE  Settles
<1> DEFINE b1 == Debit(books, c, o.token, o.amount)
           b2 == Debit(b1, c, q.token, q.amount)
           w1 == Transfer(wallet, o.token, Jar, c, o.amount)
           w2 == Transfer(w1, q.token, Jar, c, q.amount)
<1>1. drift' = drift /\ books' = b2 /\ wallet' = w2
  <2>1. Len(<<o, q>>) = 2 /\ <<o, q>>[1] = o /\ <<o, q>>[2] = q
    OBVIOUS
  <2> QED
    BY <2>1 DEF batch_withdraw, InOrder, Debit
<1>2. wallet \in Wallets /\ Good(books)
  BY DEF LedgerPart
<1>3. Even(wallet, books, w1, b1)
  BY <1>2, DebitEven
<1>4. w1 \in Wallets /\ Good(b1)
  BY <1>3 DEF Even
<1>5. Even(w1, b1, w2, b2)
  <2> HIDE DEF w1, b1
  <2> QED
    BY <1>4, DebitEven
<1> HIDE DEF w1, w2, b1, b2
<1>6. Even(wallet, books, wallet', books')
  BY <1>1, <1>3, <1>5, EvenTwice
<1>7. Takes(None, 0) /\ ReservesKept
  BY <1>1, <1>6, EvenTakes
<1> QED
  BY <1>7 DEF Settles

LEMMA PayoutsTake ==
  ASSUME LedgerPart, requests \in Seq(Request), PayoutStep
  PROVE  Settles
<1> USE DEF ledgerVars, KeepLedger, adminVars
<1>0. drift' = drift /\ \A x \in Amounts : x \in Int
  BY PayoutsKeep, LedgerAssumption
<1>a. UNCHANGED <<wallet, books>> => Settles
  BY <1>0, NothingTaken DEF Settles
<1>b. \A c \in Party, t \in Token : books.balance[c][t] \in Int
  BY DEF LedgerPart, Good, Books
<1>1. ASSUME NEW c, NEW x, set_withdrawal_limits(c, x) PROVE Settles
  BY <1>a, <1>1 DEF set_withdrawal_limits
<1>2. ASSUME NEW x, set_default_withdrawal_limits(x) PROVE Settles
  BY <1>a, <1>2 DEF set_default_withdrawal_limits
<1>3. ASSUME NEW c \in Party, NEW t \in Token, NEW x \in Int, withdraw(c, t, x) PROVE Settles
  <2>1. Debited(c, t, x) /\ Pay(t, Jar, c, x)
    BY <1>3 DEF withdraw
  <2> QED
    BY <1>0, <2>1, DebitTakes
<1>4. ASSUME NEW c \in Party, NEW t \in Token, NEW x \in Int, withdraw_amount(c, t, x) PROVE Settles
  <2>1. Debited(c, t, x) /\ Pay(t, Jar, c, x)
    BY <1>4 DEF withdraw_amount
  <2> QED
    BY <1>0, <2>1, DebitTakes
<1>5. ASSUME NEW c \in Party, NEW o \in WithdrawOps, NEW q \in WithdrawOps,
             batch_withdraw(c, <<o, q>>)
      PROVE  Settles
  <2>1. o \in WithdrawOp /\ q \in WithdrawOp
    BY <1>0 DEF WithdrawOp, WithdrawOps
  <2> QED
    BY <1>5, <2>1, BatchWithdrawTakes
<1>6. ASSUME NEW c \in Party, NEW t \in Token, emergency_withdraw(c, t) PROVE Settles
  <2> DEFINE x == books.balance[c][t]
  <2>1. Debited(c, t, x) /\ Pay(t, Jar, c, x)
    BY <1>6 DEF emergency_withdraw
  <2>2. x \in Int
    BY <1>b
  <2> HIDE DEF x
  <2> QED
    BY <1>0, <2>1, <2>2, DebitTakes
<1>7. ASSUME NEW c, NEW d, NEW g, delegate_withdrawal(c, d, g) PROVE Settles
  BY <1>a, <1>7 DEF delegate_withdrawal
<1>8. ASSUME NEW c \in Party, NEW d \in Party, NEW t \in Token, NEW x \in Int,
             withdraw_as_delegate(d, c, t, x)
      PROVE  Settles
  <2>1. Debited(c, t, x) /\ Pay(t, Jar, d, x)
    BY <1>8 DEF withdraw_as_delegate
  <2> QED
    BY <1>0, <2>1, DebitTakes
<1>9. ASSUME NEW c, NEW d, revoke_delegation(c, d) PROVE Settles
  BY <1>a, <1>9 DEF revoke_delegation
<1>10. ASSUME NEW x, set_multisig_config(x) PROVE Settles
  BY <1>a, <1>10 DEF set_multisig_config
<1>11. ASSUME NEW c \in Party, NEW t \in Token, NEW x \in Int, request_multisig_withdrawal(c, t, x)
       PROVE  Settles
  <2>1. (Debited(c, t, x) /\ Pay(t, Jar, c, x)) \/ UNCHANGED <<wallet, books>>
    BY <1>11 DEF request_multisig_withdrawal
  <2> QED
    BY <1>0, <1>a, <2>1, DebitTakes
<1>12. ASSUME NEW p, NEW i \in DOMAIN requests, approve_withdrawal(p, i)
       PROVE  Settles
  <2> DEFINE r == requests[i]
  <2>1. (Debited(r.creator, r.token, r.amount) /\ Pay(r.token, Jar, r.creator, r.amount))
        \/ UNCHANGED <<wallet, books>>
    BY <1>12 DEF approve_withdrawal
  <2>2. r \in Request
    OBVIOUS
  <2>3. r.creator \in Party /\ r.token \in Token /\ r.amount \in Int
    BY <2>2 DEF Request
  <2> HIDE DEF r
  <2> QED
    BY <1>0, <1>a, <2>1, <2>3, DebitTakes
<1>13. ASSUME NEW p, NEW i, cancel_multisig_withdrawal(p, i) PROVE Settles
  BY <1>a, <1>13 DEF cancel_multisig_withdrawal
<1>14. \A c \in Party, t \in Token : \A x \in Amounts \cup {books.balance[c][t]} : x \in Int
  BY <1>0, <1>b
<1> QED
  BY <1>0, <1>1, <1>2, <1>3, <1>4, <1>5, <1>6, <1>7, <1>8, <1>9, <1>10, <1>11, <1>12, <1>13, <1>14, Zenon
  DEF PayoutStep, LimitsNext, DelegationNext, MultisigNext

-----------------------------------------------------------------------------
\* The escrows.  What a function F of entries comes to over a list q of them.
Total(F, q) == SumFunction([i \in DOMAIN q |-> F[q[i]]])
\* A holds amounts per token for entries of S, and list r holds x more of t than q.
Holding(A, S) == A \in [Token -> [S -> Int]]
Grown(A, q, r, t, x) ==
  \A u \in Token : Total(A[u], r) = Total(A[u], q) + (IF u = t THEN x ELSE 0)
\* Entry e holds x more of t than entry d, and x of t in all.
Holds(A, e, t, x) == \A u \in Token : A[u][e] = IF u = t THEN x ELSE 0
HoldsMore(A, d, e, t, x) == \A u \in Token : A[u][e] = A[u][d] + (IF u = t THEN x ELSE 0)

LEMMA TotalType ==
  ASSUME NEW S, NEW F \in [S -> Int], NEW q \in Seq(S)
  PROVE  Total(F, q) \in Int
<1> DEFINE f == [i \in DOMAIN q |-> F[q[i]]]
<1>1. DOMAIN q = 1 .. Len(q) /\ Len(q) \in Nat /\ f \in [DOMAIN q -> Int]
  OBVIOUS
<1> HIDE DEF f
<1>2. IsFiniteSet(DOMAIN q)
  BY <1>1, FS_Interval
<1> QED
  BY <1>1, <1>2, SumType DEF Total, f

LEMMA TotalAppended ==
  ASSUME NEW S, NEW F \in [S -> Int], NEW q \in Seq(S), NEW e \in S
  PROVE  Total(F, Append(q, e)) = Total(F, q) + F[e]
<1> DEFINE n == Len(q)
           r == Append(q, e)
           f == [i \in DOMAIN q |-> F[q[i]]]
           g == [i \in DOMAIN r |-> F[r[i]]]
<1>1. /\ n \in Nat /\ DOMAIN q = 1 .. n /\ DOMAIN r = 1 .. n + 1
      /\ r \in Seq(S) /\ r[n + 1] = e /\ \A i \in 1 .. n : r[i] = q[i]
  BY SeqAppended
<1> HIDE DEF n, r
<1>2. \A i \in 1 .. n : q[i] \in S
  BY <1>1
<1>3. f \in [1 .. n -> Int] /\ g \in [1 .. n + 1 -> Int]
  BY <1>1, <1>2
<1>4. (\A i \in 1 .. n : g[i] = f[i]) /\ g[n + 1] = F[e]
  BY <1>1
<1> HIDE DEF f, g
<1>5. SumFunction(g) = SumFunction(f) + g[n + 1]
  BY <1>1, <1>3, <1>4, SumAppend
<1> QED
  BY <1>4, <1>5 DEF Total, f, g, r

\* List r is q with entry e at place i.
Swaps(S, q, i, e, r) ==
  /\ q \in Seq(S) /\ r \in Seq(S) /\ i \in DOMAIN q /\ e \in S
  /\ DOMAIN r = DOMAIN q /\ r[i] = e /\ \A j \in DOMAIN q \ {i} : r[j] = q[j]
LEMMA Swapped ==
  ASSUME NEW S, NEW q \in Seq(S), NEW i \in DOMAIN q, NEW e \in S
  PROVE  Swaps(S, q, i, e, [q EXCEPT ![i] = e])
BY SeqUpdated DEF Swaps

LEMMA TotalUpdated ==
  ASSUME NEW S, NEW F \in [S -> Int], NEW q, NEW i, NEW e, NEW r, Swaps(S, q, i, e, r)
  PROVE  Total(F, r) = Total(F, q) + F[e] - F[q[i]]
<1> DEFINE f == [j \in DOMAIN q |-> F[q[j]]]
           g == [j \in DOMAIN r |-> F[r[j]]]
<1>1. /\ q \in Seq(S) /\ r \in Seq(S) /\ i \in DOMAIN q /\ e \in S
      /\ DOMAIN r = DOMAIN q /\ r[i] = e /\ \A j \in DOMAIN q \ {i} : r[j] = q[j]
  BY DEF Swaps
<1>2. Len(q) \in Nat /\ DOMAIN q = 1 .. Len(q) /\ \A j \in DOMAIN q : q[j] \in S /\ r[j] \in S
  BY <1>1
<1>3. f \in [DOMAIN q -> Int] /\ g \in [DOMAIN q -> Int]
  BY <1>1, <1>2
<1>4. (\A j \in DOMAIN q \ {i} : g[j] = f[j]) /\ g[i] = F[e] /\ f[i] = F[q[i]]
  BY <1>1
<1> HIDE DEF f, g
<1>5. Alters(DOMAIN q, f, g, i)
  BY <1>1, <1>3, <1>4 DEF Alters
<1>6. IsFiniteSet(DOMAIN q)
  BY <1>2, FS_Interval
<1>7. SumFunction(g) = SumFunction(f) + g[i] - f[i]
  BY <1>5, <1>6, SumAltered
<1> QED
  BY <1>4, <1>7 DEF Total, f, g

LEMMA GrownSame ==
  ASSUME NEW A, NEW S, Holding(A, S), NEW q \in Seq(S), NEW t
  PROVE  Grown(A, q, q, t, 0)
<1>1. ASSUME NEW u \in Token PROVE Total(A[u], q) \in Int
  <2>1. A[u] \in [S -> Int]
    BY DEF Holding
  <2> QED
    BY <2>1, TotalType
<1> QED
  BY <1>1 DEF Grown

LEMMA GrownByOne ==
  ASSUME NEW A, NEW S, Holding(A, S), NEW q \in Seq(S), NEW e \in S, NEW t, NEW x,
         Holds(A, e, t, x)
  PROVE  Append(q, e) \in Seq(S) /\ Grown(A, q, Append(q, e), t, x)
<1>1. ASSUME NEW u \in Token
      PROVE  Total(A[u], Append(q, e)) = Total(A[u], q) + (IF u = t THEN x ELSE 0)
  <2>1. A[u] \in [S -> Int]
    BY DEF Holding
  <2>2. Total(A[u], Append(q, e)) = Total(A[u], q) + A[u][e]
    BY <2>1, TotalAppended
  <2> QED
    BY <2>2 DEF Holds
<1>2. Append(q, e) \in Seq(S)
  BY SeqAppended
<1> QED
  BY <1>1, <1>2 DEF Grown

LEMMA GrownAtOne ==
  ASSUME NEW A, NEW S, Holding(A, S), NEW q, NEW i, NEW e, NEW r, Swaps(S, q, i, e, r),
         NEW t, NEW x \in Int, HoldsMore(A, q[i], e, t, x)
  PROVE  r \in Seq(S) /\ Grown(A, q, r, t, x)
<1>0. q \in Seq(S) /\ r \in Seq(S) /\ q[i] \in S
  BY DEF Swaps
<1>1. ASSUME NEW u \in Token
      PROVE  Total(A[u], r) = Total(A[u], q) + (IF u = t THEN x ELSE 0)
  <2> DEFINE F == A[u]
             d == q[i]
  <2>1. F \in [S -> Int]
    BY DEF Holding
  <2>2. F[e] = F[d] + (IF u = t THEN x ELSE 0) /\ F[d] \in Int
    BY <1>0, <2>1 DEF HoldsMore
  <2> HIDE DEF F
  <2>a. Total(F, q) \in Int
    BY <1>0, <2>1, TotalType
  <2>b. Total(F, r) = Total(F, q) + F[e] - F[d]
    BY <2>1, TotalUpdated
  <2>3. Total(F, r) = Total(F, q) + F[e] - F[d] /\ Total(F, q) \in Int
    BY <2>a, <2>b
  <2> HIDE DEF d
  <2>4. Total(F, r) = Total(F, q) + (IF u = t THEN x ELSE 0)
    BY <2>2, <2>3
  <2> QED
    BY <2>4 DEF F
<1> QED
  BY <1>0, <1>1 DEF Grown

\* The five kinds of entries that hold an amount, and what they hold per token.
MaybeLock == {None} \cup Lock
Vesting == [u \in Token |-> [v \in Schedule |-> VestingHeld(v, u)]]
Locking == [u \in Token |-> [l \in MaybeLock |-> LockHeld(l, u)]]
Streaming == [u \in Token |-> [m \in Stream |-> StreamHeld(m, u)]]
Puzzling == [u \in Token |-> [z \in Puzzle |-> PuzzleHeld(z, u)]]
Bidding == [u \in Token |-> [a \in Auction |-> AuctionHeld(a, u)]]
EscrowTypes ==
  /\ schedules \in Seq(Schedule) /\ locks \in Seq(MaybeLock) /\ streams \in Seq(Stream)
  /\ puzzles \in Seq(Puzzle) /\ auctions \in Seq(Auction)
EscrowIn(sc, lo, st, pu, au, u) ==
  Total(Vesting[u], sc) + Total(Locking[u], lo) + Total(Streaming[u], st)
    + Total(Puzzling[u], pu) + Total(Bidding[u], au)

LEMMA HoldingTypes ==
  /\ Holding(Vesting, Schedule) /\ Holding(Locking, MaybeLock) /\ Holding(Streaming, Stream)
  /\ Holding(Puzzling, Puzzle) /\ Holding(Bidding, Auction)
<1>1. \A u \in Token, v \in Schedule : VestingHeld(v, u) \in Int
  BY DEF Schedule, VestingHeld
<1>2. \A u \in Token, l \in MaybeLock : LockHeld(l, u) \in Int
  <2>1. \A l \in Lock : l.amount \in Int
    BY DEF Lock
  <2> QED
    BY <2>1 DEF LockHeld, MaybeLock
<1>3. \A u \in Token, m \in Stream : StreamHeld(m, u) \in Int
  <2> SUFFICES ASSUME NEW u \in Token, NEW m \in Stream PROVE StreamHeld(m, u) \in Int
    OBVIOUS
  <2>1. m.withdrawn \in Int /\ m.rate \in Int /\ m.end - m.start \in Int
    BY DEF Stream
  <2>2. m.rate * (m.end - m.start) \in Int
    BY <2>1
  <2> QED
    BY <2>1, <2>2 DEF StreamHeld, Deposit
<1>4. \A u \in Token, z \in Puzzle : PuzzleHeld(z, u) \in Int
  BY DEF Puzzle, PuzzleHeld
<1>5. \A u \in Token, a \in Auction : AuctionHeld(a, u) \in Int
  BY DEF Auction, AuctionHeld
<1> QED
  BY <1>1, <1>2, <1>3, <1>4, <1>5 DEF Holding, Vesting, Locking, Streaming, Puzzling, Bidding

LEMMA EscrowSums ==
  ASSUME EscrowTypes, NEW u \in Token
  PROVE  /\ LockEscrow(u) = Total(Vesting[u], schedules) + Total(Locking[u], locks)
                              + Total(Streaming[u], streams) + Total(Puzzling[u], puzzles)
         /\ AuctionEscrow(u) = Total(Bidding[u], auctions)
<1>1. Total(Vesting[u], schedules) = SumFunction([i \in DOMAIN schedules |-> VestingHeld(schedules[i], u)])
  <2>1. \A i \in DOMAIN schedules : schedules[i] \in Schedule
    BY DEF EscrowTypes
  <2>2. \A v \in Schedule : Vesting[u][v] = VestingHeld(v, u)
    BY DEF Vesting
  <2>3. [i \in DOMAIN schedules |-> Vesting[u][schedules[i]]]
          = [i \in DOMAIN schedules |-> VestingHeld(schedules[i], u)]
    BY <2>1, <2>2
  <2> QED
    BY <2>3 DEF Total
<1>2. Total(Locking[u], locks) = SumFunction([i \in DOMAIN locks |-> LockHeld(locks[i], u)])
  <2>1. \A i \in DOMAIN locks : locks[i] \in MaybeLock
    BY DEF EscrowTypes
  <2>2. \A l \in MaybeLock : Locking[u][l] = LockHeld(l, u)
    BY DEF Locking
  <2>3. [i \in DOMAIN locks |-> Locking[u][locks[i]]] = [i \in DOMAIN locks |-> LockHeld(locks[i], u)]
    BY <2>1, <2>2
  <2> QED
    BY <2>3 DEF Total
<1>3. Total(Streaming[u], streams) = SumFunction([i \in DOMAIN streams |-> StreamHeld(streams[i], u)])
  <2>1. \A i \in DOMAIN streams : streams[i] \in Stream
    BY DEF EscrowTypes
  <2>2. \A m \in Stream : Streaming[u][m] = StreamHeld(m, u)
    BY DEF Streaming
  <2>3. [i \in DOMAIN streams |-> Streaming[u][streams[i]]]
          = [i \in DOMAIN streams |-> StreamHeld(streams[i], u)]
    BY <2>1, <2>2
  <2> QED
    BY <2>3 DEF Total
<1>4. Total(Puzzling[u], puzzles) = SumFunction([i \in DOMAIN puzzles |-> PuzzleHeld(puzzles[i], u)])
  <2>1. \A i \in DOMAIN puzzles : puzzles[i] \in Puzzle
    BY DEF EscrowTypes
  <2>2. \A z \in Puzzle : Puzzling[u][z] = PuzzleHeld(z, u)
    BY DEF Puzzling
  <2>3. [i \in DOMAIN puzzles |-> Puzzling[u][puzzles[i]]]
          = [i \in DOMAIN puzzles |-> PuzzleHeld(puzzles[i], u)]
    BY <2>1, <2>2
  <2> QED
    BY <2>3 DEF Total
<1>5. Total(Bidding[u], auctions) = SumFunction([i \in DOMAIN auctions |-> AuctionHeld(auctions[i], u)])
  <2>1. \A i \in DOMAIN auctions : auctions[i] \in Auction
    BY DEF EscrowTypes
  <2>2. \A a \in Auction : Bidding[u][a] = AuctionHeld(a, u)
    BY DEF Bidding
  <2>3. [i \in DOMAIN auctions |-> Bidding[u][auctions[i]]]
          = [i \in DOMAIN auctions |-> AuctionHeld(auctions[i], u)]
    BY <2>1, <2>2
  <2> QED
    BY <2>3 DEF Total
<1> QED
  BY <1>1, <1>2, <1>3, <1>4, <1>5 DEF LockEscrow, AuctionEscrow

\* A step that puts x more of t into the escrows, and one that changes one list of them.
EscrowNow(u) == EscrowIn(schedules, locks, streams, puzzles, auctions, u)
Escrows(t, x) ==
  \A u \in Token : EscrowIn(schedules', locks', streams', puzzles', auctions', u)
                     = EscrowNow(u) + (IF u = t THEN x ELSE 0)
EscrowChange(t, x) ==
  \/ /\ schedules' \in Seq(Schedule) /\ Grown(Vesting, schedules, schedules', t, x)
     /\ UNCHANGED <<locks, streams, puzzles, auctions>>
  \/ /\ locks' \in Seq(MaybeLock) /\ Grown(Locking, locks, locks', t, x)
     /\ UNCHANGED <<schedules, streams, puzzles, auctions>>
  \/ /\ streams' \in Seq(Stream) /\ Grown(Streaming, streams, streams', t, x)
     /\ UNCHANGED <<schedules, locks, puzzles, auctions>>
  \/ /\ puzzles' \in Seq(Puzzle) /\ Grown(Puzzling, puzzles, puzzles', t, x)
     /\ UNCHANGED <<schedules, locks, streams, auctions>>
  \/ /\ auctions' \in Seq(Auction) /\ Grown(Bidding, auctions, auctions', t, x)
     /\ UNCHANGED <<schedules, locks, streams, puzzles>>

LEMMA EscrowParts ==
  ASSUME EscrowTypes, NEW u \in Token
  PROVE  /\ Total(Vesting[u], schedules) \in Int /\ Total(Locking[u], locks) \in Int
         /\ Total(Streaming[u], streams) \in Int /\ Total(Puzzling[u], puzzles) \in Int
         /\ Total(Bidding[u], auctions) \in Int
<1>1. /\ Vesting[u] \in [Schedule -> Int] /\ Locking[u] \in [MaybeLock -> Int]
      /\ Streaming[u] \in [Stream -> Int] /\ Puzzling[u] \in [Puzzle -> Int]
      /\ Bidding[u] \in [Auction -> Int]
  BY HoldingTypes DEF Holding
<1> QED
  BY <1>1, TotalType DEF EscrowTypes

LEMMA EscrowMoves ==
  ASSUME EscrowTypes, NEW t, NEW x \in Int, EscrowChange(t, x)
  PROVE  EscrowTypes' /\ Escrows(t, x)
<1>1. EscrowTypes'
  BY DEF EscrowTypes, EscrowChange
<1>2. ASSUME NEW u \in Token
      PROVE  EscrowIn(schedules', locks', streams', puzzles', auctions', u)
               = EscrowNow(u) + (IF u = t THEN x ELSE 0)
  <2> DEFINE y == IF u = t THEN x ELSE 0
             a == Total(Vesting[u], schedules)
             b == Total(Locking[u], locks)
             c == Total(Streaming[u], streams)
             d == Total(Puzzling[u], puzzles)
             e == Total(Bidding[u], auctions)
             a1 == Total(Vesting[u], schedules')
             b1 == Total(Locking[u], locks')
             c1 == Total(Streaming[u], streams')
             d1 == Total(Puzzling[u], puzzles')
             e1 == Total(Bidding[u], auctions')
  <2>1. a \in Int /\ b \in Int /\ c \in Int /\ d \in Int /\ e \in Int /\ y \in Int
    BY EscrowParts
  <2>2. \/ a1 = a + y /\ b1 = b /\ c1 = c /\ d1 = d /\ e1 = e
        \/ a1 = a /\ b1 = b + y /\ c1 = c /\ d1 = d /\ e1 = e
        \/ a1 = a /\ b1 = b /\ c1 = c + y /\ d1 = d /\ e1 = e
        \/ a1 = a /\ b1 = b /\ c1 = c /\ d1 = d + y /\ e1 = e
        \/ a1 = a /\ b1 = b /\ c1 = c /\ d1 = d /\ e1 = e + y
    BY DEF EscrowChange, Grown
  <2> HIDE DEF a, b, c, d, e, a1, b1, c1, d1, e1, y
  <2>3. a1 + b1 + c1 + d1 + e1 = a + b + c + d + e + y
    BY <2>1, <2>2
  <2> QED
    BY <2>3 DEF a, b, c, d, e, a1, b1, c1, d1, e1, y, EscrowIn, EscrowNow
<1> QED
  BY <1>1, <1>2 DEF Escrows

\* The jar's accounts after a step: holdings and escrows moved together.
Beyond(u) == Excess(wallet, books, drift, u) - EscrowNow(u)
Accounts ==
  \A u \in Token :
    Excess(wallet', books', drift', u) - EscrowIn(schedules', locks', streams', puzzles', auctions', u)
      = Beyond(u)

LEMMA ExcessType ==
  ASSUME NEW w \in Wallets, NEW b, Good(b), NEW d \in Drifts, NEW u \in Token
  PROVE  /\ Excess(w, b, d, u) \in Int /\ w[u][Jar] \in Int /\ RecordedIn(b, u) \in Int
         /\ Off(d, u) \in Int
<1>1. w[u][Jar] \in Int
  BY DEF Wallets, Account
<1>2. RecordedIn(b, u) \in Int
  BY RecordingNothing DEF Recording
<1>3. Off(d, u) \in Int
  BY OffType
<1> QED
  BY <1>1, <1>2, <1>3 DEF Excess

LEMMA EscrowType ==
  ASSUME EscrowTypes, NEW u \in Token
  PROVE  EscrowNow(u) \in Int
<1> DEFINE a == Total(Vesting[u], schedules)
           b == Total(Locking[u], locks)
           c == Total(Streaming[u], streams)
           d == Total(Puzzling[u], puzzles)
           e == Total(Bidding[u], auctions)
<1>1. a \in Int /\ b \in Int /\ c \in Int /\ d \in Int /\ e \in Int
  BY EscrowParts
<1>2. EscrowNow(u) = a + b + c + d + e
  BY DEF EscrowNow, EscrowIn
<1> HIDE DEF a, b, c, d, e
<1> QED
  BY <1>1, <1>2

LEMMA AccountsMove ==
  ASSUME LedgerPart, EscrowTypes, NEW t, NEW x \in Int, Takes(t, x), Escrows(t, x)
  PROVE  Accounts
<1> SUFFICES ASSUME NEW u \in Token
             PROVE  Excess(wallet', books', drift', u)
                      - EscrowIn(schedules', locks', streams', puzzles', auctions', u) = Beyond(u)
  BY DEF Accounts
<1>1. Excess(wallet, books, drift, u) \in Int /\ EscrowNow(u) \in Int
  BY ExcessType, EscrowType DEF LedgerPart
<1>2. /\ Excess(wallet', books', drift', u) = Excess(wallet, books, drift, u) + (IF u = t THEN x ELSE 0)
      /\ EscrowIn(schedules', locks', streams', puzzles', auctions', u)
           = EscrowNow(u) + (IF u = t THEN x ELSE 0)
  BY DEF Takes, Escrows
<1> QED
  BY <1>1, <1>2 DEF Beyond

LEMMA JarAccountedIs ==
  LedgerPart /\ EscrowTypes => (JarAccounted <=> \A u \in Token : Beyond(u) = 0)
<1> SUFFICES ASSUME LedgerPart, EscrowTypes
             PROVE  JarAccounted <=> \A u \in Token : Beyond(u) = 0
  OBVIOUS
<1>1. ASSUME NEW u \in Token
      PROVE  Beyond(u) = 0 <=>
               wallet[u][Jar] = Recorded(u) + LockEscrow(u) + AuctionEscrow(u) + Drift(u)
  <2> DEFINE w == wallet[u][Jar]
             r == RecordedIn(books, u)
             o == Off(drift, u)
             l == LockEscrow(u)
             a == AuctionEscrow(u)
  <2>1. w \in Int /\ r \in Int /\ o \in Int /\ EscrowNow(u) \in Int
    BY ExcessType, EscrowType DEF LedgerPart
  <2>2. l + a = EscrowNow(u) /\ Beyond(u) = w - r - o - EscrowNow(u)
    BY EscrowSums DEF EscrowNow, EscrowIn, Beyond, Excess
  <2>3. Recorded(u) = r /\ Drift(u) = o
    BY DEF Recorded, Drift, Off
  <2>4. l \in Int /\ a \in Int
    <3> DEFINE p == Total(Vesting[u], schedules)
               q == Total(Locking[u], locks)
               s == Total(Streaming[u], streams)
               z == Total(Puzzling[u], puzzles)
    <3>1. p \in Int /\ q \in Int /\ s \in Int /\ z \in Int /\ Total(Bidding[u], auctions) \in Int
      BY EscrowParts
    <3>2. l = p + q + s + z /\ a = Total(Bidding[u], auctions)
      BY EscrowSums
    <3> HIDE DEF p, q, s, z, l, a
    <3> QED
      BY <3>1, <3>2
  <2> HIDE DEF w, r, o, l, a
  <2>5. Beyond(u) = 0 <=> w = r + l + a + o
    BY <2>1, <2>2, <2>4
  <2> QED
    BY <2>3, <2>5 DEF w, r, o, l, a
<1> QED
  BY <1>1 DEF JarAccounted

-----------------------------------------------------------------------------
\* The calls on the escrows.
LockFine ==
  /\ wallet' \in Wallets /\ Good(books') /\ drift' \in Drifts
  /\ ReservesKept /\ drift'.rewards = drift.rewards
  /\ EscrowTypes' /\ Accounts

LEMMA Fine ==
  ASSUME LedgerPart, EscrowTypes, NEW t, NEW x \in Int, Takes(t, x), ReservesKept,
         drift'.rewards = drift.rewards, EscrowChange(t, x)
  PROVE  LockFine
<1>1. EscrowTypes' /\ Escrows(t, x)
  BY EscrowMoves
<1>2. Accounts
  BY <1>1, AccountsMove
<1> QED
  BY <1>1, <1>2 DEF Takes, LockFine

LEMMA EscrowedIn ==
  ASSUME LedgerPart, EscrowTypes, NEW s \in Party, NEW t \in Token, NEW x \in Int,
         Pay(t, s, Jar, x), UNCHANGED <<books, drift>>, EscrowChange(t, x)
  PROVE  LockFine
<1>1. Good(books) /\ drift' \in Drifts /\ drift' = drift
  BY DEF LedgerPart
<1>2. Recording(books, books', t, 0, 0) /\ Drifted(drift, drift', t, 0)
  BY <1>1, RecordingNothing, NoDrift
<1>3. Takes(t, x - 0 - 0) /\ (0 >= 0 => ReservesKept)
  BY <1>1, <1>2, PayIn
<1>4. x - 0 - 0 = x /\ 0 >= 0
  OBVIOUS
<1>5. Takes(t, x) /\ ReservesKept
  BY <1>3, <1>4
<1> QED
  BY <1>1, <1>5, Fine

LEMMA EscrowedOut ==
  ASSUME LedgerPart, EscrowTypes, NEW c \in Party, NEW t \in Token, NEW x \in Int, NEW y, y = -x,
         Pay(t, Jar, c, x), UNCHANGED <<books, drift>>, EscrowChange(t, y)
  PROVE  LockFine
<1>1. Good(books) /\ drift' \in Drifts /\ drift' = drift
  BY DEF LedgerPart
<1>2. Recording(books, books', t, 0, 0) /\ Drifted(drift, drift', t, 0)
  BY <1>1, RecordingNothing, NoDrift
<1>3. Takes(t, (-x) - 0 - 0) /\ (0 >= 0 => ReservesKept)
  BY <1>1, <1>2, PayOut
<1>4. (-x) - 0 - 0 = y /\ 0 >= 0 /\ y \in Int
  OBVIOUS
<1>5. Takes(t, y) /\ ReservesKept
  BY <1>3, <1>4
<1> QED
  BY <1>1, <1>4, <1>5, Fine

LEMMA NothingEscrowed ==
  ASSUME LedgerPart, EscrowTypes, UNCHANGED <<wallet, books, drift>>,
         UNCHANGED <<schedules, locks, streams, puzzles, auctions>>
  PROVE  LockFine
<1>1. Takes(None, 0) /\ ReservesKept
  BY NothingTaken
<1>2. schedules \in Seq(Schedule)
  BY DEF EscrowTypes
<1>3. Holding(Vesting, Schedule)
  BY HoldingTypes
<1>4. Grown(Vesting, schedules, schedules', None, 0)
  BY <1>2, <1>3, GrownSame
<1>5. EscrowChange(None, 0)
  BY <1>2, <1>4 DEF EscrowChange
<1>6. 0 \in Int /\ drift'.rewards = drift.rewards
  OBVIOUS
<1> QED
  BY <1>1, <1>5, <1>6, Fine

LEMMA VestingCreated ==
  ASSUME LedgerPart, EscrowTypes, now \in Int, NEW s \in Party, NEW c \in Party, NEW t \in Token,
         NEW x \in Int, NEW cliff \in Int, NEW n \in Nat, UNCHANGED auctions,
         create_vesting_schedule(s, c, t, x, cliff, n)
  PROVE  LockFine
<1> DEFINE e == [creator |-> c, token |-> t, amount |-> x, start |-> now,
                 cliff |-> cliff, duration |-> n, withdrawn |-> 0]
<1>1. /\ n > 0 /\ schedules' = Append(schedules, e) /\ Pay(t, s, Jar, x)
      /\ UNCHANGED <<books, drift, locks, streams, puzzles>>
  BY DEF create_vesting_schedule
<1>2. e \in Schedule
  BY <1>1 DEF Schedule
<1>3. \A u \in Token : VestingHeld(e, u) = IF u = t THEN x ELSE 0
  BY DEF VestingHeld
<1> HIDE DEF e
<1>4. Holds(Vesting, e, t, x)
  BY <1>2, <1>3 DEF Vesting, Holds
<1>5. schedules \in Seq(Schedule) /\ Holding(Vesting, Schedule)
  BY HoldingTypes DEF EscrowTypes
<1>6. schedules' \in Seq(Schedule) /\ Grown(Vesting, schedules, schedules', t, x)
  BY <1>1, <1>2, <1>4, <1>5, GrownByOne
<1>7. EscrowChange(t, x)
  BY <1>1, <1>6 DEF EscrowChange
<1> QED
  BY <1>1, <1>7, EscrowedIn

LEMMA VestedWithdrawn ==
  ASSUME ConfigPart, now \in 1 .. MaxTime, LedgerPart, EscrowTypes, NEW c \in Party,
         NEW i \in DOMAIN schedules, UNCHANGED auctions, withdraw_vested(c, i)
  PROVE  LockFine
<1> DEFINE v == schedules[i]
           x == calculate_vested_amount(v) - v.withdrawn
           t == v.token
           k == Repayment(books.credit, c, t, x)
           y == v.withdrawn + x
           e == [v EXCEPT !.withdrawn = y]
<1>1. /\ x > 0 /\ schedules' = [schedules EXCEPT ![i] = e]
      /\ books' = Levied(books, c, t, x) /\ Pay(t, Jar, c, x - k)
      /\ UNCHANGED <<drift, locks, streams, puzzles>>
  <2>1. schedules' = [schedules EXCEPT ![i].withdrawn = y]
    BY DEF withdraw_vested
  <2>2. [schedules EXCEPT ![i].withdrawn = y] = [schedules EXCEPT ![i] = e]
    OBVIOUS
  <2>3. books' = Levied(books, c, t, x)
    BY DEF withdraw_vested, Levied
  <2> QED
    BY <2>1, <2>2, <2>3 DEF withdraw_vested
<1>2. v \in Schedule
  BY DEF EscrowTypes
<1>3. /\ v.amount \in Int /\ v.withdrawn \in Int /\ v.token \in Token /\ v.start \in Int
      /\ v.duration \in Nat \ {0} /\ v.cliff \in Int /\ now \in Int
  BY <1>2 DEF Schedule
<1>4. x \in Nat
  <2>1. (v.amount * (now - v.start)) \in Int
    BY <1>3
  <2>2. (v.amount * (now - v.start)) \div v.duration \in Int
    BY <1>3, <2>1
  <2>3. calculate_vested_amount(v) \in Int
    BY <1>3, <2>2 DEF calculate_vested_amount
  <2> QED
    BY <1>1, <1>3, <2>3
<1> HIDE DEF x
<1>5. y \in Int
  BY <1>3, <1>4
<1>6. e \in Schedule
  <2> HIDE DEF y, v
  <2> QED
    BY <1>2, <1>5 DEF Schedule
<1>7. \A u \in Token : VestingHeld(e, u) = VestingHeld(v, u) + (IF u = t THEN -x ELSE 0)
  <2>1. e.withdrawn = v.withdrawn + x /\ e.token = v.token /\ e.amount = v.amount
    BY <1>2 DEF Schedule
  <2> HIDE DEF e, v
  <2> QED
    BY <1>3, <1>4, <2>1 DEF VestingHeld
<1> HIDE DEF e, y
<1>8. HoldsMore(Vesting, v, e, t, -x)
  BY <1>2, <1>6, <1>7 DEF Vesting, HoldsMore
<1>9. Swaps(Schedule, schedules, i, e, schedules')
  BY <1>1, <1>6, Swapped DEF EscrowTypes
<1>10. Holding(Vesting, Schedule) /\ -x \in Int
  BY <1>4, HoldingTypes
<1>11. schedules' \in Seq(Schedule) /\ Grown(Vesting, schedules, schedules', t, -x)
  BY <1>8, <1>9, <1>10, GrownAtOne
<1>12. EscrowChange(t, -x)
  BY <1>1, <1>11 DEF EscrowChange
<1>13. t \in Token /\ Good(books) /\ drift' \in Drifts /\ drift' = drift
  BY <1>1, <1>3 DEF LedgerPart
<1> HIDE DEF t, v
<1>14. k \in Nat /\ Recording(books, books', t, k, 0)
  BY <1>1, <1>4, <1>13, FeesTaken
<1> HIDE DEF k
<1>15. Drifted(drift, drift', t, 0) /\ x - k \in Int /\ k \in Int
  BY <1>4, <1>13, <1>14, NoDrift
<1>16. Takes(t, (-(x - k)) - k - 0) /\ (0 >= 0 => ReservesKept)
  BY <1>1, <1>13, <1>14, <1>15, PayOut
<1>17. (-(x - k)) - k - 0 = -x /\ 0 >= 0
  BY <1>4, <1>14
<1>18. Takes(t, -x) /\ ReservesKept
  BY <1>16, <1>17
<1> QED
  BY <1>10, <1>12, <1>13, <1>18, Fine

LEMMA TimeLocked ==
  ASSUME LedgerPart, EscrowTypes, now \in Int, refundWindow \in Nat, NEW s \in Party, NEW c \in Party,
         NEW t \in Token, NEW x \in Int, NEW n \in Int, UNCHANGED auctions,
         tip_time_locked(s, c, t, x, n)
  PROVE  LockFine
<1> DEFINE e == [sender |-> s, creator |-> c, token |-> t, amount |-> x, unlock_time |-> now + n,
                 expires_at |-> now + refundWindow, cancelled |-> FALSE]
<1>1. /\ locks' = Append(locks, e) /\ Pay(t, s, Jar, x)
      /\ UNCHANGED <<books, drift, schedules, streams, puzzles>>
  BY DEF tip_time_locked
<1>2. e \in Lock /\ e \in MaybeLock /\ e # None
  <2>1. e \in Lock
    BY DEF Lock
  <2> QED
    BY <2>1, LocksAssumption DEF MaybeLock
<1>3. \A u \in Token : LockHeld(e, u) = IF u = t THEN x ELSE 0
  BY <1>2 DEF LockHeld
<1> HIDE DEF e
<1>4. Holds(Locking, e, t, x)
  BY <1>2, <1>3 DEF Locking, Holds
<1>5. locks \in Seq(MaybeLock) /\ Holding(Locking, MaybeLock)
  BY HoldingTypes DEF EscrowTypes
<1>6. locks' \in Seq(MaybeLock) /\ Grown(Locking, locks, locks', t, x)
  BY <1>1, <1>2, <1>4, <1>5, GrownByOne
<1>7. EscrowChange(t, x)
  BY <1>1, <1>6 DEF EscrowChange
<1> QED
  BY <1>1, <1>7, EscrowedIn

\* A lock is paid out, in whatever token the caller names: the drift keeps the difference.
LEMMA LockPaid ==
  ASSUME LedgerPart, NEW i, locks[i] \in Lock, NEW t \in Token, NEW to \in Party,
         PayLock(i, t, to), books' = books
  PROVE  /\ Takes(locks[i].token, -locks[i].amount) /\ ReservesKept
         /\ drift'.rewards = drift.rewards
<1> DEFINE x == locks[i].amount
           own == locks[i].token
           mid == [drift.swapped EXCEPT ![own] = drift.swapped[own] + x]
           swp == [mid EXCEPT ![t] = mid[t] - x]
<1>1. x \in Int /\ own \in Token
  BY DEF Lock
<1>2. /\ Pay(t, Jar, to, x)
      /\ drift' = IF t = own THEN drift ELSE [drift EXCEPT !.swapped = swp]
  BY DEF PayLock
<1> HIDE DEF x, own
<1>3. Good(books) /\ drift \in Drifts /\ wallet \in Wallets
  BY DEF LedgerPart
<1>4. CASE t = own
  <2>1. drift' = drift /\ drift' \in Drifts
    BY <1>2, <1>3, <1>4
  <2>2. Recording(books, books', t, 0, 0) /\ Drifted(drift, drift', t, 0)
    BY <1>3, <2>1, RecordingNothing, NoDrift
  <2>3. Takes(t, (-x) - 0 - 0) /\ (0 >= 0 => ReservesKept)
    BY <1>1, <1>2, <2>1, <2>2, PayOut
  <2>4. (-x) - 0 - 0 = -x /\ 0 >= 0
    BY <1>1
  <2>5. Takes(t, -x) /\ ReservesKept
    BY <2>3, <2>4
  <2> QED
    BY <1>4, <2>1, <2>5 DEF x, own
<1>5. CASE t # own
  <2>1. swp \in [Token -> Int] /\ \A u \in Token : swp[u] =
          IF u = own THEN drift.swapped[u] + x ELSE IF u = t THEN drift.swapped[u] - x ELSE drift.swapped[u]
    BY <1>1, <1>3, <1>5 DEF Drifts
  <2> HIDE DEF swp
  <2>2. /\ drift' \in Drifts /\ drift'.swapped = swp /\ drift'.lost = drift.lost
        /\ drift'.rewards = drift.rewards /\ drift'.repaid = drift.repaid
    BY <1>2, <1>3, <1>5, <2>1 DEF Drifts
  <2>3. /\ wallet' \in Wallets
        /\ \A u \in Token : wallet'[u][Jar] = wallet[u][Jar] - (IF u = t THEN x ELSE 0)
    BY <1>1, <1>2, <1>3, PaidByJar DEF Pay
  <2>4. ASSUME NEW u \in Token
        PROVE  Excess(wallet', books', drift', u)
                 = Excess(wallet, books, drift, u) + (IF u = own THEN -x ELSE 0)
    <3>1. Excess(wallet, books, drift, u) \in Int /\ wallet[u][Jar] \in Int
          /\ RecordedIn(books, u) \in Int /\ Off(drift, u) \in Int
      BY <1>3, ExcessType
    <3>2. Off(drift', u) = Off(drift, u) + (IF u = own THEN x ELSE IF u = t THEN -x ELSE 0)
      <4>1. drift.swapped[u] \in Int /\ drift.lost[u] \in Int /\ drift.rewards[u] \in Int
            /\ drift.repaid[u] \in Int
        BY <1>3 DEF Drifts
      <4> QED
        BY <1>1, <2>1, <2>2, <4>1 DEF Off
    <3> QED
      BY <1>1, <1>5, <2>3, <3>1, <3>2 DEF Excess
  <2>5. Takes(own, -x)
    BY <1>3, <2>2, <2>3, <2>4 DEF Takes
  <2>6. \A u \in Token : books.reserves[u] \in Int
    BY <1>3 DEF Good, Books
  <2> QED
    BY <2>2, <2>5, <2>6 DEF x, own, ReservesKept
<1> QED
  BY <1>4, <1>5

\* A lock that held its amount holds nothing any more.
LEMMA LockClosed ==
  ASSUME EscrowTypes, NEW i \in DOMAIN locks, Open(locks[i]), NEW e \in MaybeLock, ~Open(e),
         locks' = [locks EXCEPT ![i] = e], UNCHANGED <<schedules, streams, puzzles, auctions>>
  PROVE  locks[i] \in Lock /\ EscrowChange(locks[i].token, -locks[i].amount)
<1> DEFINE l == locks[i]
<1>1. l \in MaybeLock
  BY DEF EscrowTypes
<1>2. l \in Lock
  BY <1>1 DEF Open, MaybeLock
<1>3. l.amount \in Int /\ l.token \in Token
  BY <1>2 DEF Lock
<1>4. \A u \in Token : LockHeld(e, u) = LockHeld(l, u) + (IF u = l.token THEN -l.amount ELSE 0)
  BY <1>3 DEF LockHeld, Open
<1>5. HoldsMore(Locking, l, e, l.token, -l.amount)
  BY <1>1, <1>4 DEF HoldsMore, Locking
<1>6. Swaps(MaybeLock, locks, i, e, locks')
  BY Swapped DEF EscrowTypes
<1>7. Holding(Locking, MaybeLock) /\ -l.amount \in Int
  BY <1>3, HoldingTypes
<1>8. locks' \in Seq(MaybeLock) /\ Grown(Locking, locks, locks', l.token, -l.amount)
  <2> DEFINE y == -l.amount
             t == l.token
  <2>1. y \in Int /\ HoldsMore(Locking, locks[i], e, t, y)
    BY <1>5, <1>7
  <2> HIDE DEF y, t
  <2>2. locks' \in Seq(MaybeLock) /\ Grown(Locking, locks, locks', t, y)
    BY <1>6, <1>7, <2>1, GrownAtOne
  <2> QED
    BY <2>2 DEF y, t
<1> QED
  BY <1>2, <1>8 DEF EscrowChange

LEMMA LockEnded ==
  ASSUME LedgerPart, EscrowTypes, NEW i \in DOMAIN locks, Open(locks[i]), NEW e \in MaybeLock,
         ~Open(e), locks' = [locks EXCEPT ![i] = e], NEW t \in Token, NEW to \in Party,
         PayLock(i, t, to), UNCHANGED <<books, schedules, streams, puzzles, auctions>>
  PROVE  LockFine
<1> DEFINE y == -locks[i].amount
           own == locks[i].token
<1>1. locks[i] \in Lock /\ EscrowChange(own, y)
  BY LockClosed
<1>2. y \in Int
  BY <1>1 DEF Lock
<1>3. Takes(own, y) /\ ReservesKept /\ drift'.rewards = drift.rewards
  BY <1>1, LockPaid
<1> HIDE DEF y, own
<1> QED
  BY <1>1, <1>2, <1>3, Fine

LEMMA TimeLockEnded ==
  ASSUME LedgerPart, EscrowTypes, NEW s \in Party, NEW t \in Token, NEW i \in DOMAIN locks,
         UNCHANGED auctions, withdraw_time_locked(s, t, i) \/ cancel_time_lock(s, t, i)
  PROVE  LockFine
<1>0. locks[i] \in MaybeLock
  BY DEF EscrowTypes
<1>1. CASE withdraw_time_locked(s, t, i)
  <2>1. /\ Open(locks[i]) /\ locks' = [locks EXCEPT ![i] = None] /\ PayLock(i, t, s)
        /\ UNCHANGED <<books, schedules, streams, puzzles>>
    BY <1>1 DEF withdraw_time_locked, Open
  <2>2. None \in MaybeLock /\ ~Open(None)
    BY DEF MaybeLock, Open
  <2> QED
    BY <2>1, <2>2, LockEnded
<1>2. CASE cancel_time_lock(s, t, i)
  <2> DEFINE e == [locks[i] EXCEPT !.cancelled = TRUE]
  <2>1. /\ Open(locks[i]) /\ locks' = [locks EXCEPT ![i] = e] /\ PayLock(i, t, s)
        /\ UNCHANGED <<books, schedules, streams, puzzles>>
    BY <1>2 DEF cancel_time_lock, Open
  <2>2. locks[i] \in Lock
    BY <1>0, <2>1 DEF Open, MaybeLock
  <2>3. e \in Lock /\ e.cancelled
    BY <2>2 DEF Lock
  <2> HIDE DEF e
  <2>4. e \in MaybeLock /\ ~Open(e)
    BY <2>3 DEF Open, MaybeLock
  <2> QED
    BY <2>1, <2>4, LockEnded
<1> QED
  BY <1>1, <1>2

\* What the locks of a set S hold in a token.
DueTo(S, u) ==
  SumFunction([i \in DOMAIN locks |-> IF i \in S /\ locks[i].token = u THEN locks[i].amount ELSE 0])

LEMMA DueType ==
  ASSUME EscrowTypes, NEW S, \A i \in S : i \in DOMAIN locks /\ locks[i] \in Lock, NEW u
  PROVE  DueTo(S, u) \in Int
<1> DEFINE g == [i \in DOMAIN locks |-> IF i \in S /\ locks[i].token = u THEN locks[i].amount ELSE 0]
<1>1. \A i \in S : locks[i].amount \in Int
  BY DEF Lock
<1>2. g \in [DOMAIN locks -> Int] /\ DOMAIN locks = 1 .. Len(locks) /\ Len(locks) \in Nat
  BY <1>1 DEF EscrowTypes
<1> HIDE DEF g
<1>3. IsFiniteSet(DOMAIN locks)
  BY <1>2, FS_Interval
<1>4. SumFunction(g) \in Int
  BY <1>2, <1>3, SumType
<1> QED
  BY <1>4 DEF DueTo, g

LEMMA LocksCleared ==
  ASSUME EscrowTypes, NEW S,
         locks' = [i \in DOMAIN locks |-> IF i \in S THEN None ELSE locks[i]]
  PROVE  locks' \in Seq(MaybeLock)
<1>1. /\ DOMAIN locks = 1 .. Len(locks) /\ Len(locks) \in Nat
      /\ \A i \in DOMAIN locks : locks[i] \in MaybeLock
  BY DEF EscrowTypes
<1>2. None \in MaybeLock
  BY DEF MaybeLock
<1>3. locks' = [i \in 1 .. Len(locks) |-> IF i \in S THEN None ELSE locks[i]]
  BY <1>1
<1>4. \A i \in 1 .. Len(locks) : (IF i \in S THEN None ELSE locks[i]) \in MaybeLock
  BY <1>1, <1>2
<1>5. locks' \in [1 .. Len(locks) -> MaybeLock]
  BY <1>3, <1>4
<1> QED
  BY <1>1, <1>5

LEMMA LocksRefunded ==
  ASSUME EscrowTypes, NEW S \in SUBSET DOMAIN locks, \A i \in S : Open(locks[i]), NEW u \in Token,
         locks' = [i \in DOMAIN locks |-> IF i \in S THEN None ELSE locks[i]]
  PROVE  Total(Locking[u], locks') = Total(Locking[u], locks) - DueTo(S, u)
<1> DEFINE d == DOMAIN locks
           h == [i \in d |-> Locking[u][locks[i]]]
           f == [i \in d |-> Locking[u][locks'[i]]]
           g == [i \in d |-> IF i \in S /\ locks[i].token = u THEN locks[i].amount ELSE 0]
<1>1. /\ d = 1 .. Len(locks) /\ Len(locks) \in Nat
      /\ \A i \in d : locks[i] \in MaybeLock
  BY DEF EscrowTypes
<1>2. None \in MaybeLock
  BY DEF MaybeLock
<1>3. DOMAIN locks' = d /\ \A i \in d : locks'[i] = IF i \in S THEN None ELSE locks[i]
  OBVIOUS
<1>5. IsFiniteSet(d)
  BY <1>1, FS_Interval
<1>6. \A l \in MaybeLock : Locking[u][l] = LockHeld(l, u) /\ Locking[u][l] \in Int
  BY HoldingTypes DEF Locking, Holding
<1>7. \A i \in S : locks[i] \in Lock
  BY <1>1 DEF Open, MaybeLock
<1>8. ASSUME NEW i \in d
      PROVE  h[i] \in Int /\ f[i] \in Int /\ g[i] \in Int /\ h[i] = f[i] + g[i]
  <2>1. h[i] = LockHeld(locks[i], u) /\ h[i] \in Int /\ f[i] = LockHeld(locks'[i], u) /\ f[i] \in Int
    BY <1>1, <1>2, <1>3, <1>6
  <2>2. CASE i \in S
    <3>1. locks[i].amount \in Int
      BY <1>7, <2>2 DEF Lock
    <3>2. LockHeld(locks'[i], u) = 0
      BY <1>3, <2>2 DEF LockHeld
    <3>3. LockHeld(locks[i], u) = IF locks[i].token = u THEN locks[i].amount ELSE 0
      BY <2>2 DEF LockHeld, Open
    <3> QED
      BY <2>1, <2>2, <3>1, <3>2, <3>3
  <2>3. CASE i \notin S
    BY <1>3, <2>1, <2>3
  <2> QED
    BY <2>2, <2>3
<1>9. Adds(d, f, g, h)
  <2>1. \A i \in d : h[i] \in Int /\ f[i] \in Int /\ g[i] \in Int /\ h[i] = f[i] + g[i]
    BY <1>8
  <2>2. DOMAIN f = d /\ DOMAIN g = d /\ DOMAIN h = d
    OBVIOUS
  <2>3. f = [i \in d |-> f[i]] /\ g = [i \in d |-> g[i]] /\ h = [i \in d |-> h[i]]
    OBVIOUS
  <2> HIDE DEF f, g, h, d
  <2>4. f \in [d -> Int] /\ g \in [d -> Int] /\ h \in [d -> Int]
    BY <2>1, <2>3
  <2> QED
    BY <2>1, <2>4 DEF Adds
<1>10. SumFunction(h) = Total(Locking[u], locks) /\ SumFunction(f) = Total(Locking[u], locks')
       /\ SumFunction(g) = DueTo(S, u)
  BY <1>3 DEF Total, DueTo
<1>11. SumFunction(f) \in Int /\ SumFunction(g) \in Int
  <2> HIDE DEF f, g, h, d
  <2>1. f \in [d -> Int] /\ g \in [d -> Int]
    BY <1>9 DEF Adds
  <2> QED
    BY <1>5, <2>1, SumType
<1> HIDE DEF f, g, h, d
<1>12. SumFunction(h) = SumFunction(f) + SumFunction(g)
  BY <1>5, <1>9, SumAdded
<1> QED
  BY <1>10, <1>11, <1>12

LEMMA ExpiredRefunded ==
  ASSUME LedgerPart, EscrowTypes, ActiveLocksOpen, UNCHANGED auctions, process_expired_tips
  PROVE  LockFine
<1> DEFINE S == {i \in activeLocks : ~locks[i].cancelled /\ locks[i].expires_at <= now}
           Of(a) == {i \in S : locks[i].sender = a}
<1>1. /\ wallet' = [u \in Token |-> [a \in DOMAIN wallet[u] |->
           IF a = Jar THEN wallet[u][a] - DueTo(S, u) ELSE wallet[u][a] + DueTo(Of(a), u)]]
      /\ locks' = [i \in DOMAIN locks |-> IF i \in S THEN None ELSE locks[i]]
      /\ UNCHANGED <<books, drift, schedules, streams, puzzles>>
  BY DEF process_expired_tips, DueTo
<1>2. S \in SUBSET DOMAIN locks /\ \A i \in S : Open(locks[i])
  BY DEF ActiveLocksOpen, Open
<1>3. \A i \in S : i \in DOMAIN locks /\ locks[i] \in Lock
  BY <1>2 DEF EscrowTypes, MaybeLock, Open
<1>4. \A a : \A i \in Of(a) : i \in DOMAIN locks /\ locks[i] \in Lock
  BY <1>3
<1> HIDE DEF S
<1>5. \A u : DueTo(S, u) \in Int
  BY <1>3, DueType
<1>6. \A u, a : DueTo(Of(a), u) \in Int
  <2> SUFFICES ASSUME NEW u, NEW a PROVE DueTo(Of(a), u) \in Int
    OBVIOUS
  <2>1. \A i \in Of(a) : i \in DOMAIN locks /\ locks[i] \in Lock
    BY <1>4
  <2> HIDE DEF Of
  <2> QED
    BY <2>1, DueType
<1> HIDE DEF Of
<1>7. wallet \in Wallets /\ Good(books) /\ drift \in Drifts /\ Jar \in Account
  BY DEF LedgerPart, Account
<1>8. \A u \in Token : DOMAIN wallet[u] = Account /\ \A a \in Account : wallet[u][a] \in Int
  BY <1>7 DEF Wallets
<1>9. \A u \in Token : wallet'[u] = [a \in Account |->
        IF a = Jar THEN wallet[u][a] - DueTo(S, u) ELSE wallet[u][a] + DueTo(Of(a), u)]
  BY <1>1, <1>8
<1>10. wallet' \in Wallets /\ \A u \in Token : wallet'[u][Jar] = wallet[u][Jar] - DueTo(S, u)
  <2>1. ASSUME NEW u \in Token PROVE wallet'[u] \in [Account -> Int]
    <3> DEFINE z(a) == IF a = Jar THEN wallet[u][a] - DueTo(S, u) ELSE wallet[u][a] + DueTo(Of(a), u)
    <3>1. ASSUME NEW a \in Account PROVE z(a) \in Int
      <4>1. wallet[u][a] \in Int /\ DueTo(S, u) \in Int /\ DueTo(Of(a), u) \in Int
        BY <1>5, <1>6, <1>8
      <4> QED
        BY <4>1
    <3>2. wallet'[u] = [a \in Account |-> z(a)]
      BY <1>9
    <3> HIDE DEF z
    <3> QED
      BY <3>1, <3>2
  <2>2. wallet' = [u \in Token |-> wallet'[u]]
    BY <1>1
  <2>3. wallet' \in [Token -> [Account -> Int]]
    BY <2>1, <2>2
  <2> QED
    BY <1>7, <1>9, <2>3 DEF Wallets
<1>11. \A u \in Token : Total(Locking[u], locks') = Total(Locking[u], locks) - DueTo(S, u)
  BY <1>1, <1>2, LocksRefunded
<1>13. locks' \in Seq(MaybeLock)
  BY <1>1, LocksCleared
<1>14. EscrowTypes'
  BY <1>1, <1>13 DEF EscrowTypes
<1>15. ASSUME NEW u \in Token
       PROVE  Excess(wallet', books', drift', u)
                - EscrowIn(schedules', locks', streams', puzzles', auctions', u) = Beyond(u)
  <2> DEFINE a == Total(Vesting[u], schedules)
             b == Total(Locking[u], locks)
             c == Total(Streaming[u], streams)
             d == Total(Puzzling[u], puzzles)
             e == Total(Bidding[u], auctions)
             b1 == Total(Locking[u], locks')
             y == DueTo(S, u)
             w == wallet[u][Jar]
             r == RecordedIn(books, u)
             o == Off(drift, u)
  <2>1. a \in Int /\ b \in Int /\ c \in Int /\ d \in Int /\ e \in Int /\ y \in Int
    BY <1>5, EscrowParts
  <2>2. w \in Int /\ r \in Int /\ o \in Int
    BY <1>7, ExcessType
  <2>3. b1 = b - y
    BY <1>11
  <2>4. Excess(wallet', books', drift', u) = (w - y) - r - o
    BY <1>1, <1>10 DEF Excess
  <2>5. EscrowIn(schedules', locks', streams', puzzles', auctions', u) = a + b1 + c + d + e
    BY <1>1 DEF EscrowIn
  <2>6. Beyond(u) = (w - r - o) - (a + b + c + d + e)
    BY DEF Beyond, Excess, EscrowNow, EscrowIn
  <2> HIDE DEF a, b, c, d, e, b1, y, w, r, o
  <2>7. ((w - y) - r - o) - (a + b1 + c + d + e) = (w - r - o) - (a + b + c + d + e)
    BY <2>1, <2>2, <2>3
  <2> QED
    BY <2>4, <2>5, <2>6, <2>7
<1>16. Accounts
  BY <1>15 DEF Accounts
<1>17. \A u \in Token : books.reserves[u] \in Int
  BY <1>7 DEF Good, Books
<1> QED
  BY <1>1, <1>7, <1>10, <1>14, <1>16, <1>17 DEF LockFine, ReservesKept

\* What a stream holds in its token.
Running(m) == m.status \in {"Active", "Paused"}
Carried(m) == IF Running(m) THEN Deposit(m) - m.withdrawn ELSE 0
LEMMA StreamCarries ==
  ASSUME NEW m \in Stream
  PROVE  /\ m.token \in Token /\ m.withdrawn \in Int /\ Deposit(m) \in Int /\ Carried(m) \in Int
         /\ \A u \in Token : StreamHeld(m, u) = IF u = m.token THEN Carried(m) ELSE 0
<1>1. m.token \in Token /\ m.withdrawn \in Int /\ m.rate \in Int /\ m.end - m.start \in Int
  BY DEF Stream
<1>2. Deposit(m) \in Int
  BY <1>1 DEF Deposit
<1>3. Carried(m) \in Int
  BY <1>1, <1>2 DEF Carried
<1>4. \A u \in Token : StreamHeld(m, u) = IF u = m.token THEN Carried(m) ELSE 0
  BY DEF StreamHeld, Carried, Running
<1> QED
  BY <1>1, <1>2, <1>3, <1>4

LEMMA StreamChanged ==
  ASSUME EscrowTypes, NEW i \in DOMAIN streams, NEW e, streams' = [streams EXCEPT ![i] = e],
         streams' \in Seq(Stream), NEW x \in Int, e.token = streams[i].token,
         Carried(e) = Carried(streams[i]) + x, UNCHANGED <<schedules, locks, puzzles, auctions>>
  PROVE  EscrowChange(streams[i].token, x)
<1> DEFINE m == streams[i]
           t == m.token
<1>1. streams \in Seq(Stream) /\ m \in Stream
  BY DEF EscrowTypes
<1>2. e = streams'[i] /\ i \in DOMAIN streams'
  BY <1>1
<1>3. e \in Stream
  BY <1>2
<1>4. \A u \in Token : /\ StreamHeld(m, u) = IF u = t THEN Carried(m) ELSE 0
                       /\ StreamHeld(e, u) = IF u = t THEN Carried(e) ELSE 0
  BY <1>1, <1>3, StreamCarries
<1>5. Carried(m) \in Int /\ Carried(e) = Carried(m) + x
  BY <1>1, StreamCarries
<1>6. \A u \in Token : StreamHeld(e, u) = StreamHeld(m, u) + (IF u = t THEN x ELSE 0)
  BY <1>4, <1>5
<1>7. HoldsMore(Streaming, m, e, t, x)
  BY <1>1, <1>3, <1>6 DEF Streaming, HoldsMore
<1>8. Swaps(Stream, streams, i, e, streams') /\ Holding(Streaming, Stream)
  BY <1>1, <1>3, Swapped, HoldingTypes
<1>9. HoldsMore(Streaming, streams[i], e, t, x)
  BY <1>7
<1> HIDE DEF t
<1>10. Grown(Streaming, streams, streams', t, x)
  BY <1>8, <1>9, GrownAtOne
<1> QED
  BY <1>10 DEF EscrowChange, t

LEMMA StreamCreated ==
  ASSUME LedgerPart, EscrowTypes, now \in Int, NEW s \in Party, NEW c, NEW t \in Token,
         NEW r \in Int, NEW n \in Int, streams' \in Seq(Stream), UNCHANGED auctions,
         create_stream(s, c, t, r, n)
  PROVE  LockFine
<1> DEFINE e == [sender |-> s, creator |-> c, token |-> t, rate |-> r, start |-> now,
                 end |-> now + n, withdrawn |-> 0, status |-> "Active", updated |-> now,
                 paid |-> 0, refunded |-> 0]
           x == r * n
<1>1. /\ streams' = Append(streams, e) /\ Pay(t, s, Jar, x)
      /\ UNCHANGED <<books, drift, schedules, locks, puzzles>>
  BY DEF create_stream
<1>2. streams \in Seq(Stream)
  BY DEF EscrowTypes
<1>3. e = streams'[Len(streams) + 1] /\ Len(streams) + 1 \in DOMAIN streams'
  <2> HIDE DEF e
  <2> QED
    BY <1>1, <1>2
<1>4. e \in Stream
  <2> HIDE DEF e
  <2> QED
    BY <1>3
<1>5. e.token = t /\ Carried(e) = x
  <2>1. (now + n) - now = n
    OBVIOUS
  <2>2. Deposit(e) = r * n
    BY <2>1 DEF Deposit
  <2>3. x \in Int
    OBVIOUS
  <2> QED
    BY <2>2, <2>3 DEF Carried, Running
<1>6. x \in Int
  OBVIOUS
<1> HIDE DEF e, x
<1>7. \A u \in Token : StreamHeld(e, u) = IF u = t THEN x ELSE 0
  BY <1>4, <1>5, StreamCarries
<1>8. Holds(Streaming, e, t, x)
  BY <1>4, <1>7 DEF Streaming, Holds
<1>9. Holding(Streaming, Stream)
  BY HoldingTypes
<1>10. Grown(Streaming, streams, streams', t, x)
  BY <1>1, <1>2, <1>4, <1>8, <1>9, GrownByOne
<1>11. EscrowChange(t, x)
  BY <1>1, <1>10 DEF EscrowChange
<1> QED
  BY <1>1, <1>6, <1>11, EscrowedIn

LEMMA StreamStarted ==
  ASSUME LedgerPart, EscrowTypes, now \in Int, NEW s, NEW i \in DOMAIN streams,
         streams' \in Seq(Stream), UNCHANGED auctions, start_stream(s, i)
  PROVE  LockFine
<1> DEFINE m == streams[i]
           idle == IF m.status = "Paused" THEN now - m.updated ELSE 0
           a == m.start + idle
           z == m.end + idle
           e == [m EXCEPT !.start = a, !.end = z, !.status = "Active", !.updated = now]
<1>1. /\ m.status \notin {"Cancelled", "Completed"} /\ streams' = [streams EXCEPT ![i] = e]
      /\ UNCHANGED <<wallet, books, drift, schedules, locks, puzzles>>
  BY DEF start_stream, ledgerVars
<1>2. m \in Stream
  BY DEF EscrowTypes
<1>3. /\ m.token \in Token /\ m.withdrawn \in Int /\ m.rate \in Int /\ m.end \in Int /\ m.start \in Int
      /\ m.updated \in Int /\ Running(m)
  BY <1>1, <1>2 DEF Stream, Running
<1>4. idle \in Int
  BY <1>3
<1> HIDE DEF idle
<1>5. z - a = m.end - m.start
  BY <1>3, <1>4
<1>6. e.token = m.token /\ e.withdrawn = m.withdrawn /\ e.rate = m.rate /\ e.start = a /\ e.end = z
      /\ e.status = "Active"
  BY <1>2 DEF Stream
<1> HIDE DEF a, z, e
<1>7. Deposit(e) = Deposit(m)
  BY <1>5, <1>6 DEF Deposit
<1>8. Carried(m) \in Int
  BY <1>2, StreamCarries
<1>9. Carried(e) = Carried(m)
  BY <1>3, <1>6, <1>7 DEF Carried, Running
<1>10. Carried(e) = Carried(m) + 0 /\ 0 \in Int
  BY <1>8, <1>9
<1>11. EscrowChange(m.token, 0)
  BY <1>1, <1>6, <1>10, StreamChanged
<1>12. Takes(m.token, 0) /\ ReservesKept
  BY <1>1, NothingTaken
<1>13. drift'.rewards = drift.rewards
  BY <1>1
<1> QED
  BY <1>10, <1>11, <1>12, <1>13, Fine

\* What a running stream has streamed.
LEMMA StreamedNow ==
  ASSUME NEW m \in Stream, Running(m), m.start <= m.end, now \in Int
  PROVE  /\ calculate_streamed_amount(m) \in Int
         /\ now >= m.end => calculate_streamed_amount(m) = Deposit(m)
<1>1. m.rate \in Int /\ m.end \in Int /\ m.start \in Int
  BY DEF Stream
<1> DEFINE d == Smaller(Larger(now, m.start), m.end) - m.start
<1>2. d \in Int /\ (now >= m.end => d = m.end - m.start)
  BY <1>1 DEF Smaller, Larger
<1>3. calculate_streamed_amount(m) = m.rate * d
  BY DEF calculate_streamed_amount, Running
<1> HIDE DEF d
<1>4. m.rate * d \in Int
  BY <1>1, <1>2
<1> QED
  BY <1>2, <1>3, <1>4 DEF Deposit

\* An amount that nobody is paid is lost to the drift.
LEMMA Lost ==
  ASSUME LedgerPart, NEW t \in Token, NEW z \in Int,
         drift' = [drift EXCEPT !.lost[t] = drift.lost[t] + z]
  PROVE  drift' \in Drifts /\ Drifted(drift, drift', t, z) /\ drift'.rewards = drift.rewards
<1> DEFINE l == [drift.lost EXCEPT ![t] = drift.lost[t] + z]
<1>1. drift \in Drifts
  BY DEF LedgerPart
<1>2. drift' = [drift EXCEPT !.lost = l]
  OBVIOUS
<1>3. l \in [Token -> Int] /\ Raised(drift.lost, l, t, z)
  BY <1>1 DEF Drifts, Raised
<1> HIDE DEF l
<1>4. drift'.rewards = drift.rewards
  BY <1>1, <1>2 DEF Drifts
<1> QED
  BY <1>1, <1>2, <1>3, <1>4, LostMore

LEMMA StreamStopped ==
  ASSUME LedgerPart, EscrowTypes, now \in Int, NEW s, NEW i \in DOMAIN streams,
         streams[i].start <= streams[i].end,
         streams' \in Seq(Stream), UNCHANGED auctions, stop_stream(s, i)
  PROVE  LockFine
<1> DEFINE m == streams[i]
           t == m.token
           y == calculate_streamed_amount(m)
           z == y - m.withdrawn
           e == [m EXCEPT !.status = "Paused", !.withdrawn = y, !.updated = now]
<1>1. /\ m.status = "Active" /\ streams' = [streams EXCEPT ![i] = e]
      /\ drift' = [drift EXCEPT !.lost[t] = drift.lost[t] + y - m.withdrawn]
      /\ UNCHANGED <<wallet, books, schedules, locks, puzzles>>
  BY DEF stop_stream
<1>2. m \in Stream
  BY DEF EscrowTypes
<1>3. m.token \in Token /\ m.withdrawn \in Int /\ Deposit(m) \in Int /\ Running(m) /\ Carried(m) \in Int
  BY <1>1, <1>2, StreamCarries DEF Running
<1>4. y \in Int
  BY <1>2, <1>3, StreamedNow
<1> HIDE DEF y
<1>5. /\ e.token = m.token /\ e.withdrawn = y /\ e.rate = m.rate /\ e.start = m.start /\ e.end = m.end
      /\ e.status = "Paused"
  BY <1>2 DEF Stream
<1> HIDE DEF e
<1>6. Deposit(e) = Deposit(m)
  BY <1>5 DEF Deposit
<1>7. z \in Int /\ -z \in Int
  BY <1>3, <1>4
<1>8. Carried(e) = Carried(m) + (-z)
  BY <1>3, <1>4, <1>5, <1>6 DEF Carried, Running
<1>9. drift.lost[t] + y - m.withdrawn = drift.lost[t] + z
  <2>1. drift.lost[t] \in Int
    BY <1>3 DEF LedgerPart, Drifts
  <2> QED
    BY <1>3, <1>4, <2>1
<1>10. t \in Token /\ drift' = [drift EXCEPT !.lost[t] = drift.lost[t] + z]
  BY <1>1, <1>3, <1>9
<1>11. e.token = streams[i].token /\ Carried(e) = Carried(streams[i]) + (-z)
  BY <1>5, <1>8
<1> HIDE DEF z
<1>12. EscrowChange(streams[i].token, -z)
  BY <1>1, <1>7, <1>11, StreamChanged
<1>13. EscrowChange(t, -z)
  BY <1>12
<1> HIDE DEF t, m
<1>14. drift' \in Drifts /\ Drifted(drift, drift', t, z) /\ drift'.rewards = drift.rewards
  BY <1>7, <1>10, Lost
<1>15. /\ wallet' \in Wallets /\ Into(wallet, wallet', t, 0) /\ Recording(books, books', t, 0, 0)
  BY <1>1, <1>10, NoTransfer, RecordingNothing DEF LedgerPart
<1> DEFINE zero == 0
<1>a. zero \in Int /\ Recording(books, books', t, zero, zero)
  BY <1>15
<1>17. 0 - zero - z = -z /\ zero >= 0
  BY <1>7
<1> HIDE DEF zero
<1>16. Takes(t, 0 - zero - z) /\ (zero >= 0 => ReservesKept)
  BY <1>7, <1>a, <1>10, <1>14, <1>15, PayNobody
<1>18. Takes(t, -z) /\ ReservesKept
  BY <1>16, <1>17
<1> QED
  BY <1>7, <1>13, <1>14, <1>18, Fine

LEMMA StreamWithdrawn ==
  ASSUME LedgerPart, EscrowTypes, now \in Int, NEW c \in Party, NEW i \in DOMAIN streams,
         streams[i].start <= streams[i].end,
         streams' \in Seq(Stream), UNCHANGED auctions, withdraw_streamed(c, i)
  PROVE  LockFine
<1> DEFINE m == streams[i]
           t == m.token
           y == calculate_streamed_amount(m)
           x == y - m.withdrawn
           wd == m.withdrawn + x
           pd == m.paid + x
           st == IF now >= m.end THEN "Completed" ELSE m.status
           e == [m EXCEPT !.withdrawn = wd, !.paid = pd, !.status = st, !.updated = now]
<1>1. /\ m.status # "Cancelled" /\ x > 0 /\ streams' = [streams EXCEPT ![i] = e]
      /\ Pay(t, Jar, c, x) /\ UNCHANGED <<books, drift, schedules, locks, puzzles>>
  BY DEF withdraw_streamed
<1>2. m \in Stream
  BY DEF EscrowTypes
<1>3. m.token \in Token /\ m.withdrawn \in Int /\ Deposit(m) \in Int /\ Carried(m) \in Int
      /\ m.end \in Int
  BY <1>2, StreamCarries DEF Stream
<1>4. Running(m)
  <2>1. ~Running(m) => y = m.withdrawn
    BY DEF calculate_streamed_amount, Running
  <2>2. ~Running(m) => x = 0
    BY <1>3, <2>1
  <2> QED
    BY <1>1, <2>2
<1>5. y \in Int /\ (now >= m.end => y = Deposit(m))
  BY <1>2, <1>4, StreamedNow
<1> HIDE DEF y
<1>6. /\ e.token = m.token /\ e.withdrawn = wd /\ e.rate = m.rate /\ e.start = m.start /\ e.end = m.end
      /\ e.status = st
  BY <1>2 DEF Stream
<1> HIDE DEF e
<1>7. Deposit(e) = Deposit(m)
  BY <1>6 DEF Deposit
<1>8. x \in Int /\ -x \in Int /\ wd = y
  BY <1>3, <1>5
<1>9. Carried(m) = Deposit(m) - m.withdrawn
  BY <1>4 DEF Carried
<1>10. Carried(e) = IF now >= m.end THEN 0 ELSE Deposit(m) - y
  BY <1>4, <1>6, <1>7, <1>8 DEF Carried, Running
<1>11. Carried(e) = Carried(m) + (-x)
  BY <1>3, <1>5, <1>9, <1>10
<1>12. e.token = streams[i].token /\ Carried(e) = Carried(streams[i]) + (-x)
  BY <1>6, <1>11
<1> HIDE DEF x
<1>13. EscrowChange(streams[i].token, -x)
  BY <1>1, <1>8, <1>12, StreamChanged
<1>14. EscrowChange(t, -x) /\ t \in Token
  BY <1>3, <1>13
<1> HIDE DEF t, m
<1> QED
  BY <1>1, <1>8, <1>14, EscrowedOut

LEMMA StreamCancelled ==
  ASSUME LedgerPart, EscrowTypes, now \in Int, NEW s \in Party, NEW i \in DOMAIN streams,
         streams[i].start <= streams[i].end,
         streams' \in Seq(Stream), UNCHANGED auctions, cancel_stream(s, i)
  PROVE  LockFine
<1> DEFINE m == streams[i]
           t == m.token
           y == calculate_streamed_amount(m)
           back == Deposit(m) - y
           z == y - m.withdrawn
           x == Deposit(m) - m.withdrawn
           e == [m EXCEPT !.status = "Cancelled", !.updated = now, !.refunded = back]
<1>1. /\ m.status \notin {"Cancelled", "Completed"} /\ streams' = [streams EXCEPT ![i] = e]
      /\ Pay(t, Jar, s, back)
      /\ drift' = [drift EXCEPT !.lost[t] = drift.lost[t] + y - m.withdrawn]
      /\ UNCHANGED <<books, schedules, locks, puzzles>>
  BY DEF cancel_stream
<1>2. m \in Stream
  BY DEF EscrowTypes
<1>3. m.token \in Token /\ m.withdrawn \in Int /\ Deposit(m) \in Int /\ Carried(m) \in Int
  BY <1>2, StreamCarries
<1>4. Running(m)
  BY <1>1, <1>2 DEF Running, Stream
<1>5. y \in Int
  BY <1>2, <1>4, StreamedNow
<1> HIDE DEF y
<1>6. e.token = m.token /\ e.status = "Cancelled"
  BY <1>2 DEF Stream
<1> HIDE DEF e
<1>7. x \in Int /\ -x \in Int /\ z \in Int /\ back \in Int /\ (-back) - 0 - z = -x
  <2>1. ASSUME NEW p \in Int, NEW q \in Int, NEW r \in Int
        PROVE  /\ p - q \in Int /\ -(p - q) \in Int /\ r - q \in Int /\ p - r \in Int
               /\ (-(p - r)) - 0 - (r - q) = -(p - q)
    OBVIOUS
  <2> QED
    BY <1>3, <1>5, <2>1
<1>8. Carried(m) = x /\ Carried(e) = 0
  BY <1>4, <1>6 DEF Carried, Running
<1>9. drift.lost[t] + y - m.withdrawn = drift.lost[t] + z
  <2>1. drift.lost[t] \in Int
    BY <1>3 DEF LedgerPart, Drifts
  <2> QED
    BY <1>3, <1>5, <2>1
<1>10. t \in Token /\ drift' = [drift EXCEPT !.lost[t] = drift.lost[t] + z]
  BY <1>1, <1>3, <1>9
<1> HIDE DEF x, z, back
<1>11. e.token = streams[i].token /\ Carried(e) = Carried(streams[i]) + (-x)
  BY <1>6, <1>7, <1>8
<1>12. EscrowChange(streams[i].token, -x)
  BY <1>1, <1>7, <1>11, StreamChanged
<1>13. EscrowChange(t, -x)
  BY <1>12
<1> HIDE DEF t, m
<1>14. drift' \in Drifts /\ Drifted(drift, drift', t, z) /\ drift'.rewards = drift.rewards
  BY <1>7, <1>10, Lost
<1>15. Recording(books, books', t, 0, 0)
  BY <1>1, <1>10, RecordingNothing DEF LedgerPart
<1> DEFINE zero == 0
<1>16. zero \in Int /\ Recording(books, books', t, zero, zero) /\ (-back) - zero - z = -x /\ zero >= 0
  BY <1>7, <1>15
<1> HIDE DEF zero
<1>17. Takes(t, (-back) - zero - z) /\ (zero >= 0 => ReservesKept)
  BY <1>1, <1>7, <1>10, <1>14, <1>16, PayOut
<1>18. Takes(t, -x) /\ ReservesKept
  BY <1>16, <1>17
<1> QED
  BY <1>7, <1>13, <1>14, <1>18, Fine

LEMMA PuzzleCreated ==
  ASSUME LedgerPart, EscrowTypes, now \in Int, NEW s \in Party, NEW c \in Party, NEW t \in Token,
         NEW x \in Int, NEW n \in Int, UNCHANGED auctions, create_time_lock_puzzle(s, c, t, x, n)
  PROVE  LockFine
<1> DEFINE e == [creator |-> s, recipient |-> c, token |-> t, amount |-> x,
                 unlock_time |-> now + n, status |-> "Active"]
<1>1. /\ puzzles' = Append(puzzles, e) /\ Pay(t, s, Jar, x)
      /\ UNCHANGED <<books, drift, schedules, locks, streams>>
  BY DEF create_time_lock_puzzle
<1>2. e \in Puzzle
  BY DEF Puzzle
<1>3. \A u \in Token : PuzzleHeld(e, u) = IF u = t THEN x ELSE 0
  BY DEF PuzzleHeld
<1> HIDE DEF e
<1>4. Holds(Puzzling, e, t, x)
  BY <1>2, <1>3 DEF Puzzling, Holds
<1>5. puzzles \in Seq(Puzzle) /\ Holding(Puzzling, Puzzle)
  BY HoldingTypes DEF EscrowTypes
<1>6. puzzles' \in Seq(Puzzle) /\ Grown(Puzzling, puzzles, puzzles', t, x)
  BY <1>1, <1>2, <1>4, <1>5, GrownByOne
<1>7. EscrowChange(t, x)
  BY <1>1, <1>6 DEF EscrowChange
<1> QED
  BY <1>1, <1>7, EscrowedIn

LEMMA PuzzleEnded ==
  ASSUME LedgerPart, EscrowTypes, NEW i \in DOMAIN puzzles, NEW to \in Party,
         NEW st \in {"Solved", "Cancelled"}, puzzles[i].status = "Active",
         puzzles' = [puzzles EXCEPT ![i].status = st],
         Pay(puzzles[i].token, Jar, to, puzzles[i].amount),
         UNCHANGED <<books, drift, schedules, locks, streams, auctions>>
  PROVE  LockFine
<1> DEFINE z == puzzles[i]
           t == z.token
           x == z.amount
           e == [z EXCEPT !.status = st]
<1>1. puzzles' = [puzzles EXCEPT ![i] = e]
  OBVIOUS
<1>2. z \in Puzzle
  BY DEF EscrowTypes
<1>3. t \in Token /\ x \in Int /\ -x \in Int
  BY <1>2 DEF Puzzle
<1>4. e \in Puzzle /\ e.token = t /\ e.status = st
  <2> HIDE DEF z
  <2> QED
    BY <1>2 DEF Puzzle
<1> HIDE DEF e
<1>5. \A u \in Token : PuzzleHeld(e, u) = PuzzleHeld(z, u) + (IF u = t THEN -x ELSE 0)
  BY <1>3, <1>4 DEF PuzzleHeld
<1>6. HoldsMore(Puzzling, puzzles[i], e, t, -x)
  BY <1>2, <1>4, <1>5 DEF Puzzling, HoldsMore
<1>7. Swaps(Puzzle, puzzles, i, e, puzzles') /\ Holding(Puzzling, Puzzle)
  <2>1. puzzles \in Seq(Puzzle) /\ e \in Puzzle
    BY <1>4 DEF EscrowTypes
  <2>2. Swaps(Puzzle, puzzles, i, e, [puzzles EXCEPT ![i] = e])
    BY <2>1, Swapped
  <2> QED
    BY <1>1, <2>2, HoldingTypes
<1>8. Pay(t, Jar, to, x)
  OBVIOUS
<1> HIDE DEF t, x, z
<1>9. puzzles' \in Seq(Puzzle) /\ Grown(Puzzling, puzzles, puzzles', t, -x)
  BY <1>3, <1>6, <1>7, GrownAtOne
<1>10. EscrowChange(t, -x)
  BY <1>9 DEF EscrowChange
<1> QED
  BY <1>3, <1>8, <1>10, EscrowedOut

LEMMA LocksTake ==
  ASSUME ConfigPart, now \in 1 .. MaxTime, LedgerPart, EscrowTypes, TimeLocksPart, StreamsPart,
         streams' \in Seq(Stream), UNCHANGED auctions, LockStep
  PROVE  LockFine
<1>0. /\ now \in Int /\ refundWindow \in Nat /\ ActiveLocksOpen
      /\ \A x \in Amounts : x \in Int
      /\ \A n \in Delays : n \in Nat
      /\ \A n \in Delays \cup {0} : n \in Int
      /\ \A r \in StreamRates : r \in Int
  BY LedgerAssumption, LocksAssumption DEF TimeLocksPart
<1>1. \A i \in DOMAIN streams : streams[i].start <= streams[i].end
  BY StreamsPartIs DEF SoundAt
<1>2. VestingNext => LockFine
  BY <1>0, VestingCreated, VestedWithdrawn DEF VestingNext
<1>3. TimeLockNext => LockFine
  <2>1. ASSUME NEW n, set_refund_window(n) PROVE LockFine
    <3>1. UNCHANGED <<wallet, books, drift>> /\ UNCHANGED <<schedules, locks, streams, puzzles, auctions>>
      BY <2>1 DEF set_refund_window, ledgerVars
    <3> QED
      BY <3>1, NothingEscrowed
  <2>2. process_expired_tips => LockFine
    BY <1>0, ExpiredRefunded
  <2>3. ASSUME NEW s \in Party, NEW t \in Token, NEW c \in Party, NEW x \in Amounts, NEW n \in Delays,
               tip_time_locked(s, c, t, x, n)
        PROVE  LockFine
    <3>1. x \in Int /\ n \in Int
      BY <1>0
    <3> QED
      BY <1>0, <2>3, <3>1, TimeLocked
  <2>4. ASSUME NEW s \in Party, NEW t \in Token, NEW i \in DOMAIN locks,
               withdraw_time_locked(s, t, i) \/ cancel_time_lock(s, t, i)
        PROVE  LockFine
    BY <2>4, TimeLockEnded
  <2> QED
    BY <2>1, <2>2, <2>3, <2>4, Zenon DEF TimeLockNext
<1>4. StreamNext => LockFine
  <2>1. ASSUME NEW s \in Party, NEW c \in Party, NEW t \in Token, NEW r \in StreamRates,
               NEW n \in Delays, create_stream(s, c, t, r, n)
        PROVE  LockFine
    <3>1. r \in Int /\ n \in Int
      BY <1>0
    <3> QED
      BY <1>0, <2>1, <3>1, StreamCreated
  <2>2. ASSUME NEW p \in Party, NEW i \in DOMAIN streams,
               start_stream(p, i) \/ stop_stream(p, i) \/ withdraw_streamed(p, i) \/ cancel_stream(p, i)
        PROVE  LockFine
    <3>1. streams[i].start <= streams[i].end
      BY <1>1
    <3> QED
      BY <1>0, <2>2, <3>1, StreamStarted, StreamStopped, StreamWithdrawn, StreamCancelled
  <2> QED
    BY <2>1, <2>2, Zenon DEF StreamNext
<1>5. PuzzleNext => LockFine
  <2>1. ASSUME NEW s \in Party, NEW c \in Party, NEW t \in Token, NEW x \in Amounts, NEW n \in Delays,
               create_time_lock_puzzle(s, c, t, x, n)
        PROVE  LockFine
    <3>1. x \in Int /\ n \in Int
      BY <1>0
    <3> QED
      BY <1>0, <2>1, <3>1, PuzzleCreated
  <2>2. ASSUME NEW i \in DOMAIN puzzles, NEW right, solve_time_lock_puzzle(i, right)
        PROVE  LockFine
    <3>1. puzzles[i] \in Puzzle
      BY DEF EscrowTypes
    <3>2. puzzles[i].recipient \in Party /\ "Solved" \in {"Solved", "Cancelled"}
      BY <3>1 DEF Puzzle
    <3>3. /\ puzzles[i].status = "Active" /\ puzzles' = [puzzles EXCEPT ![i].status = "Solved"]
          /\ Pay(puzzles[i].token, Jar, puzzles[i].recipient, puzzles[i].amount)
          /\ UNCHANGED <<books, drift, schedules, locks, streams, auctions>>
      BY <2>2 DEF solve_time_lock_puzzle
    <3> QED
      BY <3>2, <3>3, PuzzleEnded
  <2>3. ASSUME NEW i \in DOMAIN puzzles, NEW s \in Party, cancel_time_lock_puzzle(s, i)
        PROVE  LockFine
    <3>1. /\ puzzles[i].status = "Active" /\ puzzles' = [puzzles EXCEPT ![i].status = "Cancelled"]
          /\ Pay(puzzles[i].token, Jar, s, puzzles[i].amount)
          /\ UNCHANGED <<books, drift, schedules, locks, streams, auctions>>
      BY <2>3 DEF cancel_time_lock_puzzle
    <3>2. "Cancelled" \in {"Solved", "Cancelled"}
      OBVIOUS
    <3> QED
      BY <3>1, <3>2, PuzzleEnded
  <2> QED
    BY <2>1, <2>2, <2>3, Zenon DEF PuzzleNext
<1> QED
  BY <1>2, <1>3, <1>4, <1>5, Zenon DEF LockStep

-----------------------------------------------------------------------------
\* The auctions.
AuctionsFine ==
  /\ wallet' \in Wallets /\ Good(books') /\ drift' \in Drifts
  /\ ReservesKept /\ EscrowTypes' /\ Accounts
  /\ MilestonesPart' /\ BidsBacked' /\ PrivatePart'

LEMMA FineAuction ==
  ASSUME LedgerPart, EscrowTypes, NEW t, NEW x \in Int, Takes(t, x), ReservesKept,
         auctions' \in Seq(Auction), Grown(Bidding, auctions, auctions', t, x),
         UNCHANGED <<schedules, locks, streams, puzzles>>,
         MilestonesPart', BidsBacked', PrivatePart'
  PROVE  AuctionsFine
<1>1. EscrowChange(t, x)
  BY DEF EscrowChange
<1>2. EscrowTypes' /\ Escrows(t, x)
  BY <1>1, EscrowMoves
<1>3. Accounts
  BY <1>2, AccountsMove
<1> QED
  BY <1>2, <1>3 DEF Takes, AuctionsFine

\* One auction changes.
Backed(a) == a.bidder = None => a.highest = 0
LEMMA AuctionChanged ==
  ASSUME BidsBacked, NEW i, NEW e, Swaps(Auction, auctions, i, e, auctions'), NEW t, NEW x \in Int,
         HoldsMore(Bidding, auctions[i], e, t, x), Backed(e)
  PROVE  auctions' \in Seq(Auction) /\ Grown(Bidding, auctions, auctions', t, x) /\ BidsBacked'
<1>1. Holding(Bidding, Auction)
  BY HoldingTypes
<1>2. auctions' \in Seq(Auction) /\ Grown(Bidding, auctions, auctions', t, x)
  BY <1>1, GrownAtOne
<1>3. BidsBacked'
  BY DEF BidsBacked, Swaps, Backed
<1> QED
  BY <1>2, <1>3

LEMMA AuctionCreated ==
  ASSUME LedgerPart, EscrowTypes, BidsBacked, MilestonesPart, PrivatePart, now \in Int,
         NEW c \in Party, NEW t \in Token, NEW r \in Int, NEW n \in Int,
         UNCHANGED <<schedules, locks, streams, puzzles>>, create_auction(c, t, r, n)
  PROVE  AuctionsFine
<1> DEFINE e == [creator |-> c, token |-> t, reserve |-> r, highest |-> 0, bidder |-> None,
                 ends_at |-> now + n, settled |-> FALSE]
<1>1. /\ auctions' = Append(auctions, e) /\ UNCHANGED <<wallet, books, drift, milestones, private>>
  BY DEF create_auction, ledgerVars, tipVars
<1>2. e \in Auction /\ e.highest = 0
  BY DEF Auction
<1>3. \A u \in Token : AuctionHeld(e, u) = IF u = t THEN 0 ELSE 0
  BY DEF AuctionHeld
<1> HIDE DEF e
<1>4. Holds(Bidding, e, t, 0)
  BY <1>2, <1>3 DEF Bidding, Holds
<1>5. auctions \in Seq(Auction) /\ Holding(Bidding, Auction)
  BY HoldingTypes DEF EscrowTypes
<1>6. auctions' \in Seq(Auction) /\ Grown(Bidding, auctions, auctions', t, 0)
  BY <1>1, <1>2, <1>4, <1>5, GrownByOne
<1>7. BidsBacked'
  BY <1>1, <1>2, <1>5 DEF BidsBacked
<1>8. Takes(t, 0) /\ ReservesKept /\ 0 \in Int
  BY <1>1, NothingTaken
<1>9. MilestonesPart' /\ PrivatePart'
  BY <1>1, MilestonesSame DEF RewardsSame, PrivatePart
<1>10. UNCHANGED <<schedules, locks, streams, puzzles>>
  OBVIOUS
<1> QED
  BY <1>6, <1>7, <1>8, <1>9, <1>10, FineAuction

\* A bid and the return of the one it beats.
LEMMA OutbidPays ==
  ASSUME wallet \in Wallets, NEW a \in Auction, NEW p \in Party, NEW x \in Int, Outbid(a, p, x),
         a.bidder = None => a.highest = 0
  PROVE  wallet' \in Wallets /\ Into(wallet, wallet', a.token, x - a.highest)
<1> DEFINE t == a.token
           h == a.highest
           in == Transfer(wallet, t, p, Jar, x)
<1>1. t \in Token /\ h \in Int /\ (a.bidder = None \/ a.bidder \in Party)
  BY DEF Auction
<1>2. wallet' = IF a.bidder = None THEN in ELSE Transfer(in, t, Jar, a.bidder, h)
  BY DEF Outbid
<1> HIDE DEF t, h
<1>3. in \in Wallets /\ \A u \in Token : in[u][Jar] = wallet[u][Jar] + (IF u = t THEN x ELSE 0)
  BY <1>1, PaidToJar
<1> HIDE DEF in
<1>4. \A u \in Token : wallet[u][Jar] \in Int
  BY DEF Wallets, Account
<1>5. CASE a.bidder = None
  <2>1. h = 0
    BY <1>5 DEF h
  <2>2. wallet' = in
    BY <1>2, <1>5
  <2>3. wallet' \in Wallets /\ Into(wallet, wallet', t, x - h)
    BY <1>3, <1>4, <2>1, <2>2 DEF Into
  <2> QED
    BY <2>3 DEF t, h
<1>6. CASE a.bidder \in Party /\ a.bidder # None
  <2>1. wallet' = Transfer(in, t, Jar, a.bidder, h)
    BY <1>2, <1>6
  <2>2. /\ wallet' \in Wallets
        /\ \A u \in Token : wallet'[u][Jar] = in[u][Jar] - (IF u = t THEN h ELSE 0)
    <3> DEFINE c == a.bidder
               out == Transfer(in, t, Jar, c, h)
    <3>1. in \in Wallets /\ c \in Party /\ t \in Token /\ h \in Int
      BY <1>1, <1>3, <1>6
    <3> HIDE DEF c
    <3>2. /\ out \in Wallets
          /\ \A u \in Token : out[u][Jar] = in[u][Jar] - (IF u = t THEN h ELSE 0)
      BY <3>1, PaidByJar
    <3>3. wallet' = out
      BY <2>1 DEF c
    <3> HIDE DEF out
    <3> QED
      BY <3>2, <3>3
  <2>3. Into(wallet, wallet', t, x - h)
    BY <1>1, <1>3, <1>4, <2>2 DEF Into
  <2> QED
    BY <2>2, <2>3 DEF t, h
<1> QED
  BY <1>1, <1>5, <1>6

LEMMA BidPlaced ==
  ASSUME LedgerPart, EscrowTypes, BidsBacked, MilestonesPart, PrivatePart,
         NEW p \in Party, NEW i \in DOMAIN auctions, NEW x \in Nat,
         UNCHANGED <<schedules, locks, streams, puzzles>>, place_bid(p, i, x)
  PROVE  AuctionsFine
<1> DEFINE a == auctions[i]
           t == a.token
           y == x - a.highest
           e == [a EXCEPT !.highest = x, !.bidder = p]
<1>1. /\ ~a.settled /\ auctions' = [auctions EXCEPT ![i] = e] /\ Outbid(a, p, x)
      /\ UNCHANGED <<books, drift, milestones, private>>
  <2>1. auctions' = [auctions EXCEPT ![i].highest = x, ![i].bidder = p]
    BY DEF place_bid
  <2>2. auctions' = [auctions EXCEPT ![i] = e]
    BY <2>1 DEF EscrowTypes
  <2> QED
    BY <2>2 DEF place_bid, tipVars
<1>2. a \in Auction /\ (a.bidder = None => a.highest = 0)
  BY DEF EscrowTypes, BidsBacked
<1>3. e \in Auction /\ e.token = t /\ e.highest = x /\ e.settled = a.settled /\ e.bidder = p
  <2> HIDE DEF a
  <2> QED
    BY <1>2 DEF Auction
<1>4. a.highest \in Int /\ t \in Token /\ y \in Int
  BY <1>2 DEF Auction
<1>5. wallet' \in Wallets /\ Into(wallet, wallet', t, y)
  BY <1>1, <1>2, OutbidPays DEF LedgerPart
<1> HIDE DEF e
<1>6. \A u \in Token : AuctionHeld(e, u) = AuctionHeld(a, u) + (IF u = t THEN y ELSE 0)
  BY <1>1, <1>3, <1>4 DEF AuctionHeld
<1>7. e.bidder = None => e.highest = 0
  <2>1. p # None
    BY AuctionsAssumption
  <2> QED
    BY <1>3, <2>1
<1>8. auctions' \in Seq(Auction) /\ Grown(Bidding, auctions, auctions', t, y) /\ BidsBacked'
  <2>1. HoldsMore(Bidding, auctions[i], e, t, y) /\ Backed(e)
    BY <1>2, <1>3, <1>6, <1>7 DEF Bidding, HoldsMore, Backed
  <2>2. Swaps(Auction, auctions, i, e, [auctions EXCEPT ![i] = e])
    BY <1>3, Swapped DEF EscrowTypes
  <2>3. Swaps(Auction, auctions, i, e, auctions')
    BY <1>1, <2>2
  <2> HIDE DEF t, y
  <2> QED
    BY <1>4, <2>1, <2>3, AuctionChanged
<1> HIDE DEF t, y, a
<1>9. drift' \in Drifts /\ drift' = drift
  BY <1>1 DEF LedgerPart
<1>10. Recording(books, books', t, 0, 0) /\ Drifted(drift, drift', t, 0)
  BY <1>1, <1>4, <1>9, RecordingNothing, NoDrift DEF LedgerPart
<1>11. Takes(t, y - 0 - 0) /\ (0 >= 0 => ReservesKept)
  BY <1>4, <1>5, <1>9, <1>10, Balanced
<1>12. y - 0 - 0 = y /\ 0 >= 0
  BY <1>4
<1>13. Takes(t, y) /\ ReservesKept
  BY <1>11, <1>12
<1>14. MilestonesPart' /\ PrivatePart'
  BY <1>1, MilestonesSame DEF RewardsSame, PrivatePart
<1> QED
  BY <1>4, <1>8, <1>13, <1>14, FineAuction

LEMMA AuctionSettled ==
  ASSUME ConfigPart, now \in 1 .. MaxTime, LedgerPart, EscrowTypes, BidsBacked, MilestonesPart,
         PrivatePart, NEW c \in Party, NEW i \in DOMAIN auctions,
         UNCHANGED <<schedules, locks, streams, puzzles>>, settle_auction(c, i)
  PROVE  AuctionsFine
<1> DEFINE a == auctions[i]
           t == a.token
           h == a.highest
           f == PlatformFee(h)
           q == Premium(h)
           net == h - f - q
           e == [a EXCEPT !.settled = TRUE]
           m == CreditTo(books, c, t, net, net, f, q)
           b == update_leaderboard_stats(m, a.bidder, c, net)
<1>1. /\ ~a.settled /\ auctions' = [auctions EXCEPT ![i] = e]
      /\ UNCHANGED <<wallet, private>>
      /\ IF net = 0 THEN UNCHANGED <<books, drift, milestones>>
         ELSE check_and_award_milestones(b, c, t)
  <2>1. auctions' = [auctions EXCEPT ![i].settled = TRUE]
    BY DEF settle_auction
  <2>2. auctions' = [auctions EXCEPT ![i] = e]
    BY <2>1 DEF EscrowTypes
  <2>3. IF net = 0 THEN UNCHANGED <<books, drift, milestones>>
        ELSE check_and_award_milestones(b, c, t)
    BY Zenon DEF settle_auction
  <2> HIDE DEF e, net, b
  <2> QED
    BY <2>2, <2>3 DEF settle_auction
<1>2. a \in Auction /\ (a.bidder = None => a.highest = 0)
  BY DEF EscrowTypes, BidsBacked
<1>3. e \in Auction /\ e.token = t /\ e.highest = h /\ e.settled /\ e.bidder = a.bidder
  <2> HIDE DEF a
  <2> QED
    BY <1>2 DEF Auction
<1>4. h \in Nat /\ h \in Int /\ -h \in Int /\ t \in Token /\ (a.bidder = None \/ a.bidder \in Party)
  BY <1>2 DEF Auction
<1> HIDE DEF e
<1>5. \A u \in Token : AuctionHeld(e, u) = AuctionHeld(a, u) + (IF u = t THEN -h ELSE 0)
  BY <1>1, <1>3, <1>4 DEF AuctionHeld
<1>6. auctions' \in Seq(Auction) /\ Grown(Bidding, auctions, auctions', t, -h) /\ BidsBacked'
  <2> DEFINE y == -h
  <2>1. HoldsMore(Bidding, auctions[i], e, t, y) /\ Backed(e) /\ y \in Int
    BY <1>2, <1>3, <1>4, <1>5 DEF Bidding, HoldsMore, Backed
  <2>2. Swaps(Auction, auctions, i, e, [auctions EXCEPT ![i] = e])
    BY <1>3, Swapped DEF EscrowTypes
  <2>3. Swaps(Auction, auctions, i, e, auctions')
    BY <1>1, <2>2
  <2> HIDE DEF t, y
  <2>4. auctions' \in Seq(Auction) /\ Grown(Bidding, auctions, auctions', t, y) /\ BidsBacked'
    BY <2>1, <2>3, AuctionChanged
  <2> QED
    BY <2>4 DEF y
<1>7. PrivatePart' /\ wallet' = wallet
  BY <1>1 DEF PrivatePart
<1>8. a.bidder = None => h = 0
  BY <1>2
<1> DEFINE w == a.bidder
<1> HIDE DEF t, h, a, w
<1>9. f \in Nat /\ q \in Nat /\ net \in Nat /\ (h > 0 => net > 0)
  BY <1>4, Charged
<1> HIDE DEF f, q
<1>10. net + f + q = h /\ (h = 0 => net = 0)
  BY <1>4, <1>9
<1>11. wallet \in Wallets /\ Good(books) /\ drift \in Drifts
  BY DEF LedgerPart
<1>12. CASE net = 0
  <2>1. h = 0
    BY <1>4, <1>9, <1>12
  <2>2. UNCHANGED <<wallet, books, drift>> /\ milestones' = milestones /\ drift' = drift
    BY <1>1, <1>12
  <2>3. Takes(t, 0) /\ ReservesKept
    BY <2>2, NothingTaken
  <2>4. -h = 0
    <3>1. \A k \in Int : k <= 0 /\ k >= 0 => (-k <= 0 /\ -k >= 0)
      OBVIOUS
    <3>2. -h \in Int /\ -h <= 0 /\ -h >= 0
      BY <1>4, <2>1, <3>1
    <3> QED
      BY <3>2
  <2>5. Takes(t, -h)
    BY <2>3, <2>4
  <2>6. MilestonesPart'
    BY <2>2, MilestonesSame DEF RewardsSame
  <2> QED
    BY <1>4, <1>6, <1>7, <2>3, <2>5, <2>6, FineAuction
<1>13. CASE net # 0
  <2>0. check_and_award_milestones(b, c, t)
    BY <1>1, <1>13
  <2>1. w \in Party
    BY <1>4, <1>8, <1>10, <1>13 DEF w
  <2> HIDE DEF net
  <2>2. Recording(books, m, t, net + f + q, q)
    BY <1>4, <1>9, <1>11, CreditToSound
  <2> HIDE DEF m
  <2>3. Recording(books, update_leaderboard_stats(m, w, c, net), t, net + f + q, q)
    BY <1>9, <2>1, <2>2, Ranked
  <2>4. Recording(books, b, t, h, q)
    BY <1>10, <2>3 DEF w
  <2> HIDE DEF b
  <2>5. Good(b)
    BY <2>4 DEF Recording
  <2>6. Awards(b, t) /\ MilestonesPart'
    BY <1>4, <1>11, <2>0, <2>5, Awarded
  <2>7. PICK z \in Int : /\ Recording(b, books', t, z, 0)
                         /\ drift' \in Drifts /\ Drifted(drift, drift', t, -z)
    BY <2>6 DEF Awards
  <2>8. Recording(books, books', t, h + z, q + 0)
    BY <1>4, <1>9, <1>11, <2>4, <2>7, RecordingTwice
  <2>9. h + z \in Int /\ -z \in Int /\ q + 0 \in Int /\ q + 0 >= 0 /\ 0 - (h + z) - (-z) = -h
    BY <1>4, <1>9
  <2>10. wallet' \in Wallets /\ Into(wallet, wallet', t, 0)
    BY <1>4, <1>7, <1>11, NoTransfer
  <2>11. Takes(t, 0 - (h + z) - (-z)) /\ (q + 0 >= 0 => ReservesKept)
    BY <1>4, <2>7, <2>8, <2>9, <2>10, PayNobody
  <2>12. Takes(t, -h) /\ ReservesKept
    BY <2>9, <2>11
  <2> QED
    BY <1>4, <1>6, <1>7, <2>6, <2>12, FineAuction
<1> QED
  BY <1>12, <1>13

LEMMA AuctionsTake ==
  ASSUME ConfigPart, now \in 1 .. MaxTime, LedgerPart, EscrowTypes, BidsBacked, MilestonesPart,
         PrivatePart, UNCHANGED <<schedules, locks, streams, puzzles>>, AuctionsNext
  PROVE  AuctionsFine
<1>0. /\ now \in Int /\ \A x \in Amounts : x \in Nat
      /\ \A r \in Reserves : r \in Int
      /\ \A n \in AuctionTimes : n \in Int
  BY LedgerAssumption, AuctionsAssumption
<1>1. ASSUME NEW c \in Party, NEW t \in Token, NEW r \in Reserves, NEW n \in AuctionTimes,
             create_auction(c, t, r, n)
      PROVE  AuctionsFine
  <2>1. r \in Int /\ n \in Int
    BY <1>0
  <2> QED
    BY <1>0, <1>1, <2>1, AuctionCreated
<1>2. ASSUME NEW p \in Party, NEW i \in DOMAIN auctions, NEW x \in Amounts, place_bid(p, i, x)
      PROVE  AuctionsFine
  <2>1. x \in Nat
    BY <1>0
  <2> QED
    BY <1>2, <2>1, BidPlaced
<1>3. ASSUME NEW p \in Party, NEW i \in DOMAIN auctions, settle_auction(p, i)
      PROVE  AuctionsFine
  BY <1>3, AuctionSettled
<1> QED
  BY <1>1, <1>2, <1>3, Zenon DEF AuctionsNext

-----------------------------------------------------------------------------
\* Subscriptions, insurance, administration and credit.
LEMMA SubscriptionPaid ==
  ASSUME ConfigPart, now \in 1 .. MaxTime, LedgerPart, NEW s \in Party, NEW c \in Party, NEW m,
         m.token \in Token, m.amount \in Nat, PaySubscription(s, c, m), drift' = drift
  PROVE  Settles
<1> DEFINE t == m.token
           x == m.amount
           zero == 0
<1>1. books' = CreditTo(books, c, t, x, x, zero, zero) /\ Pay(t, s, Jar, x)
  BY DEF PaySubscription
<1>2. t \in Token /\ x \in Nat /\ x \in Int /\ zero \in Nat /\ zero \in Int /\ x + zero + zero = x
  OBVIOUS
<1> HIDE DEF t, x, zero
<1>3. Recording(books, books', t, x + zero + zero, zero)
  BY <1>1, <1>2, CreditToSound DEF LedgerPart
<1>4. Recording(books, books', t, x, zero)
  BY <1>2, <1>3
<1>5. Takes(t, 0) /\ ReservesKept
  BY <1>1, <1>2, <1>4, TakenAndBooked
<1> QED
  BY <1>5 DEF Settles

LEMMA SubscriptionsTake ==
  ASSUME ConfigPart, now \in 1 .. MaxTime, LedgerPart, SubscriptionsInv, SubscriptionsNext
  PROVE  Settles
<1> USE DEF ledgerVars
<1>0. drift' = drift
  BY SubscriptionsKeep
<1>a. UNCHANGED <<wallet, books>> => Settles
  BY <1>0, NothingTaken DEF Settles
<1>b. /\ tiers \in [Tier -> {None} \cup Nat] /\ subs \in [Party -> [Party -> {None} \cup Subscription]]
      /\ \A s, c \in Party : subs[s][c] # None => SubscribedAt(subs[s][c], now, tiers)
  BY SubscriptionsInvIs DEF SubscriptionsTypeOK
<1>1. ASSUME NEW k, NEW x, set_tier_config(k, x) PROVE Settles
  BY <1>a, <1>1 DEF set_tier_config
<1>2. ASSUME NEW s, NEW c, NEW t, NEW x, NEW n, create_subscription(s, c, t, x, n) PROVE Settles
  BY <1>a, <1>2 DEF create_subscription
<1>3. ASSUME NEW s, NEW c, NEW t, NEW k, NEW n, create_tiered_subscription(s, c, t, k, n) PROVE Settles
  BY <1>a, <1>3 DEF create_tiered_subscription
<1>4. ASSUME NEW s \in Party, NEW c \in Party, NEW k \in Tier, upgrade_subscription(s, c, k) PROVE Settles
  <2> DEFINE m == subs[s][c]
             x == tiers[k]
             e == [m EXCEPT !.tier = k, !.amount = x, !.last = now, !.next = now + m.interval,
                            !.pending = None]
  <2>1. m # None /\ x # None /\ subs' = [subs EXCEPT ![s][c] = e] /\ PaySubscription(s, c, subs'[s][c])
    BY <1>4 DEF upgrade_subscription, Subscribed
  <2>2. m \in Subscription /\ x \in Nat
    BY <1>b, <2>1
  <2>3. subs'[s][c] = e
    BY <1>b, <2>1
  <2>4. e.token = m.token /\ e.amount = x /\ m.token \in Token
    BY <2>2 DEF Subscription
  <2> HIDE DEF e, m, x
  <2>5. e.token \in Token /\ e.amount \in Nat /\ PaySubscription(s, c, e)
    BY <2>1, <2>2, <2>3, <2>4
  <2> QED
    BY <1>0, <2>5, SubscriptionPaid
<1>5. ASSUME NEW s, NEW c, NEW k, downgrade_subscription(s, c, k) PROVE Settles
  BY <1>a, <1>5 DEF downgrade_subscription
<1>6. ASSUME NEW s \in Party, NEW c \in Party, execute_subscription_payment(s, c) PROVE Settles
  <2> DEFINE o == subs[s][c]
             m == Repriced(o)
             y == m.pulls + 1
             z == now + m.interval
             e == [m EXCEPT !.last = now, !.pulls = y, !.next = z]
  <2>1. o # None /\ subs' = [subs EXCEPT ![s][c] = e] /\ PaySubscription(s, c, subs'[s][c])
    BY <1>6 DEF execute_subscription_payment, Subscribed
  <2>2. o \in Subscription /\ SubscribedAt(o, now, tiers)
    BY <1>b, <2>1
  <2>3. o.token \in Token /\ o.amount \in Nat /\ (o.pending # None => tiers[o.pending] \in Nat)
    <3>1. o.token \in Token /\ o.amount \in Nat /\ (o.pending = None \/ o.pending \in Tier)
      BY <2>2 DEF Subscription
    <3>2. o.pending # None => tiers[o.pending] # None
      BY <2>2 DEF SubscribedAt
    <3> QED
      BY <1>b, <3>1, <3>2
  <2>4. subs'[s][c] = e
    BY <1>b, <2>1
  <2>5. m.token = o.token /\ m.amount \in Nat
    <3> DEFINE q == tiers[o.pending]
               w == o.pending
    <3>1. m = IF o.pending = None THEN o ELSE [o EXCEPT !.tier = w, !.amount = q, !.pending = None]
      BY DEF Repriced
    <3> HIDE DEF q, w, m, o
    <3>2. [o EXCEPT !.tier = w, !.amount = q, !.pending = None].token = o.token
          /\ [o EXCEPT !.tier = w, !.amount = q, !.pending = None].amount = q
      BY <2>2 DEF Subscription
    <3>3. o.pending # None => q \in Nat
      BY <2>3 DEF q
    <3> QED
      BY <2>3, <3>1, <3>2, <3>3
  <2>6. e.token = m.token /\ e.amount = m.amount
    <3> DEFINE q == tiers[o.pending]
               w == o.pending
    <3>1. m = IF o.pending = None THEN o ELSE [o EXCEPT !.tier = w, !.amount = q, !.pending = None]
      BY DEF Repriced
    <3> HIDE DEF q, w, m, o, y, z
    <3> QED
      BY <2>2, <3>1 DEF Subscription
  <2> HIDE DEF e, m, o
  <2>7. e.token \in Token /\ e.amount \in Nat /\ PaySubscription(s, c, e)
    BY <2>1, <2>3, <2>4, <2>5, <2>6
  <2> QED
    BY <1>0, <2>7, SubscriptionPaid
<1>7. ASSUME NEW s, NEW c, pause_subscription(s, c) \/ resume_subscription(s, c) \/ cancel_subscription(s, c)
      PROVE  Settles
  BY <1>a, <1>7 DEF pause_subscription, resume_subscription, cancel_subscription
<1> QED
  BY <1>1, <1>2, <1>3, <1>4, <1>5, <1>6, <1>7, Zenon DEF SubscriptionsNext

\* A premium of a contribution is at most a tenth of it.
LEMMA PremiumTenth ==
  ASSUME NEW x \in Nat, NEW b \in Nat, b <= MaxPremiumBps
  PROVE  (x * b) \div Bps \in Nat /\ 10 * ((x * b) \div Bps) <= x
<1> DEFINE p == (x * b) \div Bps
<1>1. Bps \in Nat \ {0} /\ MaxPremiumBps \in Nat /\ 10 * MaxPremiumBps <= Bps
  BY LedgerAssumption, InsuranceAssumption
<1>2. x * b \in Nat
  BY Product
<1>3. p \in Nat /\ p * Bps <= x * b
  BY <1>1, <1>2, Portion
<1> HIDE DEF p
<1>4. (10 * p) * Bps = 10 * (p * Bps) /\ p * Bps \in Int
  BY <1>1, <1>3
<1>5. 10 * (x * b) = x * (10 * b)
  OBVIOUS
<1>6. x * (10 * b) <= x * Bps
  <2>1. Bps - 10 * b \in Nat
    BY <1>1
  <2>2. x * (Bps - 10 * b) \in Nat
    BY <2>1, Product
  <2>3. x * (Bps - 10 * b) = x * Bps - x * (10 * b)
    BY <1>1
  <2>4. x * Bps \in Int /\ x * (10 * b) \in Int
    BY <1>1
  <2> QED
    BY <2>2, <2>3, <2>4
<1>7. x * Bps \in Int /\ x * (10 * b) \in Int /\ (10 * p) * Bps \in Int
  BY <1>1, <1>3
<1>8. (10 * p) * Bps <= x * Bps
  BY <1>2, <1>3, <1>4, <1>5, <1>6, <1>7
<1>9. 10 * p <= x
  BY <1>1, <1>3, <1>8, Factor
<1> QED
  BY <1>3, <1>9 DEF p

\* Reserves r that cover a tenth of c still do once x comes in less a premium.
LEMMA TenthKept ==
  ASSUME NEW r \in Int, NEW c \in Nat, NEW x \in Nat, NEW p \in Nat, r >= c \div 10, 10 * p <= x
  PROVE  r + (x - p) >= (c + x) \div 10
OBVIOUS

InsuranceFine == (\E t : Takes(t, 0)) /\ ReserveFloor'
LEMMA Contributed ==
  ASSUME ConfigPart, LedgerPart, InsuranceInv, ReserveFloor,
         NEW c \in Party, NEW t \in Token, NEW x \in Nat, insurance_contribute(c, t, x)
  PROVE  InsuranceFine
<1> DEFINE b == config.insurance.premium_bps
           p == (x * b) \div Bps
           q == x - p
           res == [books.reserves EXCEPT ![t] = books.reserves[t] + x - p]
           fee == [books.fees EXCEPT ![t] = books.fees[t] + p]
           n == [books EXCEPT !.reserves = res, !.fees = fee]
<1>1. /\ config.insurance # None /\ Pay(t, c, Jar, x)
      /\ books' = n /\ pools' = [pools EXCEPT ![t].contributions = @ + x] /\ drift' = drift
  BY DEF insurance_contribute, Insured
<1>2. config.insurance \in InsuranceConfig /\ b <= MaxPremiumBps
  BY <1>1 DEF ConfigPart, Config, PremiumsCapped
<1>3. b \in Nat
  BY <1>2 DEF InsuranceConfig
<1> HIDE DEF b
<1>4. p \in Nat /\ 10 * p <= x
  BY <1>2, <1>3, PremiumTenth
<1> HIDE DEF p
<1>5. q \in Nat /\ q + p = x
  BY <1>4
<1>6. /\ Good(books) /\ books \in Books /\ books.fees \in [Token -> Int]
      /\ books.reserves \in [Token -> Int] /\ books.balance \in Balances
      /\ LoansAt(books.credit, now, config)
  BY DEF LedgerPart, Good, Books, Balances
<1>7. /\ res \in [Token -> Int] /\ Raised(books.reserves, res, t, q)
      /\ fee \in [Token -> Int] /\ Raised(books.fees, fee, t, p)
  BY <1>4, <1>6 DEF Raised
<1> HIDE DEF q
<1> HIDE DEF res, fee
<1>8. n \in Books /\ n.reserves = res /\ n.fees = fee /\ n.balance = books.balance /\ n.credit = books.credit
  BY <1>6, <1>7 DEF Books
<1> HIDE DEF n
<1>9. Moved(books.balance, n.balance, c, t, 0)
  BY <1>6, <1>8 DEF Moved, Balances
<1>10. q \in Int /\ p \in Int /\ 0 \in Int /\ x = 0 + p + q
  BY <1>4, <1>5
<1>11. Recording(books, n, t, x, q)
  BY <1>6, <1>7, <1>8, <1>9, <1>10, Bookkept
<1>12. Takes(t, 0)
  BY <1>1, <1>5, <1>11, TakenAndBooked
<1>13. ASSUME NEW u \in Token PROVE books'.reserves[u] >= pools'[u].contributions \div 10
  <2> DEFINE C == pools[u].contributions
             R == books.reserves[u]
  <2>1. pools[u] \in [contributions : Nat, active : Int] /\ pools \in [Token -> [contributions : Nat, active : Int]]
    BY DEF InsuranceInv, InsuranceTypeOK
  <2>2. C \in Nat /\ R \in Int
    BY <1>6, <2>1
  <2>3. R >= C \div 10
    BY DEF ReserveFloor
  <2>4. books'.reserves[u] = R + (IF u = t THEN q ELSE 0)
    BY <1>1, <1>7, <1>8 DEF Raised
  <2>5. pools'[u].contributions = IF u = t THEN C + x ELSE C
    BY <1>1, <2>1
  <2> HIDE DEF C, R
  <2>6. R + (x - p) >= (C + x) \div 10
    BY <1>4, <2>2, <2>3, TenthKept
  <2>7. R + 0 = R
    BY <2>2
  <2> QED
    BY <2>3, <2>4, <2>5, <2>6, <2>7 DEF q
<1> QED
  BY <1>12, <1>13 DEF InsuranceFine, ReserveFloor

LEMMA ExcessWithdrawn ==
  ASSUME LedgerPart, InsuranceInv, ReserveFloor,
         NEW t \in Token, NEW x \in Nat, insurance_withdraw_excess(t, x)
  PROVE  InsuranceFine
<1> DEFINE y == -x
           zero == 0
           res == [books.reserves EXCEPT ![t] = books.reserves[t] - x]
           n == [books EXCEPT !.reserves = res]
<1>1. /\ Pay(t, Jar, Admin, x) /\ books' = n /\ pools' = pools /\ drift' = drift
      /\ books.reserves[t] - x >= pools[t].contributions \div 10
  BY DEF insurance_withdraw_excess, insuranceVars
<1>2. /\ Good(books) /\ books \in Books /\ books.fees \in [Token -> Int]
      /\ books.reserves \in [Token -> Int] /\ books.balance \in Balances
      /\ LoansAt(books.credit, now, config)
  BY DEF LedgerPart, Good, Books, Balances
<1>3. res \in [Token -> Int] /\ Raised(books.reserves, res, t, y) /\ Raised(books.fees, books.fees, t, zero)
  BY <1>2 DEF Raised
<1>4. y \in Int /\ zero \in Int /\ y = zero + zero + y
  OBVIOUS
<1> HIDE DEF res
<1>5. n \in Books /\ n.reserves = res /\ n.fees = books.fees /\ n.balance = books.balance /\ n.credit = books.credit
  BY <1>2, <1>3 DEF Books
<1> HIDE DEF n
<1>6. Moved(books.balance, n.balance, Admin, t, zero)
  BY <1>2, <1>5 DEF Moved, Balances
<1> HIDE DEF zero
<1>7. Recording(books, n, t, y, y)
  BY <1>2, <1>3, <1>4, <1>5, <1>6, LedgerAssumption, Bookkept
<1>8. Recording(books, books', t, -x, y)
  BY <1>1, <1>7
<1>9. Takes(t, 0)
  BY <1>1, <1>4, <1>8, LedgerAssumption, PaidAndBooked
<1>10. ASSUME NEW u \in Token PROVE books'.reserves[u] >= pools'[u].contributions \div 10
  <2>1. books.reserves[u] \in Int /\ books.reserves[u] >= pools[u].contributions \div 10
    BY <1>2 DEF ReserveFloor
  <2>2. books'.reserves[u] = IF u = t THEN books.reserves[t] - x ELSE books.reserves[u]
    BY <1>1, <1>2, <1>5 DEF res
  <2> QED
    BY <1>1, <2>1, <2>2
<1> QED
  BY <1>9, <1>10 DEF InsuranceFine, ReserveFloor

LEMMA InsuranceTakes ==
  ASSUME ConfigPart, LedgerPart, InsuranceInv, ReserveFloor, InsuranceNext
  PROVE  InsuranceFine
<1> USE DEF ledgerVars, insuranceVars
<1>0. drift' = drift /\ \A x \in Amounts : x \in Nat
  BY InsuranceKeeps, LedgerAssumption
<1>a. pools \in [Token -> [contributions : Nat, active : Int]]
  BY DEF InsuranceInv, InsuranceTypeOK
<1>b. ASSUME UNCHANGED <<wallet, books>>,
             \A u \in Token : pools'[u].contributions = pools[u].contributions
      PROVE  InsuranceFine
  <2>1. Takes(None, 0)
    BY <1>0, <1>b, NothingTaken
  <2>2. ReserveFloor'
    BY <1>b DEF ReserveFloor
  <2> QED
    BY <2>1, <2>2 DEF InsuranceFine
<1>1. ASSUME NEW c, insurance_set_config(c) PROVE InsuranceFine
  BY <1>b, <1>1 DEF insurance_set_config
<1>2. ASSUME NEW n, insurance_set_max_active_claims(n) PROVE InsuranceFine
  BY <1>b, <1>2 DEF insurance_set_max_active_claims
<1>3. ASSUME NEW p, insurance_set_admin(p) PROVE InsuranceFine
  BY <1>b, <1>3 DEF insurance_set_admin
<1>4. ASSUME NEW ids, CountDown(ids)
      PROVE  \A u \in Token : pools'[u].contributions = pools[u].contributions
  <2>1. \E F : pools' = [u \in Token |-> [pools[u] EXCEPT !.active = F[u]]]
    <3> DEFINE times(c, u) == Cardinality({k \in DOMAIN ids :
                                claims[ids[k]].creator = c /\ claims[ids[k]].token = u})
               G == [u \in Token |-> pools[u].active - SumFunction([c \in Party |-> times(c, u)])]
    <3>1. pools' = [u \in Token |-> [pools[u] EXCEPT !.active = G[u]]]
      BY <1>4 DEF CountDown
    <3> HIDE DEF G
    <3> QED
      BY <3>1
  <2> QED
    BY <1>a, <2>1
<1>5. ASSUME NEW p, NEW i, insurance_approve_claim(p, i) PROVE InsuranceFine
  BY <1>b, <1>4, <1>5 DEF insurance_approve_claim
<1>6. ASSUME NEW p, NEW i, insurance_reject_claim(p, i) PROVE InsuranceFine
  BY <1>b, <1>6 DEF insurance_reject_claim
<1>7. ASSUME NEW ids, insurance_process_claims_batch(ids) PROVE InsuranceFine
  BY <1>b, <1>4, <1>7 DEF insurance_process_claims_batch
<1>8. ASSUME NEW t \in Token, NEW x \in Amounts, insurance_withdraw_excess(t, x) PROVE InsuranceFine
  <2>1. x \in Nat
    BY <1>0
  <2> QED
    BY <1>8, <2>1, ExcessWithdrawn
<1>9. ASSUME NEW c \in Party, NEW t \in Token, NEW x \in Amounts, insurance_contribute(c, t, x)
      PROVE  InsuranceFine
  <2>1. x \in Nat
    BY <1>0
  <2> QED
    BY <1>9, <2>1, Contributed
<1>10. ASSUME NEW c, NEW t \in Token, NEW x, insurance_submit_claim(c, t, x) PROVE InsuranceFine
  <2>1. pools' = [pools EXCEPT ![t].active = @ + 1]
    BY <1>10 DEF insurance_submit_claim
  <2>2. \A u \in Token : pools'[u].contributions = pools[u].contributions
    BY <1>a, <2>1
  <2> QED
    BY <1>b, <1>10, <2>2 DEF insurance_submit_claim
<1> QED
  BY <1>1, <1>2, <1>3, <1>5, <1>6, <1>7, <1>8, <1>9, <1>10, Zenon DEF InsuranceNext

\* Fees and a balance change places, and a loan with them.
Lent(b, c, t, f, y, l) ==
  [b EXCEPT !.fees[t] = b.fees[t] + f, !.balance[c][t] = b.balance[c][t] + y, !.credit[c][t] = l]
LEMMA LoanBooked ==
  ASSUME LedgerPart, NEW c \in Party, NEW t \in Token, NEW f \in Int, NEW y \in Int, f + y = 0,
         NEW l \in Loan, LoanAt(l, now, config), UNCHANGED <<wallet, drift>>,
         books' = Lent(books, c, t, f, y, l)
  PROVE  Takes(t, 0) /\ ReservesKept
<1> DEFINE bal == [books.balance EXCEPT ![c][t] = books.balance[c][t] + y]
           fee == [books.fees EXCEPT ![t] = books.fees[t] + f]
           g == [books.credit[c] EXCEPT ![t] = l]
           cr == [books.credit EXCEPT ![c] = g]
           n == [books EXCEPT !.fees = fee, !.balance = bal, !.credit = cr]
<1>1. books' = n
  BY DEF Lent
<1>2. /\ Good(books) /\ books \in Books /\ books.fees \in [Token -> Int]
      /\ books.reserves \in [Token -> Int] /\ books.balance \in Balances
      /\ LoansAt(books.credit, now, config) /\ books.credit \in Credits
  BY DEF LedgerPart, Good, Books, Balances, Credits
<1>3. bal \in Balances /\ Moved(books.balance, bal, c, t, y)
  BY <1>2 DEF Balances, Moved
<1>4. fee \in [Token -> Int] /\ Raised(books.fees, fee, t, f)
  BY <1>2 DEF Raised
<1>5. g \in [Token -> {None} \cup Loan] /\ \A u \in Token : g[u] = IF u = t THEN l ELSE books.credit[c][u]
  BY <1>2 DEF Credits
<1> HIDE DEF g
<1>6. cr \in Credits /\ \A p \in Party : cr[p] = IF p = c THEN g ELSE books.credit[p]
  BY <1>2, <1>5 DEF Credits
<1> HIDE DEF cr, bal, fee
<1>7. LoansAt(cr, now, config)
  BY <1>2, <1>5, <1>6 DEF LoansAt
<1>8. n \in Books /\ n.fees = fee /\ n.balance = bal /\ n.credit = cr /\ n.reserves = books.reserves
  BY <1>2, <1>3, <1>4, <1>6 DEF Books, Balances, Credits
<1> HIDE DEF n
<1> DEFINE zero == 0
<1>9. Raised(books.reserves, n.reserves, t, zero) /\ zero \in Int /\ zero = y + f + zero
  BY <1>2, <1>8 DEF Raised
<1> HIDE DEF zero
<1>10. Recording(books, n, t, zero, zero)
  BY <1>2, <1>3, <1>4, <1>7, <1>8, <1>9, Bookkept
<1>11. Recording(books, books', t, 0, 0)
  BY <1>1, <1>10 DEF zero
<1> QED
  BY <1>11, Rebooked

LEMMA Borrowed ==
  ASSUME ConfigPart, now \in 1 .. MaxTime, LedgerPart,
         NEW c \in Party, NEW t \in Token, NEW x \in Nat, borrow(c, t, x)
  PROVE  Settles
<1> DEFINE o == IF books.credit[c][t] = None THEN NoCredit ELSE books.credit[c][t]
           a == accrue_interest(o)
           k == a.principal + x
           w == a.borrowed + x
           l == [a EXCEPT !.principal = k, !.borrowed = w, !.updated = now]
<1>1. config.credit # None /\ UNCHANGED <<wallet, drift>>
      /\ books' = [books EXCEPT !.fees[t] = books.fees[t] - x,
                                !.balance[c][t] = books.balance[c][t] + x, !.credit[c][t] = l]
  BY DEF borrow, CreditEnabled
<1>2. /\ Good(books) /\ books \in Books /\ now \in Nat /\ now \in Int
      /\ LoansAt(books.credit, now, config) /\ books.credit \in Credits
      /\ books.fees[t] \in Int
  BY LedgerAssumption DEF LedgerPart, Good, Books, Credits
<1>3. o \in Loan /\ LoanAt(o, now, config)
  <2>1. CASE books.credit[c][t] = None
    <3>1. o = [principal |-> 0, interest |-> 0, updated |-> now, borrowed |-> 0, repaid |-> 0,
               charged |-> 0]
      BY <2>1 DEF NoCredit
    <3> QED
      BY <1>1, <1>2, <3>1 DEF Loan, LoanAt
  <2>2. CASE books.credit[c][t] # None
    BY <1>2, <2>2 DEF Credits, LoansAt
  <2> QED
    BY <2>1, <2>2
<1> HIDE DEF o
<1>4. a \in Loan /\ LoanAt(a, now, config)
  BY <1>3, Accrued
<1> HIDE DEF a
<1>5. /\ a.principal \in Int /\ a.interest \in Int /\ a.repaid \in Int /\ a.borrowed \in Int
      /\ a.updated \in Int /\ a.charged \in Int
  BY <1>4 DEF Loan
<1>6. k \in Int /\ w \in Int /\ k = a.principal + x /\ w = a.borrowed + x
  BY <1>5
<1> HIDE DEF k, w
<1>7. /\ l \in Loan /\ l.principal = k /\ l.borrowed = w /\ l.interest = a.interest
      /\ l.repaid = a.repaid /\ l.updated = now /\ l.charged = a.charged
  BY <1>2, <1>4, <1>6 DEF Loan
<1> HIDE DEF l
<1>8. LoanAt(l, now, config)
  BY <1>2, <1>4, <1>5, <1>6, <1>7 DEF LoanAt
<1> DEFINE f == -x
<1>9. f \in Int /\ x \in Int /\ f + x = 0 /\ books.fees[t] + f = books.fees[t] - x
  BY <1>2
<1> HIDE DEF f
<1>10. books' = Lent(books, c, t, f, x, l)
  BY <1>1, <1>9 DEF Lent
<1>11. Takes(t, 0) /\ ReservesKept
  <2>1. UNCHANGED <<wallet, drift>>
    BY <1>1
  <2> QED
    BY <1>7, <1>8, <1>9, <1>10, <2>1, LoanBooked
<1> QED
  BY <1>11 DEF Settles

LEMMA CreditRepaid ==
  ASSUME ConfigPart, now \in 1 .. MaxTime, LedgerPart,
         NEW c \in Party, NEW t \in Token, NEW x \in Nat, repay_credit(c, t, x)
  PROVE  Settles
<1> DEFINE o == books.credit[c][t]
           a == accrue_interest(o)
           paid == Smaller(x, a.principal + a.interest)
           l == Settled(a, paid)
<1>1. o # None /\ UNCHANGED <<wallet, drift>>
      /\ books' = [books EXCEPT !.fees[t] = books.fees[t] + paid,
                                !.balance[c][t] = books.balance[c][t] - paid, !.credit[c][t] = l]
  BY DEF repay_credit
<1>2. /\ Good(books) /\ books \in Books /\ LoansAt(books.credit, now, config)
      /\ books.credit \in Credits /\ books.balance[c][t] \in Int
  BY DEF LedgerPart, Good, Books, Credits
<1>3. o \in Loan /\ LoanAt(o, now, config)
  BY <1>1, <1>2 DEF Credits, LoansAt
<1> HIDE DEF o
<1>4. a \in Loan /\ LoanAt(a, now, config)
  BY <1>3, Accrued
<1> HIDE DEF a
<1>5. a.principal \in Nat /\ a.interest \in Nat
  BY <1>4 DEF Loan, LoanAt
<1>6. paid \in Nat /\ paid <= a.principal + a.interest
  BY <1>5 DEF Smaller
<1> HIDE DEF paid
<1>7. l \in Loan /\ LoanAt(l, now, config)
  BY <1>4, <1>6, SettledSound
<1> HIDE DEF l
<1> DEFINE y == -paid
<1>8. /\ y \in Int /\ paid \in Int /\ paid + y = 0
      /\ books.balance[c][t] + y = books.balance[c][t] - paid
  BY <1>2, <1>6
<1> HIDE DEF y
<1>9. books' = Lent(books, c, t, paid, y, l)
  BY <1>1, <1>8 DEF Lent
<1>10. Takes(t, 0) /\ ReservesKept
  <2>1. UNCHANGED <<wallet, drift>>
    BY <1>1
  <2> QED
    BY <1>7, <1>8, <1>9, <2>1, LoanBooked
<1> QED
  BY <1>10 DEF Settles

LEMMA FeesWithdrawn ==
  ASSUME LedgerPart, NEW t \in Token, withdraw_fees(t)
  PROVE  Settles
<1> DEFINE x == books.fees[t]
           y == -x
           zero == 0
           fee == [books.fees EXCEPT ![t] = 0]
           n == [books EXCEPT !.fees = fee]
<1>1. Pay(t, Jar, Admin, x) /\ books' = n /\ drift' = drift
  BY DEF withdraw_fees
<1>2. /\ Good(books) /\ books \in Books /\ books.fees \in [Token -> Int]
      /\ books.reserves \in [Token -> Int] /\ books.balance \in Balances
      /\ LoansAt(books.credit, now, config)
  BY DEF LedgerPart, Good, Books, Balances
<1>3. /\ fee \in [Token -> Int] /\ Raised(books.fees, fee, t, y)
      /\ Raised(books.reserves, books.reserves, t, zero)
  BY <1>2 DEF Raised
<1>4. x \in Int /\ y \in Int /\ zero \in Int /\ y = zero + y + zero /\ zero >= 0 /\ y = -x
  BY <1>2
<1> HIDE DEF fee
<1>5. n \in Books /\ n.fees = fee /\ n.reserves = books.reserves /\ n.balance = books.balance /\ n.credit = books.credit
  BY <1>2, <1>3 DEF Books
<1> HIDE DEF n
<1>6. Moved(books.balance, n.balance, Admin, t, zero)
  BY <1>2, <1>5 DEF Moved, Balances
<1> HIDE DEF zero, x, y
<1>7. Recording(books, n, t, y, zero)
  BY <1>2, <1>3, <1>4, <1>5, <1>6, LedgerAssumption, Bookkept
<1>8. Recording(books, books', t, -x, zero)
  BY <1>1, <1>4, <1>7
<1>9. Takes(t, 0) /\ ReservesKept
  BY <1>1, <1>4, <1>8, LedgerAssumption, PaidAndBooked
<1> QED
  BY <1>9 DEF Settles

LEMMA AdminTakes ==
  ASSUME ConfigPart, now \in 1 .. MaxTime, LedgerPart, AdminNext \/ CreditNext
  PROVE  Settles /\ drift' = drift
<1> USE DEF ledgerVars, adminVars, Set, Switch
<1> DEFINE Fair == Settles /\ drift' = drift
<1>0. \A x \in Loans : x \in Nat
  BY CreditAssumption
<1>a. UNCHANGED <<wallet, books, drift>> => Fair
  BY NothingTaken DEF Settles
<1>1. ASSUME NEW t, add_token(t) \/ remove_token(t) PROVE Fair
  BY <1>a, <1>1 DEF add_token, remove_token
<1>2. ASSUME NEW t \in Token, withdraw_fees(t) PROVE Fair
  BY <1>2, FeesWithdrawn DEF withdraw_fees
<1>3. ASSUME NEW x, set_min_tip(x) PROVE Fair
  BY <1>a, <1>3 DEF set_min_tip
<1>4. ASSUME NEW x, set_fee_bps(x) PROVE Fair
  BY <1>a, <1>4 DEF set_fee_bps
<1>5. ASSUME NEW x, set_circuit_breaker_config(x) PROVE Fair
  BY <1>a, <1>5 DEF set_circuit_breaker_config
<1>6. ASSUME NEW x, set_credit_config(x) \/ insurance_set_enabled(x) PROVE Fair
  BY <1>a, <1>6 DEF set_credit_config, insurance_set_enabled
<1>7. pause \/ unpause => Fair
  BY <1>a DEF pause, unpause
<1>8. ASSUME NEW s, pause_feature(s) \/ unpause_feature(s) PROVE Fair
  BY <1>a, <1>8 DEF pause_feature, unpause_feature
<1>9. trigger_circuit_breaker \/ reset_circuit_breaker => Fair
  BY <1>a DEF trigger_circuit_breaker, reset_circuit_breaker
<1>10. ASSUME NEW c \in Party, NEW t \in Token, NEW x \in Loans, borrow(c, t, x) PROVE Fair
  <2>1. x \in Nat /\ drift' = drift
    BY <1>0, <1>10 DEF borrow
  <2> QED
    BY <1>10, <2>1, Borrowed
<1>11. ASSUME NEW c \in Party, NEW t \in Token, NEW x \in Loans, repay_credit(c, t, x) PROVE Fair
  <2>1. x \in Nat /\ drift' = drift
    BY <1>0, <1>11 DEF repay_credit
  <2> QED
    BY <1>11, <2>1, CreditRepaid
<1> HIDE DEF Fair
<1>12. AdminNext => Fair
  BY <1>1, <1>2, <1>3, <1>4, <1>5, <1>6, <1>7, <1>8, <1>9, Zenon DEF AdminNext
<1>13. CreditNext => Fair
  BY <1>10, <1>11, Zenon DEF CreditNext
<1> QED
  BY <1>12, <1>13 DEF Fair

-----------------------------------------------------------------------------
\* The inductive invariant behind what the jar holds and what it pays.
JarInv ==
  /\ now \in 1 .. MaxTime /\ ConfigPart
  /\ LedgerPart /\ MilestonesPart /\ PrivatePart
  /\ EscrowTypes /\ BidsBacked
  /\ TimeLocksPart /\ StreamsPart /\ LimitsPart /\ RequestsPart
  /\ SubscriptionsInv /\ InsuranceInv /\ ReserveFloor
  /\ JarAccounted

LEMMA NothingEarned ==
  ASSUME Init
  PROVE  MilestonesPart
<1>1. milestones = [c \in Party |-> << >>] /\ drift.rewards = [t \in Token |-> 0]
  BY DEF Init, TipsInit, LedgerInit, PerParty, PerToken
<1>2. SumFunction(drift.rewards) = 0
  <2> DEFINE f == drift.rewards
  <2>1. f \in [Token -> Int] /\ \A t \in Token : f[t] = 0
    BY <1>1
  <2> HIDE DEF f
  <2>2. SumFunction(f) = 0
    BY <2>1, LedgerAssumption, SumZero
  <2> QED
    BY <2>2 DEF f
<1>3. ASSUME NEW c \in Party PROVE EarnedIn(milestones[c]) = 0
  <2> DEFINE q == milestones[c]
             f == [i \in DOMAIN q |-> IF q[i].completed THEN RewardOf(q[i]) ELSE 0]
  <2>1. f \in [{} -> Int]
    BY <1>1
  <2> HIDE DEF f
  <2>2. SumFunction(f) = 0
    BY <2>1, SumEmpty
  <2> QED
    BY <2>2 DEF f, EarnedIn
<1>4. EarnedBy(milestones) = 0
  <2> DEFINE f == [c \in Party |-> EarnedIn(milestones[c])]
  <2>1. f \in [Party -> Int] /\ \A c \in Party : f[c] = 0
    BY <1>3
  <2> HIDE DEF f
  <2>2. SumFunction(f) = 0
    BY <2>1, LedgerAssumption, SumZero
  <2> QED
    BY <2>2 DEF f, EarnedBy
<1>5. milestones \in [Party -> Seq(Milestone)]
  BY <1>1
<1> QED
  BY <1>2, <1>4, <1>5, RewardedOnceIs DEF MilestonesPart

LEMMA NothingHeld ==
  ASSUME Init
  PROVE  LedgerPart /\ EscrowTypes /\ ReserveFloor /\ JarAccounted
<1>1. /\ wallet = [t \in Token |-> [a \in Party \cup {Jar} |-> IF a = Jar THEN 0 ELSE Supply[a]]]
      /\ books = [balance |-> PerParty(PerToken(0)), total |-> PerParty(PerToken(0)),
                  fees |-> PerToken(0), reserves |-> PerToken(0),
                  credit |-> PerParty(PerToken(None)),
                  tipped |-> PerParty(0), received |-> PerParty(0)]
      /\ drift = [rewards |-> PerToken(0), repaid |-> PerToken(0),
                  lost |-> PerToken(0), swapped |-> PerToken(0)]
  BY DEF Init, LedgerInit
<1>2. /\ schedules = << >> /\ locks = << >> /\ streams = << >> /\ puzzles = << >> /\ auctions = << >>
      /\ pools = [t \in Token |-> [contributions |-> 0, active |-> 0]]
  BY DEF Init, LocksInit, AuctionsInit, InsuranceInit, PerToken
<1>3. wallet \in Wallets /\ \A u \in Token : wallet[u][Jar] = 0
  BY <1>1, LedgerAssumption DEF Wallets, Account
<1>4. books \in Books
  BY <1>1 DEF Books, PerParty, PerToken
<1>5. LoansAt(books.credit, now, config)
  BY <1>1 DEF LoansAt, PerParty, PerToken
<1>6. drift \in Drifts /\ \A u \in Token : Drift(u) = 0
  BY <1>1 DEF Drifts, PerToken, Drift
<1>7. EscrowTypes
  BY <1>2 DEF EscrowTypes
<1>8. ReserveFloor
  BY <1>1, <1>2 DEF ReserveFloor, PerToken
<1>9. ASSUME NEW u \in Token PROVE Recorded(u) = 0
  <2> DEFINE f == [c \in Party |-> books.balance[c][u]]
  <2>1. f \in [Party -> Int] /\ (\A c \in Party : f[c] = 0) /\ books.fees[u] = 0 /\ books.reserves[u] = 0
    BY <1>1 DEF PerParty, PerToken
  <2>2. Recorded(u) = SumFunction(f) + books.fees[u] + books.reserves[u]
    BY DEF Recorded, RecordedIn
  <2> HIDE DEF f
  <2>3. SumFunction(f) = 0
    BY <2>1, LedgerAssumption, SumZero
  <2> QED
    BY <2>1, <2>2, <2>3
<1>10. ASSUME NEW u \in Token PROVE LockEscrow(u) = 0 /\ AuctionEscrow(u) = 0
  <2> DEFINE a == [i \in DOMAIN schedules |-> VestingHeld(schedules[i], u)]
             b == [i \in DOMAIN locks |-> LockHeld(locks[i], u)]
             c == [i \in DOMAIN streams |-> StreamHeld(streams[i], u)]
             d == [i \in DOMAIN puzzles |-> PuzzleHeld(puzzles[i], u)]
             e == [i \in DOMAIN auctions |-> AuctionHeld(auctions[i], u)]
  <2>1. /\ a \in [{} -> Int] /\ b \in [{} -> Int] /\ c \in [{} -> Int] /\ d \in [{} -> Int]
        /\ e \in [{} -> Int]
    BY <1>2
  <2>2. /\ LockEscrow(u) = SumFunction(a) + SumFunction(b) + SumFunction(c) + SumFunction(d)
        /\ AuctionEscrow(u) = SumFunction(e)
    BY DEF LockEscrow, AuctionEscrow
  <2> HIDE DEF a, b, c, d, e
  <2>3. /\ SumFunction(a) = 0 /\ SumFunction(b) = 0 /\ SumFunction(c) = 0 /\ SumFunction(d) = 0
        /\ SumFunction(e) = 0
    BY <2>1, SumEmpty
  <2> QED
    BY <2>2, <2>3
<1>11. JarAccounted
  BY <1>3, <1>6, <1>9, <1>10 DEF JarAccounted
<1> QED
  BY <1>3, <1>4, <1>5, <1>6, <1>7, <1>8, <1>11 DEF LedgerPart, Good

LEMMA JarStart ==
  ASSUME Init
  PROVE  JarInv
<1>1. now \in 1 .. MaxTime
  BY LedgerAssumption DEF Init, LedgerInit
<1>2. PrivatePart
  BY DEF Init, TipsInit, PrivatePart
<1>3. BidsBacked
  BY DEF Init, AuctionsInit, BidsBacked
<1> QED
  BY <1>1, <1>2, <1>3, NothingEarned, NothingHeld, ConfigStart, TimeLocksStart, StreamsStart,
     LimitsStart, RequestsStart, SubscriptionsStart, ClaimsStart DEF JarInv

\* What the calls show of a step carries over to the next state.
LEMMA LedgerLater ==
  ASSUME JarInv, [Next]_jarVars, wallet' \in Wallets, Good(books'), drift' \in Drifts,
         EscrowTypes', Accounts
  PROVE  LedgerPart' /\ JarAccounted'
<1>1. now \in Nat /\ now' \in Nat /\ now <= now'
  BY TimeStep, LedgerAssumption DEF JarInv
<1>2. TermsStay(config, config')
  BY ConfigStep DEF JarInv
<1>3. books' \in Books /\ LoansAt(books'.credit, now, config)
  BY DEF Good
<1>4. books'.credit \in Credits
  BY <1>3 DEF Books, Credits
<1>5. LoansAt(books'.credit, now', config')
  BY <1>1, <1>2, <1>3, <1>4, LoansLater
<1>6. LedgerPart'
  BY <1>3, <1>5 DEF LedgerPart, Good
<1>7. (LedgerPart /\ EscrowTypes => (JarAccounted <=> \A u \in Token : Beyond(u) = 0))'
  BY JarAccountedIs, PTL
<1>8. \A u \in Token : Beyond(u) = 0
  BY JarAccountedIs DEF JarInv
<1>9. ASSUME NEW u \in Token PROVE (Beyond(u) = 0)'
  <2>1. Excess(wallet', books', drift', u)
          - EscrowIn(schedules', locks', streams', puzzles', auctions', u) = 0
    BY <1>8 DEF Accounts
  <2> QED
    BY <2>1 DEF Beyond, EscrowNow
<1> QED
  BY <1>6, <1>7, <1>9

escrowVars == <<schedules, locks, streams, puzzles, auctions>>
LEMMA EscrowsStay ==
  ASSUME LedgerPart, EscrowTypes, NEW t, Takes(t, 0), UNCHANGED escrowVars
  PROVE  /\ wallet' \in Wallets /\ Good(books') /\ drift' \in Drifts
         /\ EscrowTypes' /\ Accounts
<1> USE DEF escrowVars
<1>1. schedules \in Seq(Schedule) /\ Holding(Vesting, Schedule)
  BY HoldingTypes DEF EscrowTypes
<1>2. Grown(Vesting, schedules, schedules', t, 0)
  BY <1>1, GrownSame
<1>3. EscrowChange(t, 0)
  BY <1>1, <1>2 DEF EscrowChange
<1>4. EscrowTypes' /\ Escrows(t, 0)
  BY <1>3, EscrowMoves
<1>5. Accounts
  BY <1>4, AccountsMove
<1> QED
  BY <1>4, <1>5 DEF Takes

LEMMA FloorStays ==
  ASSUME LedgerPart, InsuranceInv, ReserveFloor, Good(books'), ReservesKept, UNCHANGED pools
  PROVE  ReserveFloor'
<1> SUFFICES ASSUME NEW u \in Token PROVE books'.reserves[u] >= pools'[u].contributions \div 10
  BY DEF ReserveFloor
<1>1. books.reserves[u] \in Int /\ books'.reserves[u] \in Int
  BY DEF LedgerPart, Good, Books
<1>2. pools[u].contributions \in Nat
  BY DEF InsuranceInv, InsuranceTypeOK
<1> QED
  BY <1>1, <1>2 DEF ReserveFloor, ReservesKept

\* What the groups of calls have in common.
Kept ==
  LedgerPart' /\ MilestonesPart' /\ PrivatePart' /\ EscrowTypes' /\ BidsBacked'
    /\ ReserveFloor' /\ JarAccounted'
LEMMA SettledKeeps ==
  ASSUME JarInv, [Next]_jarVars, Settles, UNCHANGED <<escrowVars, pools>>,
         MilestonesPart', PrivatePart'
  PROVE  Kept
<1>1. PICK t : Takes(t, 0)
  BY DEF Settles
<1>2. UNCHANGED escrowVars /\ UNCHANGED pools /\ ReservesKept
  BY DEF Settles
<1>3. /\ wallet' \in Wallets /\ Good(books') /\ drift' \in Drifts
      /\ EscrowTypes' /\ Accounts
  BY <1>1, <1>2, EscrowsStay DEF JarInv
<1>4. LedgerPart' /\ JarAccounted'
  BY <1>3, LedgerLater
<1>5. ReserveFloor'
  BY <1>2, <1>3, FloorStays DEF JarInv
<1>6. BidsBacked'
  BY <1>2 DEF JarInv, BidsBacked, escrowVars
<1> QED
  BY <1>3, <1>4, <1>5, <1>6 DEF Kept

LEMMA JarKept ==
  ASSUME JarInv, [Next]_jarVars
  PROVE  Kept
<1> USE DEF escrowVars, lockVars, payoutVars, subVars, insuranceVars, featureVars
<1>0. /\ now \in 1 .. MaxTime /\ ConfigPart /\ LedgerPart /\ MilestonesPart /\ PrivatePart
      /\ EscrowTypes /\ BidsBacked /\ TimeLocksPart /\ StreamsPart /\ requests \in Seq(Request)
      /\ SubscriptionsInv /\ InsuranceInv /\ ReserveFloor
  BY DEF JarInv, RequestsPart
<1>1. ASSUME UNCHANGED milestones, drift' = drift PROVE MilestonesPart'
  BY <1>0, <1>1, MilestonesSame DEF RewardsSame
<1>2. ASSUME UNCHANGED private PROVE PrivatePart'
  BY <1>0, <1>2 DEF PrivatePart
<1>3. ASSUME UNCHANGED <<wallet, books, drift, milestones, private, pools, escrowVars>>
      PROVE  Kept
  <2>1. Settles
    BY <1>0, <1>3, NothingTaken DEF Settles
  <2> QED
    BY <1>1, <1>2, <1>3, <2>1, SettledKeeps
<1>4. CASE UNCHANGED jarVars
  BY <1>3, <1>4 DEF jarVars, ledgerVars, tipVars
<1>5. CASE AccessNext /\ UNCHANGED <<ledgerVars, rep, milestones, private, approved, featureVars>>
  BY <1>3, <1>5 DEF ledgerVars
<1>6. CASE Tick /\ UNCHANGED <<tipVars, featureVars>>
  BY <1>3, <1>6 DEF Tick, tipVars
<1>7. CASE TipStep /\ UNCHANGED featureVars
  <2>1. TipsFine
    BY <1>0, <1>7, TipsTake
  <2> QED
    BY <1>7, <2>1, SettledKeeps DEF TipsFine
<1>8. CASE (AdminNext \/ CreditNext) /\ UNCHANGED <<tipVars, featureVars>>
  <2>1. Settles /\ drift' = drift
    BY <1>0, <1>8, AdminTakes
  <2>2. UNCHANGED <<milestones, private, pools, escrowVars>>
    BY <1>8 DEF tipVars
  <2> QED
    BY <1>1, <1>2, <2>1, <2>2, SettledKeeps
<1>9. CASE PayoutStep /\ UNCHANGED <<tipVars, lockVars, auctions, subVars, insuranceVars>>
  <2>1. Settles /\ drift' = drift
    BY <1>0, <1>9, PayoutsTake, PayoutsKeep
  <2>2. UNCHANGED <<milestones, private, pools, escrowVars>>
    BY <1>9 DEF tipVars
  <2> QED
    BY <1>1, <1>2, <2>1, <2>2, SettledKeeps
<1>10. CASE LockStep /\ UNCHANGED <<tipVars, payoutVars, auctions, subVars, insuranceVars>>
  <2>1. streams' \in Seq(Stream)
    BY <1>0, StreamsStep DEF StreamsPart
  <2>2. UNCHANGED <<milestones, private, pools, auctions>>
    BY <1>10 DEF tipVars
  <2>3. LockFine
    BY <1>0, <1>10, <2>1, LocksTake
  <2>4. LedgerPart' /\ JarAccounted' /\ EscrowTypes'
    BY <2>3, LedgerLater DEF LockFine
  <2>5. MilestonesPart'
    BY <1>0, <2>2, <2>3, MilestonesSame DEF RewardsSame, LockFine
  <2>6. ReserveFloor'
    BY <1>0, <2>2, <2>3, FloorStays DEF LockFine
  <2>7. BidsBacked'
    BY <1>0, <2>2 DEF BidsBacked
  <2> QED
    BY <1>2, <2>2, <2>4, <2>5, <2>6, <2>7 DEF Kept
<1>11. CASE AuctionsNext /\ UNCHANGED <<payoutVars, lockVars, subVars, insuranceVars>>
  <2>1. UNCHANGED <<schedules, locks, streams, puzzles>> /\ UNCHANGED pools
    BY <1>11
  <2>2. AuctionsFine
    BY <1>0, <1>11, <2>1, AuctionsTake
  <2>3. LedgerPart' /\ JarAccounted' /\ EscrowTypes'
    BY <2>2, LedgerLater DEF AuctionsFine
  <2>4. ReserveFloor'
    BY <1>0, <2>1, <2>2, FloorStays DEF AuctionsFine
  <2> QED
    BY <2>2, <2>3, <2>4 DEF Kept, AuctionsFine
<1>12. CASE SubscriptionsNext /\ UNCHANGED <<tipVars, payoutVars, lockVars, auctions, insuranceVars>>
  <2>1. Settles /\ drift' = drift
    BY <1>0, <1>12, SubscriptionsTake, SubscriptionsKeep
  <2>2. UNCHANGED <<milestones, private, pools, escrowVars>>
    BY <1>12 DEF tipVars
  <2> QED
    BY <1>1, <1>2, <2>1, <2>2, SettledKeeps
<1>13. CASE InsuranceNext /\ UNCHANGED <<tipVars, payoutVars, lockVars, auctions, subVars>>
  <2>1. InsuranceFine /\ drift' = drift
    BY <1>0, <1>13, InsuranceTakes, InsuranceKeeps
  <2>2. UNCHANGED <<milestones, private>> /\ UNCHANGED escrowVars /\ UNCHANGED auctions
    BY <1>13 DEF tipVars
  <2>3. PICK t : Takes(t, 0)
    BY <2>1 DEF InsuranceFine
  <2>4. /\ wallet' \in Wallets /\ Good(books') /\ drift' \in Drifts
        /\ EscrowTypes' /\ Accounts
    BY <1>0, <2>2, <2>3, EscrowsStay
  <2>5. LedgerPart' /\ JarAccounted'
    BY <2>4, LedgerLater
  <2>6. BidsBacked'
    BY <1>0, <2>2 DEF BidsBacked
  <2> QED
    BY <1>1, <1>2, <2>1, <2>2, <2>4, <2>5, <2>6 DEF Kept, InsuranceFine
<1> HIDE DEF escrowVars, lockVars, payoutVars, subVars, insuranceVars, featureVars
<1>14. CASE Next
  BY <1>5, <1>6, <1>7, <1>8, <1>9, <1>10, <1>11, <1>12, <1>13, <1>14, StepGroups, Zenon
<1> QED
  BY <1>4, <1>14, Zenon

LEMMA JarStep == JarInv /\ [Next]_jarVars => JarInv'
<1> SUFFICES ASSUME JarInv, [Next]_jarVars PROVE JarInv'
  OBVIOUS
<1>1. Kept
  BY JarKept
<1>2. now' \in 1 .. MaxTime
  BY TimeStep DEF JarInv
<1>3. ConfigPart'
  BY ConfigStep DEF JarInv
<1>4. TimeLocksPart' /\ StreamsPart' /\ LimitsPart' /\ RequestsPart'
  BY TimeLocksStep, StreamsStep, LimitsStep, RequestsStep DEF JarInv
<1>5. SubscriptionsInv' /\ InsuranceInv'
  BY SubscriptionsStep, ClaimsStep DEF JarInv
<1> QED
  BY <1>1, <1>2, <1>3, <1>4, <1>5 DEF JarInv, Kept

\* Theorem: whatever calls are made, by whom and in whatever order, what the jar holds of
\* a token is what its books, its escrows and the named drift add up to: no call of a
\* feature pays out of what another feature holds, and none loses track of an amount but
\* by the paths that the drift names.
THEOREM JarStaysAccounted == JarSpec => []JarAccounted
<1>1. Init => JarInv
  BY JarStart
<1>2. JarInv /\ [Next]_jarVars => JarInv'
  BY JarStep
<1>3. JarInv => JarAccounted
  BY DEF JarInv
<1> QED
  BY <1>1, <1>2, <1>3, PTL DEF JarSpec

\* Theorem: nobody is paid beyond its rights: a stream pays what streamed, a large
\* withdrawal its signatures, a day its limit, a milestone one reward, a debt is
\* what was borrowed and charged less what was repaid, and an insurance pool keeps a tenth of what was contributed.
THEOREM PaymentsStayWithinRights == JarSpec => []PaidWithinRights
<1>1. Init => JarInv
  BY JarStart
<1>2. JarInv /\ [Next]_jarVars => JarInv'
  BY JarStep
<1>3. JarInv => PaidWithinRights
  <2> SUFFICES ASSUME JarInv PROVE PaidWithinRights
    OBVIOUS
  <2>1. StreamWithinDeposit
    BY StreamsPay DEF JarInv
  <2>2. PaidOnSignatures /\ DayCounted /\ RewardedOnce /\ ReserveFloor
    BY DEF JarInv, RequestsPart, LimitsPart, MilestonesPart
  <2>3. LoansSound
    BY LoansSoundIs DEF JarInv, LedgerPart, Good
  <2>4. DebtAccounted
    BY <2>3, LoansPay
  <2> QED
    BY <2>1, <2>2, <2>4 DEF PaidWithinRights
<1> QED
  BY <1>1, <1>2, <1>3, PTL DEF JarSpec

\* Theorem: the invariants of the features hold together in every state, the types of
\* their state included, and with them what a call relies on without looking: a standing
\* bid has a bidder, a loan its terms, a pending tier its price, a stream its deposit.
THEOREM FundsStaySound == JarSpec => []FundsInv
<1> DEFINE Inv == JarInv /\ ListsTypeOK /\ ListsAgree /\ GrantsPart /\ BreakerPart
<1>1. Init => Inv
  BY JarStart, ListsStart, GrantsStart, BreakerStart
<1>2. Inv /\ [Next]_jarVars => Inv'
  <2> SUFFICES ASSUME Inv, [Next]_jarVars PROVE Inv'
    OBVIOUS
  <2>1. /\ now \in 1 .. MaxTime /\ ConfigPart /\ SubscriptionsTypeOK
    BY DEF JarInv, SubscriptionsInv
  <2>2. JarInv'
    BY JarStep
  <2>3. ListsTypeOK' /\ ListsAgree' /\ GrantsPart'
    BY <2>1, ListsStep, GrantsStep
  <2>4. BreakerPart'
    BY <2>1, BreakerStep
  <2> QED
    BY <2>2, <2>3, <2>4
<1>3. Inv => FundsInv
  <2> SUFFICES ASSUME Inv PROVE FundsInv
    OBVIOUS
  <2>1. /\ now \in 1 .. MaxTime /\ ConfigPart /\ LedgerPart /\ MilestonesPart /\ PrivatePart
        /\ EscrowTypes /\ BidsBacked /\ TimeLocksPart /\ StreamsPart /\ LimitsPart /\ RequestsPart
        /\ SubscriptionsInv /\ InsuranceInv /\ ReserveFloor /\ JarAccounted
    BY DEF JarInv
  <2>2. LedgerTypeOK
    BY <2>1 DEF LedgerTypeOK, LedgerPart, Good, BreakerPart
  <2>3. config \in Config /\ PremiumsCapped(config)
    BY <2>1 DEF ConfigPart
  <2>4. TipsTypeOK /\ RewardedOnce
    BY <2>1 DEF TipsTypeOK, MilestonesPart, PrivatePart, EscrowTypes
  <2>5. PayoutsInv
    BY <2>1, PayoutsParts
  <2>6. LocksInv
    BY <2>1 DEF LocksInv, LocksTypeOK, EscrowTypes, TimeLocksPart, StreamsPart
  <2>7. LoansSound
    BY <2>1, LoansSoundIs DEF LedgerPart, Good
  <2> QED
    BY <2>1, <2>2, <2>3, <2>4, <2>5, <2>6, <2>7 DEF FundsInv, FundsTypeOK
<1> QED
  BY <1>1, <1>2, <1>3, PTL DEF JarSpec
=============================================================================
