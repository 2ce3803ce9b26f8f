----------------------------- MODULE LegacyTips -----------------------------
(***************************************************************************)
(* The ways to tip in the legacy tip jar, and the milestones a tip may     *)
(* complete.  Each entry point charges, checks and counts differently: what *)
(* they have in common is in LegacyLedger.                                 *)
(***************************************************************************)
EXTENDS LegacyAdmin, SequencesExt

CONSTANTS
  Goals,          \* goals of milestones
  RewardPct,      \* what a milestone pays per hundred of its goal: 5
  Congestion,     \* the fee rate of each congestion level, as compute_fee has it
  Shares,         \* shares of the first of two recipients, in Bps
  Conditions,     \* conditions of conditional tips
  Ops             \* the operations batches are made of

ASSUME TipsAssumption ==
  /\ Goals \subseteq Nat
  /\ RewardPct \in Nat
  /\ Congestion \in [DOMAIN Congestion -> 0 .. Bps]
  /\ Shares \subseteq 0 .. Bps
  /\ Ops \subseteq [creator : Party, token : Token, amount : Int]

VARIABLES
  milestones,     \* DataKey::Milestone, in the order of their identifiers
  private,        \* DataKey::PrivateTip
  approved        \* DataKey::OffchainCondition: the approved conditions

tipVars == <<lists, rep, milestones, private, approved>>

TipsInit ==
  /\ AccessInit
  /\ ReputationInit
  /\ milestones = PerParty(<<>>)
  /\ private = <<>>
  /\ approved = FALSE

-----------------------------------------------------------------------------
create_milestone(c, goal) ==
  /\ milestones' = [milestones EXCEPT ![c] = Append(@, [goal |-> goal, completed |-> FALSE])]
  /\ UNCHANGED <<ledgerVars, lists, rep, private, approved>>

Reached(c, sum) ==
  {i \in DOMAIN milestones[c] :
     ~milestones[c][i].completed /\ sum >= milestones[c][i].goal}
Reward(c, i) == (milestones[c][i].goal * RewardPct) \div 100

\* Mutant: a milestone that was rewarded is not marked as completed.
check_and_award_milestones_unmarked(b, c, t) ==
  LET hit == Reached(c, b.total[c][t])
      reward == SumFunction([i \in DOMAIN milestones[c] |-> IF i \in hit THEN Reward(c, i) ELSE 0])
  IN  /\ books' = [b EXCEPT !.balance[c][t] = @ + reward]
      /\ drift' = [drift EXCEPT !.rewards[t] = @ + reward]
      /\ UNCHANGED milestones

\* The reward is added to the balance; nothing is transferred for it.
check_and_award_milestones(b, c, t) ==
  LET hit == Reached(c, b.total[c][t])
      reward == SumFunction([i \in DOMAIN milestones[c] |-> IF i \in hit THEN Reward(c, i) ELSE 0])
  IN  /\ books' = [b EXCEPT !.balance[c][t] = @ + reward]
      /\ drift' = [drift EXCEPT !.rewards[t] = @ + reward]
      /\ milestones' = [milestones EXCEPT ![c] =
           [i \in DOMAIN @ |-> IF i \in hit THEN [@[i] EXCEPT !.completed = TRUE] ELSE @[i]]]

tip(s, c, t, x) ==
  /\ require_feature_not_paused("Tipping")
  /\ check_circuit_breaker(x)
  /\ x >= config.min_tip
  /\ check_allowed(c, s)
  /\ Whitelisted(t)
  /\ LET net == x - PlatformFee(x) - Premium(x)
     IN  /\ check_and_award_milestones(
              update_leaderboard_stats(
                CreditTo(books, c, t, net, net, PlatformFee(x), Premium(x)), s, c, net),
              c, t)
         /\ Scored(s, c, x, net)
  /\ Pay(t, s, Jar, x)
  /\ UNCHANGED <<adminVars, now, lists, private, approved>>

\* The fee of a congestion level stays in the jar and is recorded nowhere.
tip_with_fee(s, c, t, x, level) ==
  /\ require_not_paused
  /\ check_circuit_breaker(x)
  /\ Whitelisted(t)
  /\ LET fee == (x * Congestion[level]) \div Bps
         net == x - fee - Premium(x)
     IN  /\ books' = CreditTo(books, c, t, net, net, 0, Premium(x))
         /\ drift' = [drift EXCEPT !.lost[t] = @ + fee]
  /\ Pay(t, s, Jar, x)
  /\ UNCHANGED <<adminVars, now, tipVars>>

\* Total and leaderboard count the whole amount here.
tip_with_message(s, c, t, x) ==
  /\ require_not_paused
  /\ check_circuit_breaker(x)
  /\ Whitelisted(t)
  /\ LET net == x - PlatformFee(x) - Premium(x)
     IN  books' = update_leaderboard_stats(
                    CreditTo(books, c, t, net, x, PlatformFee(x), Premium(x)), s, c, x)
  /\ Pay(t, s, Jar, x)
  /\ UNCHANGED <<adminVars, now, drift, tipVars>>

\* Two recipients; the last one gets what the shares of the others leave.
tip_split(s, c, d, t, x, share) ==
  /\ require_feature_not_paused("Tipping")
  /\ check_circuit_breaker(x)
  /\ Whitelisted(t)
  /\ LET first == (x * share) \div Bps
     IN  books' = CreditTo(CreditTo(books, c, t, first, first, 0, 0),
                           d, t, x - first, x - first, 0, 0)
  /\ Pay(t, s, Jar, x)
  /\ UNCHANGED <<adminVars, now, drift, tipVars>>

-----------------------------------------------------------------------------
\* Batches of up to two operations.
Batches == {<<o>> : o \in Ops} \cup (Ops \X Ops)

\* batch_tip charges the fee and repays credit; the two later versions read the
\* fee under a key that nothing writes, so they charge none, and repay nothing.
batch_tip(s, t, ops) ==
  LET Apply(b, o) ==
        LET net == o.amount - PlatformFee(o.amount)
        IN  update_leaderboard_stats(
              CreditTo(b, o.creator, t, net, net, PlatformFee(o.amount), 0), s, o.creator, net)
      sum == InOrder(LAMBDA n, o : n + o.amount, 0, ops)
  IN  /\ require_not_paused
      /\ Whitelisted(t)
      /\ \A i \in DOMAIN ops : ops[i].amount > 0 /\ ops[i].token = t
      /\ check_circuit_breaker(sum)
      /\ books' = InOrder(Apply, books, ops)
      /\ Pay(t, s, Jar, sum)
      /\ UNCHANGED <<adminVars, now, drift, tipVars>>

Plain(s, o, b) ==
  update_leaderboard_stats(
    [b EXCEPT !.balance[o.creator][o.token] = @ + o.amount,
              !.total[o.creator][o.token] = @ + o.amount], s, o.creator, o.amount)
PaidIn(s, ops, Valid(_)) ==
  /\ wallet' = InOrder(LAMBDA w, o : IF Valid(o) THEN Transfer(w, o.token, s, Jar, o.amount) ELSE w,
                       wallet, ops)
  /\ \A t \in Token : wallet'[t][s] >= 0

batch_tip_v2(s, ops) ==
  /\ require_not_paused
  /\ \A i \in DOMAIN ops : ops[i].amount > 0 /\ Whitelisted(ops[i].token)
  /\ books' = InOrder(LAMBDA b, o : Plain(s, o, b), books, ops)
  /\ PaidIn(s, ops, LAMBDA o : TRUE)
  /\ UNCHANGED <<adminVars, breaker, now, drift, tipVars>>

\* Operations that are not valid are skipped; one that cannot be paid fails all.
batch_tip_multi(s, ops) ==
  LET Valid(o) == o.amount > 0 /\ Whitelisted(o.token)
  IN  /\ require_not_paused
      /\ books' = InOrder(LAMBDA b, o : IF Valid(o) THEN Plain(s, o, b) ELSE b, books, ops)
      /\ PaidIn(s, ops, Valid)
      /\ UNCHANGED <<adminVars, breaker, now, drift, tipVars>>

-----------------------------------------------------------------------------
set_offchain_condition(ok) ==
  /\ approved' = ok
  /\ UNCHANGED <<ledgerVars, lists, rep, milestones, private>>

evaluate_one(c) ==
  CASE c.kind = "Always" -> TRUE
    [] c.kind = "TimeAfter" -> now >= c.time
    [] c.kind = "TimeBefore" -> now <= c.time
    [] c.kind = "TokenBalanceAtLeast" -> wallet[c.token][c.account] >= c.min
    [] c.kind = "OffchainApproved" -> approved
evaluate_all(cs) == \A c \in cs : evaluate_one(c)

\* The sender pays the creator; the share that repays credit is paid by nobody.
\* A condition that does not hold only counts the volume.
execute_conditional_tip(s, c, t, x, cs) ==
  /\ require_not_paused
  /\ check_circuit_breaker(x)
  /\ LET repaid == Repayment(books.credit, c, t, x)
     IN  IF evaluate_all(cs)
         THEN /\ Pay(t, s, c, x - repaid)
              /\ books' = [books EXCEPT !.fees[t] = @ + repaid,
                                        !.credit = AfterRepayment(@, c, t, x)]
              /\ drift' = [drift EXCEPT !.repaid[t] = @ + repaid]
         ELSE UNCHANGED <<wallet, books, drift>>
  /\ UNCHANGED <<adminVars, now, tipVars>>

\* A private tip commits to an amount: no signature and no transfer.
tip_private(c, t, x) ==
  /\ require_not_paused
  /\ Whitelisted(t)
  /\ private' = Append(private, [creator |-> c, amount |-> x, revealed |-> FALSE])
  /\ UNCHANGED <<ledgerVars, lists, rep, milestones, approved>>

\* Anyone may reveal, more than once, in any token, and pays the amount.
reveal_tip(s, t, i, x) ==
  /\ require_not_paused
  /\ private[i].amount = x
  /\ Whitelisted(t)
  /\ LET c == private[i].creator
         net == x - PlatformFee(x)
     IN  books' = [books EXCEPT !.balance[c][t] = @ + net, !.total[c][t] = @ + net,
                                !.fees[t] = @ + PlatformFee(x)]
  /\ Pay(t, s, Jar, x)
  /\ private' = [private EXCEPT ![i].revealed = TRUE]
  /\ UNCHANGED <<adminVars, breaker, now, drift, lists, rep, milestones, approved>>

OneTipNext(s, c, t, x) ==
  \/ tip(s, c, t, x)
  \/ \E level \in DOMAIN Congestion : tip_with_fee(s, c, t, x, level)
  \/ tip_with_message(s, c, t, x)
  \/ \E d \in Party, share \in Shares : tip_split(s, c, d, t, x, share)
  \/ \E cs \in SUBSET Conditions : execute_conditional_tip(s, c, t, x, cs)
  \/ tip_private(c, t, x)
  \/ \E i \in DOMAIN private : reveal_tip(s, t, i, x)
BatchNext(s, t, ops) == batch_tip(s, t, ops) \/ batch_tip_v2(s, ops) \/ batch_tip_multi(s, ops)

TipsNext ==
  \E s \in Party, c \in Party, t \in Token :
    \/ \E goal \in Goals : create_milestone(c, goal)
    \/ \E ok \in BOOLEAN : set_offchain_condition(ok)
    \/ \E x \in Amounts : OneTipNext(s, c, t, x)
    \/ \E ops \in Batches : BatchNext(s, t, ops)

Earned(c) ==
  SumFunction([i \in DOMAIN milestones[c] |->
    IF milestones[c][i].completed THEN Reward(c, i) ELSE 0])
\* Each milestone pays its creator once: what the jar promised without a
\* transfer is the rewards of the milestones marked completed and no more.
RewardedOnce ==
  SumFunction(drift.rewards) = SumFunction([c \in Party |-> Earned(c)])

-----------------------------------------------------------------------------
\* Auctions of the legacy tip jar: the highest bid of each is held in the
\* jar, outside the creators' balances, until the creator settles.

CONSTANTS
  AuctionTimes,   \* durations of auctions
  Reserves        \* reserve prices

ASSUME AuctionsAssumption ==
  AuctionTimes \subseteq Int /\ Reserves \subseteq Int /\ None \notin Party

VARIABLES
  auctions        \* DataKey::Auction(Record), in the order of their identifiers

AuctionsInit == auctions = <<>>

create_auction(c, t, reserve, duration) ==
  /\ require_not_paused
  /\ Whitelisted(t)
  /\ auctions' = Append(auctions, [creator |-> c, token |-> t, reserve |-> reserve,
                                   highest |-> 0, bidder |-> None,
                                   ends_at |-> now + duration, settled |-> FALSE])
  /\ UNCHANGED <<ledgerVars, tipVars>>

\* The bid comes in before the one it beats goes back.
Outbid(a, p, x) ==
  LET in == Transfer(wallet, a.token, p, Jar, x)
  IN  /\ wallet[a.token][p] >= x
      /\ wallet' = IF a.bidder = None THEN in
                   ELSE Transfer(in, a.token, Jar, a.bidder, a.highest)

\* Mutant: the bid that is beaten is not paid back.
place_bid_kept(p, i, x) ==
  /\ require_not_paused
  /\ check_circuit_breaker(x)
  /\ ~auctions[i].settled
  /\ now < auctions[i].ends_at
  /\ x > auctions[i].highest
  /\ auctions[i].highest = 0 => x >= auctions[i].reserve
  /\ auctions' = [auctions EXCEPT ![i].highest = x, ![i].bidder = p]
  /\ Pay(auctions[i].token, p, Jar, x)
  /\ UNCHANGED <<books, adminVars, now, drift, tipVars>>

place_bid(p, i, x) ==
  /\ require_not_paused
  /\ check_circuit_breaker(x)
  /\ ~auctions[i].settled
  /\ now < auctions[i].ends_at
  /\ x > auctions[i].highest
  /\ auctions[i].highest = 0 => x >= auctions[i].reserve
  /\ auctions' = [auctions EXCEPT ![i].highest = x, ![i].bidder = p]
  /\ Outbid(auctions[i], p, x)
  /\ UNCHANGED <<books, adminVars, now, drift, tipVars>>

\* The creator's call; no bid, no sale.  A bid below the reserve cannot be there.
settle_auction(c, i) ==
  LET a == auctions[i]
      net == a.highest - PlatformFee(a.highest) - Premium(a.highest)
  IN  /\ require_not_paused
      /\ a.creator = c
      /\ ~a.settled
      /\ now >= a.ends_at
      /\ auctions' = [auctions EXCEPT ![i].settled = TRUE]
      /\ IF net = 0
         THEN UNCHANGED <<books, drift, milestones>>
         ELSE check_and_award_milestones(
                update_leaderboard_stats(
                  CreditTo(books, c, a.token, net, net, PlatformFee(a.highest), Premium(a.highest)),
                  a.bidder, c, net),
                c, a.token)
      /\ UNCHANGED <<wallet, adminVars, breaker, now, lists, rep, private, approved>>

AuctionsNext ==
  \/ \E c \in Party, t \in Token, r \in Reserves, n \in AuctionTimes : create_auction(c, t, r, n)
  \/ \E p \in Party, i \in DOMAIN auctions :
       (\E x \in Amounts : place_bid(p, i, x)) \/ settle_auction(p, i)

\* What the jar holds for auctions in a token.
AuctionHeld(a, t) == IF a.token = t /\ ~a.settled THEN a.highest ELSE 0
AuctionEscrow(t) == SumFunction([i \in DOMAIN auctions |-> AuctionHeld(auctions[i], t)])
\* The inductive invariant behind RewardedOnce and the auctions' part of the jar.
Milestone == [goal : Nat, completed : BOOLEAN]
PrivateTip == [creator : Party, amount : Nat, revealed : BOOLEAN]
Auction == [creator : Party, token : Token, reserve : Int, highest : Nat,
            bidder : {None} \cup Party, ends_at : Int, settled : BOOLEAN]
TipsTypeOK ==
  /\ milestones \in [Party -> Seq(Milestone)]
  /\ private \in Seq(PrivateTip)
  /\ auctions \in Seq(Auction)
BidsBacked == \A i \in DOMAIN auctions : auctions[i].bidder = None => auctions[i].highest = 0
=============================================================================
