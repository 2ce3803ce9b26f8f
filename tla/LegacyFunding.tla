---------------------------- MODULE LegacyFunding ---------------------------
(***************************************************************************)
(* Funding rounds of the legacy tip jar.  A quadratic round matches        *)
(* projects by the square of the sum of the roots of their contributions,  *)
(* and returns the contributions.  A retroactive round rewards creators by *)
(* the tips and the votes they have when they claim.                       *)
(***************************************************************************)
EXTENDS LegacyLedger, SequencesExt

CONSTANTS
  RoundTimes,     \* durations of quadratic rounds, <<start, end>> of retroactive ones
  RetroTimes,
  Criteria,       \* [tips, count, votes]: weights in Bps
  VoteScale,      \* what a vote counts for in a score: 1_000_000
  RootUnit        \* PRECISION of quadratic_funding

Weights == [tips : Nat, count : Nat, votes : Nat]   \* EvalCriteria
Vote == [creator : Party, weight : Nat]

ASSUME FundingAssumption ==
  /\ RoundTimes \subseteq Nat /\ RetroTimes \subseteq Int \X Int
  /\ \A c \in Criteria : c \in Weights
  /\ VoteScale \in Nat /\ RootUnit \in Nat \ {0}
  /\ None \notin Vote

VARIABLES
  rounds,         \* QFKey::Round, with its projects, root sums and contributions
  retros          \* RetroKey::Round, with its creators, votes and claims

fundingVars == <<rounds, retros>>

FundingInit ==
  /\ rounds = <<>>
  /\ retros = <<>>

isqrt_scaled(x) == isqrt(x * RootUnit * RootUnit)

-----------------------------------------------------------------------------
\* given[q][p] is what p contributed to project q.
qf_create_round(p, t, x, n) ==
  /\ require_not_paused
  /\ Whitelisted(t)
  /\ n > 0
  /\ Pay(t, p, Jar, x)
  /\ rounds' = Append(rounds, [admin |-> p, token |-> t, pool |-> x, end |-> now + n,
                               status |-> "Active", projects |-> <<>>, roots |-> PerParty(0),
                               given |-> PerParty(PerParty(None)), held |-> x])
  /\ UNCHANGED retros

qf_contribute(p, i, q, x) ==
  LET r == rounds[i]
  IN  /\ require_not_paused
      /\ r.status = "Active"
      /\ now <= r.end
      /\ r.given[q][p] = None
      /\ Pay(r.token, p, Jar, x)
      /\ rounds' = [rounds EXCEPT ![i] =
           [r EXCEPT !.projects = IF q \in ToSet(@) THEN @ ELSE Append(@, q),
                     !.roots[q] = @ + isqrt_scaled(x), !.given[q][p] = x, !.held = @ + x]]
      /\ UNCHANGED retros

qf_finalize_round(p, i) ==
  /\ require_not_paused
  /\ rounds[i].admin = p
  /\ rounds[i].status = "Active"
  /\ now >= rounds[i].end
  /\ rounds' = [rounds EXCEPT ![i].status = "Finalized"]
  /\ UNCHANGED <<wallet, retros>>

Weight(r, q) == (r.roots[q] \div RootUnit) * (r.roots[q] \div RootUnit)
TotalWeight(r) == SumFunction([q \in ToSet(r.projects) |-> Weight(r, q)])

\* The last project has what is left of the pool.
Match(r, n) ==
  LET Share(k) == IF TotalWeight(r) = 0 THEN 0
                  ELSE (r.pool * Weight(r, r.projects[k])) \div TotalWeight(r)
  IN  IF n < Len(r.projects) THEN Share(n)
      ELSE r.pool - SumFunction([k \in 1 .. n - 1 |-> Share(k)])

\* What an account has back of a round: its matches and its contributions.
MatchedTo(r, a) ==
  SumFunction([n \in DOMAIN r.projects |-> IF r.projects[n] = a THEN Match(r, n) ELSE 0])
Gift(r, q, a) == IF r.given[q][a] = None THEN 0 ELSE r.given[q][a]
Returned(r, a) ==
  MatchedTo(r, a) + SumFunction([q \in ToSet(r.projects) |-> Gift(r, q, a)])

qf_distribute_matching(p, i) ==
  LET r == rounds[i]
      sum == SumFunction([a \in Party |-> Returned(r, a)])
  IN  /\ require_not_paused
      /\ r.admin = p
      /\ r.status = "Finalized"
      /\ wallet[r.token][Jar] >= sum
      /\ wallet' = [wallet EXCEPT ![r.token] =
           [a \in DOMAIN @ |-> IF a = Jar THEN @[a] - sum ELSE @[a] + Returned(r, a)]]
      /\ rounds' = [rounds EXCEPT ![i] = [r EXCEPT !.status = "Distributed", !.held = @ - sum]]
      /\ UNCHANGED retros

-----------------------------------------------------------------------------
\* votes[v] is the creator and the weight that v voted with.
retro_create_round(p, t, x, span, c) ==
  /\ require_not_paused
  /\ span[2] > span[1]
  /\ c.tips + c.count + c.votes = Bps
  /\ Pay(t, p, Jar, x)
  /\ retros' = Append(retros, [admin |-> p, token |-> t, pool |-> x, start |-> span[1],
                               end |-> span[2], status |-> "Active", criteria |-> c, total |-> 0,
                               creators |-> {}, got |-> PerParty(0), votes |-> PerParty(None),
                               claimed |-> {}, paid |-> 0])
  /\ UNCHANGED rounds

retro_nominate_creator(p, i, c) ==
  /\ require_not_paused
  /\ retros[i].admin = p
  /\ retros[i].status = "Active"
  /\ now <= retros[i].end
  /\ retros' = [retros EXCEPT ![i].creators = @ \cup {c}]
  /\ UNCHANGED <<wallet, rounds>>

\* A voter's weight is the root of the tips it received.
retro_cast_vote(v, i, c) ==
  LET r == retros[i]
      w == Larger(isqrt(books.total[v][r.token]), 1)
  IN  /\ require_not_paused
      /\ r.status = "Active"
      /\ r.start <= now /\ now <= r.end
      /\ c \in r.creators
      /\ r.votes[v] = None
      /\ retros' = [retros EXCEPT ![i] = [r EXCEPT !.votes[v] = [creator |-> c, weight |-> w],
                                                   !.got[c] = @ + w, !.total = @ + w]]
      /\ UNCHANGED <<wallet, rounds>>

retro_finalize_round(p, i) ==
  /\ require_not_paused
  /\ retros[i].admin = p
  /\ retros[i].status = "Active"
  /\ now > retros[i].end
  /\ retros' = [retros EXCEPT ![i].status = "Finalized"]
  /\ UNCHANGED <<wallet, rounds>>

\* The count of tips that also enters is never written, and so is 0.
compute_impact_score(r, c) ==
  (books.total[c][r.token] * r.criteria.tips + r.got[c] * VoteScale * r.criteria.votes) \div Bps

retro_claim_reward(c, i) ==
  LET r == retros[i]
      all == SumFunction([d \in r.creators |-> compute_impact_score(r, d)])
      x == (r.pool * compute_impact_score(r, c)) \div all
  IN  /\ require_not_paused
      /\ r.status = "Finalized"
      /\ c \in r.creators \ r.claimed
      /\ all > 0
      /\ x > 0
      /\ Pay(r.token, Jar, c, x)
      /\ retros' = [retros EXCEPT ![i] = [r EXCEPT !.claimed = @ \cup {c}, !.paid = @ + x]]
      /\ UNCHANGED rounds

QuadraticNext ==
  \E p \in Party :
    \/ \E t \in Token, x \in Amounts, n \in RoundTimes : qf_create_round(p, t, x, n)
    \/ \E i \in DOMAIN rounds :
         \/ \E q \in Party, x \in Amounts : qf_contribute(p, i, q, x)
         \/ qf_finalize_round(p, i) \/ qf_distribute_matching(p, i)
RetroNext ==
  \E p \in Party :
    \/ \E t \in Token, x \in Amounts, s \in RetroTimes, c \in Criteria : retro_create_round(p, t, x, s, c)
    \/ \E i \in DOMAIN retros :
         \/ \E c \in Party : retro_nominate_creator(p, i, c) \/ retro_cast_vote(p, i, c)
         \/ retro_finalize_round(p, i) \/ retro_claim_reward(p, i)

\* What the jar holds of a token for the rounds.
RoundHolds(r, t) == IF r.token = t THEN r.held ELSE 0
RetroHolds(r, t) == IF r.token = t THEN r.pool - r.paid ELSE 0
RoundEscrow(t) ==
  SumFunction([i \in DOMAIN rounds |-> RoundHolds(rounds[i], t)])
    + SumFunction([i \in DOMAIN retros |-> RetroHolds(retros[i], t)])

\* A quadratic round that was distributed to somebody is paid out to the last unit,
\* and one that was not still has its pool and every contribution.
Gifts(r) == SumFunction([a \in Party |-> SumFunction([q \in Party |-> Gift(r, q, a)])])
RoundsPaidOut ==
  \A i \in DOMAIN rounds :
    LET r == rounds[i]
    IN  IF r.status = "Distributed"
        THEN r.held = IF r.projects = <<>> THEN r.pool ELSE 0
        ELSE r.held = r.pool + Gifts(r)

\* Every vote for a creator was cast by one voter, once.
CastFor(r, c) ==
  SumFunction([v \in Party |-> IF r.votes[v] # None /\ r.votes[v].creator = c
                               THEN r.votes[v].weight ELSE 0])
VotesCast ==
  \A i \in DOMAIN retros :
    /\ \A c \in Party : retros[i].got[c] = CastFor(retros[i], c)
    /\ retros[i].total = SumFunction([c \in Party |-> CastFor(retros[i], c)])

-----------------------------------------------------------------------------
\* Index funds of the legacy tip jar: deposits buy shares at the net asset
\* value, and are allotted on paper to the creators of the fund's basket.

CONSTANTS
  Baskets,        \* weights in Bps, by creator
  MinDeposit,     \* MIN_DEPOSIT
  SharePrice      \* INITIAL_SHARE_PRICE

ASSUME FundAssumption ==
  /\ \A k \in Baskets : DOMAIN k \subseteq Party /\ \A c \in DOMAIN k : k[c] \in Nat
  /\ SharePrice \in Nat \ {0} /\ MinDeposit \in Nat

VARIABLES
  funds           \* DataKey::Fund, with FundShare and CreatorAlloc

IndexFundInit == funds = <<>>

Basketed(k) ==
  /\ Cardinality(DOMAIN k) >= 2
  /\ SumFunction(k) = Bps

create_index_fund(p, t, k) ==
  /\ require_not_paused
  /\ Basketed(k)
  /\ funds' = Append(funds, [manager |-> p, token |-> t, basket |-> k, shares |-> 0, value |-> 0,
                             held |-> PerParty(0), alloc |-> PerParty(0)])
  /\ UNCHANGED wallet

\* What was allotted to creators who leave the basket stays allotted.
update_index_composition(p, i, k) ==
  /\ require_not_paused
  /\ Basketed(k)
  /\ funds[i].manager = p
  /\ funds' = [funds EXCEPT ![i].basket = k]
  /\ UNCHANGED wallet

Allotted(f, x) ==
  [c \in Party |-> IF c \in DOMAIN f.basket THEN (x * f.basket[c]) \div Bps ELSE 0]

rebalance_index_fund(p, i) ==
  LET f == funds[i]
  IN  /\ require_not_paused
      /\ f.manager = p
      /\ funds' = [funds EXCEPT ![i].alloc =
           [c \in Party |-> IF c \in DOMAIN f.basket THEN Allotted(f, f.value)[c] ELSE @[c]]]
      /\ UNCHANGED wallet

nav_per_share(f) == IF f.shares = 0 THEN SharePrice ELSE (f.value * SharePrice) \div f.shares

deposit_index_fund(p, i, x) ==
  LET f == funds[i]
      n == (x * SharePrice) \div nav_per_share(f)
  IN  /\ require_not_paused
      /\ x >= MinDeposit
      /\ nav_per_share(f) > 0
      /\ Pay(f.token, p, Jar, x)
      /\ funds' = [funds EXCEPT ![i] =
           [f EXCEPT !.alloc = [c \in Party |-> @[c] + Allotted(f, x)[c]],
                     !.value = @ + x, !.shares = @ + n, !.held[p] = @ + n]]

withdraw_index_fund(p, i, n) ==
  LET f == funds[i]
      x == (n * nav_per_share(f)) \div SharePrice
  IN  /\ require_not_paused
      /\ f.held[p] >= n
      /\ x <= f.value
      /\ Pay(f.token, Jar, p, x)
      /\ funds' = [funds EXCEPT ![i] =
           [f EXCEPT !.alloc = [c \in Party |-> Larger(@[c] - Allotted(f, x)[c], 0)],
                     !.value = @ - x, !.shares = @ - n, !.held[p] = @ - n]]

IndexFundNext ==
  \E p \in Party :
    \/ \E t \in Token, k \in Baskets : create_index_fund(p, t, k)
    \/ \E i \in DOMAIN funds :
         \/ \E k \in Baskets : update_index_composition(p, i, k)
         \/ rebalance_index_fund(p, i)
         \/ \E x \in Amounts : deposit_index_fund(p, i, x) \/ withdraw_index_fund(p, i, x)

\* What the jar holds of a token for the funds.
FundHolds(f, t) == IF f.token = t THEN f.value ELSE 0
FundHoldings(t) == SumFunction([i \in DOMAIN funds |-> FundHolds(funds[i], t)])

\* Whatever was deposited and redeemed before, and however the prices were rounded,
\* a fund can redeem all its holders at its price, and has no other shares.
Redeemable(f) ==
  SumFunction([p \in Party |-> (f.held[p] * nav_per_share(f)) \div SharePrice])
FundsRedeemable ==
  \A i \in DOMAIN funds : /\ funds[i].shares = SumFunction(funds[i].held)
                           /\ Redeemable(funds[i]) <= funds[i].value

-----------------------------------------------------------------------------
(***************************************************************************)
(* Liquidity mining in the legacy tip jar: stakes earn rewards at a rate,  *)
(* a boost multiplies them, and they vest from the first stake on.  The    *)
(* lock that buys a boost is recorded and never enforced.                  *)
(***************************************************************************)
CONSTANTS
  Programs,       \* [rate, cliff, duration, end] of programs; end 0 is none
  MaxVesting,     \* MAX_VESTING_DURATION
  Year,           \* SECONDS_PER_YEAR
  MinBoost, MaxBoost,
  BoostUnit,      \* PRECISION of liquidity_mining
  BoostLocks      \* lock durations that boosts are bought with

\* The parameters of a program, and LmPosition; earned is history: all rewards so far.
ProgramTerms == [rate : Nat, cliff : Nat, duration : Nat, end : Nat]
Position ==
  [staked : Nat, entry : Int, updated : Int, claimed : Nat, earned : Nat, boost : Nat, locked : Int]

ASSUME MiningAssumption ==
  /\ \A k \in Programs : k \in ProgramTerms
  /\ Year \in Nat \ {0} /\ BoostUnit \in Nat \ {0}
  /\ MinBoost \in Nat /\ MaxBoost \in Nat /\ MinBoost <= MaxBoost
  /\ BoostLocks \subseteq Nat
  /\ None \notin Position

VARIABLES
  programs,       \* DataKey::LmProgram
  positions       \* DataKey::LmPosition; claimed is claimable_rewards

miningVars == <<programs, positions>>

MiningInit ==
  /\ programs = <<>>
  /\ positions = <<>>

lm_create_program(p, lp, reward, x, k) ==
  /\ require_not_paused
  /\ k.rate > 0
  /\ k.cliff <= k.duration /\ k.duration <= MaxVesting
  /\ k.end > 0 => k.end > now
  /\ Pay(reward, p, Jar, x)
  /\ programs' = Append(programs, [terms |-> k, lp |-> lp, reward |-> reward, rewards |-> x,
                                   paid |-> 0, staked |-> 0, active |-> TRUE])
  /\ positions' = Append(positions, PerParty(None))

compute_rewards(x, rate, elapsed) == (x * rate * elapsed) \div (Bps * Year)

\* Up to the program's end, and only forwards.
accrue(g, s) ==
  LET until == IF g.terms.end > 0 /\ now > g.terms.end THEN g.terms.end ELSE now
      earned == (compute_rewards(s.staked, g.terms.rate, until - s.updated) * s.boost) \div BoostUnit
  IN  IF until <= s.updated THEN s ELSE [s EXCEPT !.earned = @ + earned, !.updated = until]

\* How much of what was earned is vested by now, claimed or not.
Vested(g, s) ==
  LET passed == now - s.entry - g.terms.cliff
      span == g.terms.duration - g.terms.cliff
      part == IF passed >= span THEN BoostUnit ELSE (passed * BoostUnit) \div span
  IN  IF passed < 0 THEN 0 ELSE (s.earned * part) \div BoostUnit
compute_vested(g, s) == Larger(Vested(g, s) - s.claimed, 0)

lm_stake(p, i, x) ==
  LET g == programs[i]
      new == [staked |-> 0, entry |-> now, updated |-> now, claimed |-> 0, earned |-> 0,
              boost |-> MinBoost, locked |-> 0]
      s == accrue(g, IF positions[i][p] = None THEN new ELSE positions[i][p])
  IN  /\ require_not_paused
      /\ g.active
      /\ g.terms.end > 0 => now < g.terms.end
      /\ Pay(g.lp, p, Jar, x)
      /\ positions' = [positions EXCEPT ![i][p] = [s EXCEPT !.staked = @ + x]]
      /\ programs' = [programs EXCEPT ![i].staked = @ + x]

lm_unstake(p, i, x) ==
  LET s == accrue(programs[i], positions[i][p])
  IN  /\ require_not_paused
      /\ positions[i][p] # None
      /\ x <= positions[i][p].staked
      /\ positions' = [positions EXCEPT ![i][p] = [s EXCEPT !.staked = @ - x]]
      /\ programs' = [programs EXCEPT ![i].staked = @ - x]
      /\ Pay(programs[i].lp, Jar, p, x)

lm_claim_rewards(p, i) ==
  LET g == programs[i]
      s == accrue(g, positions[i][p])
      x == Smaller(compute_vested(g, s), g.rewards - g.paid)
  IN  /\ require_not_paused
      /\ positions[i][p] # None
      /\ x > 0
      /\ positions' = [positions EXCEPT ![i][p] = [s EXCEPT !.claimed = @ + x]]
      /\ programs' = [programs EXCEPT ![i].paid = @ + x]
      /\ Pay(g.reward, Jar, p, x)

lm_apply_boost(p, i, n) ==
  LET s == accrue(programs[i], positions[i][p])
      boost == Smaller(MinBoost + ((MaxBoost - MinBoost) * Smaller(n, Year)) \div Year, MaxBoost)
  IN  /\ require_not_paused
      /\ positions[i][p] # None
      /\ boost > positions[i][p].boost
      /\ positions' = [positions EXCEPT ![i][p] = [s EXCEPT !.boost = boost, !.locked = now + n]]
      /\ UNCHANGED <<wallet, programs>>

\* Whoever calls.
lm_deactivate_program(i) ==
  /\ require_not_paused
  /\ programs[i].active
  /\ programs' = [programs EXCEPT ![i].active = FALSE]
  /\ UNCHANGED <<wallet, positions>>

MiningNext ==
  \/ \E p \in Party, a, b \in Token, x \in Amounts, k \in Programs : lm_create_program(p, a, b, x, k)
  \/ \E p \in Party, i \in DOMAIN programs :
       \/ \E x \in Amounts : lm_stake(p, i, x) \/ lm_unstake(p, i, x)
       \/ lm_claim_rewards(p, i)
       \/ \E n \in BoostLocks : lm_apply_boost(p, i, n)
       \/ lm_deactivate_program(i)

\* What the jar holds of a token for the programs: stakes and undistributed rewards.
ProgramHolds(g, t) ==
  (IF g.lp = t THEN g.staked ELSE 0) + (IF g.reward = t THEN g.rewards - g.paid ELSE 0)
MiningHoldings(t) == SumFunction([i \in DOMAIN programs |-> ProgramHolds(programs[i], t)])

\* Through stakes, boosts and claims in any order, nobody has claimed more than had
\* vested, the programs' stakes are the positions', and no program overspends.
StakeOf(s) == IF s = None THEN 0 ELSE s.staked
ClaimOf(s) == IF s = None THEN 0 ELSE s.claimed
RewardsVested ==
  \A i \in DOMAIN programs :
    LET g == programs[i]
        s == positions[i]
    IN  /\ \A p \in Party : s[p] # None => s[p].claimed <= Vested(g, accrue(g, s[p]))
        /\ g.staked = SumFunction([p \in Party |-> StakeOf(s[p])])
        /\ g.paid = SumFunction([p \in Party |-> ClaimOf(s[p])])
        /\ g.paid <= g.rewards

-----------------------------------------------------------------------------
\* What the variables range over, and the facts that every call keeps.
QFRound ==
  [admin : Party, token : Token, pool : Nat, end : Int,
   status : {"Active", "Finalized", "Distributed"}, projects : Seq(Party),
   roots : [Party -> Nat], given : [Party -> [Party -> Nat \cup {None}]], held : Int]
RetroRound ==
  [admin : Party, token : Token, pool : Nat, start : Int, end : Int,
   status : {"Active", "Finalized"}, criteria : Weights, total : Nat,
   creators : SUBSET Party, got : [Party -> Nat], votes : [Party -> Vote \cup {None}],
   claimed : SUBSET Party, paid : Int]
IndexFund ==
  [manager : Party, token : Token, basket : Baskets, shares : Nat, value : Nat,
   held : [Party -> Nat], alloc : [Party -> Int]]
Program ==
  [terms : ProgramTerms, lp : Token, reward : Token, rewards : Nat, paid : Nat, staked : Nat,
   active : BOOLEAN]

\* A gift is one to a listed project.
Listed(r) == \A q, a \in Party : r.given[q][a] # None => q \in ToSet(r.projects)
RoundsInv ==
  /\ rounds \in Seq(QFRound) /\ \A i \in DOMAIN rounds : Listed(rounds[i])
  /\ RoundsPaidOut
RetrosInv == retros \in Seq(RetroRound) /\ VotesCast
FundsInv ==
  /\ funds \in Seq(IndexFund)
  /\ \A i \in DOMAIN funds : funds[i].shares = SumFunction(funds[i].held)

\* What was claimed had vested already when the position was last written: vesting
\* only grows with time and with what is earned.
ProgramSound(g, s) ==
  /\ \A p \in Party : s[p] # None => s[p].claimed <= Vested(g, s[p])
  /\ g.staked = SumFunction([p \in Party |-> StakeOf(s[p])])
  /\ g.paid = SumFunction([p \in Party |-> ClaimOf(s[p])])
  /\ g.paid <= g.rewards
  /\ g.terms.cliff <= g.terms.duration
MiningInv ==
  /\ programs \in Seq(Program) /\ positions \in Seq([Party -> Position \cup {None}])
  /\ Len(programs) = Len(positions)
  /\ \A i \in DOMAIN programs : ProgramSound(programs[i], positions[i])
=============================================================================
