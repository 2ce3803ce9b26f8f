---------------------------- MODULE LegacyFunds -----------------------------
(***************************************************************************)
(* The legacy tip jar's features on the one set of books they share.  A    *)
(* behaviour exercises one group of features, chosen at the start, and the *)
(* calls that bring funds in: the others keep their state, so that what is *)
(* explored is the sum of the groups and not their product.                *)
(***************************************************************************)
EXTENDS LegacyAdmin, LegacyPayouts, LegacyLocks, LegacyTips,
        LegacySubscriptions, LegacyInsurance

CONSTANTS
  MaxCalls    \* bound: for each group of features, the calls of a behaviour

\* Fee and premium together stay below the whole of a tip.
PremiumsCapped(k) ==
  k.insurance # None =>
    k.insurance.premium_bps <= MaxPremiumBps /\ k.insurance.tip_premium_bps <= MaxTipPremium

ASSUME FundsAssumption ==
  /\ MaxFeeBps + MaxTipPremium < Bps
  /\ \A l \in DOMAIN Congestion : Congestion[l] + MaxTipPremium <= Bps
  /\ \A k \in Configs : PremiumsCapped(k)

VARIABLES
  focus,      \* the group of features this behaviour exercises
  calls       \* the calls it made so far

jarVars == <<ledgerVars, tipVars, payoutVars, lockVars, auctions, subVars, insuranceVars>>
vars == <<focus, calls, jarVars>>

Init ==
  /\ focus \in DOMAIN MaxCalls
  /\ calls = 0
  /\ LedgerInit
  /\ TipsInit
  /\ PayoutsInit
  /\ LocksInit
  /\ AuctionsInit
  /\ SubscriptionsInit
  /\ InsuranceInit

\* A plain tip, as a batch of one: what the groups without tips of their own have.
Fund ==
  \E s \in Party, c \in Party, t \in Token, x \in Amounts :
    batch_tip_v2(s, <<[creator |-> c, token |-> t, amount |-> x]>>)
Borrowing ==
  (CreditNext \/ Tick \/ \E k \in Terms : set_credit_config(k)) /\ UNCHANGED tipVars

Access ==
  /\ focus = "access"
  /\ \/ AccessNext /\ UNCHANGED <<rep, milestones, private, approved>>
     \/ Tick /\ UNCHANGED tipVars
     \/ \E s \in Party, x \in Amounts, t \in Token : \E c \in Keepers : tip(s, c, t, x)
Tips ==
  /\ focus = "tips"
  /\ TipsNext \/ Borrowing
Administration ==
  /\ focus = "admin"
  /\ \/ (AdminNext \/ Tick) /\ UNCHANGED tipVars
     \/ \E s \in Party, c \in Party, t \in Token, x \in Amounts : tip(s, c, t, x)
Funding ==
  /\ focus \in {"limits", "delegation", "multisig", "insurance"}
  /\ Fund \/ (Tick /\ UNCHANGED tipVars)
Ageing ==
  /\ focus \in {"timelocks", "streams", "puzzles", "subscriptions"}
  /\ Tick /\ UNCHANGED tipVars
Crediting ==
  /\ focus \in {"vesting", "auctions"}
  /\ Fund \/ Borrowing
Payouts ==
  \/ focus = "limits" /\ LimitsNext
  \/ focus = "delegation" /\ DelegationNext
  \/ focus = "multisig" /\ MultisigNext
Locks ==
  \/ focus = "vesting" /\ VestingNext
  \/ focus = "timelocks" /\ TimeLockNext
  \/ focus = "streams" /\ StreamNext
  \/ focus = "puzzles" /\ PuzzleNext
Auctioning ==
  /\ focus = "auctions"
  /\ AuctionsNext \/ (\E c \in Party, g \in Goals : create_milestone(c, g) /\ UNCHANGED auctions)

Next ==
  /\ calls < MaxCalls[focus]
  /\ calls' = calls + 1
  /\ UNCHANGED focus
  /\ \/ /\ Access \/ Tips \/ Administration \/ Funding \/ Ageing \/ Crediting
        /\ UNCHANGED <<payoutVars, lockVars, auctions, subVars, insuranceVars>>
     \/ Payouts /\ UNCHANGED <<tipVars, lockVars, auctions, subVars, insuranceVars>>
     \/ Locks /\ UNCHANGED <<tipVars, payoutVars, auctions, subVars, insuranceVars>>
     \/ Auctioning /\ UNCHANGED <<payoutVars, lockVars, subVars, insuranceVars>>
     \/ /\ focus = "subscriptions" /\ SubscriptionsNext
        /\ UNCHANGED <<tipVars, payoutVars, lockVars, auctions, insuranceVars>>
     \/ /\ focus = "insurance" /\ InsuranceNext
        /\ UNCHANGED <<tipVars, payoutVars, lockVars, auctions, subVars>>

Spec == Init /\ [][Next]_vars

\* The jar with all its features at once: between two calls a behaviour may turn to
\* another group and count anew, so that calls of any feature follow each other in any
\* order and number.  Every behaviour of Spec is one of these.
JarSpec == Init /\ [][Next]_jarVars

\* The jar's holdings of each token are what its records account for: balances,
\* fees, reserves, and the escrows of locks, streams, puzzles, schedules and
\* auctions, off only by what the drift names.  No feature pays out of another's.
JarAccounted ==
  \A t \in Token :
    wallet[t][Jar] = Recorded(t) + LockEscrow(t) + AuctionEscrow(t) + Drift(t)

\* What the jar keeps in two places agrees: list entries with their index, the active
\* locks with the locks, delegations with the delegates of their creator, and the
\* pools' counters with the claims.
RegistersAgree ==
  /\ ListsAgree
  /\ ActiveLocksOpen
  /\ DelegatesListed
  /\ ClaimsCounted

\* Nobody is paid more than it has a right to, in whatever order it asks: a stream
\* pays what streamed, a large withdrawal needs its signatures, a day its limit, a
\* milestone is rewarded once, a debt is what was borrowed and charged less what was
\* repaid, and an insurance pool keeps its reserve.
PaidWithinRights ==
  /\ StreamWithinDeposit
  /\ PaidOnSignatures
  /\ DayCounted
  /\ RewardedOnce
  /\ DebtAccounted
  /\ ReserveFloor

\* What passes in a time is limited: the volume of a window of the breaker, and how
\* often a subscription can be pulled.
RatesLimited ==
  /\ VolumeCapped
  /\ PullsSpaced

\* The inductive invariant behind the four.  FundsTypeOK: the types of the ledger, of
\* the configuration, of the lists and of what tips leave.
FundsTypeOK ==
  /\ LedgerTypeOK
  /\ config \in Config /\ PremiumsCapped(config)
  /\ ListsTypeOK
  /\ TipsTypeOK
\* The parts of the features: what a call relies on that an earlier call wrote.
FundsInv ==
  /\ FundsTypeOK
  /\ ListsAgree
  /\ PayoutsInv
  /\ LocksInv
  /\ RewardedOnce /\ BidsBacked
  /\ SubscriptionsInv
  /\ InsuranceInv /\ ReserveFloor
  /\ LoansSound
  /\ JarAccounted
=============================================================================
