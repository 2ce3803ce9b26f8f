# Verification of stellar-tipjar-contracts

TLA+ models of the tip jar contract and of the parts of this repository that
run beside it, model-checked with TLC on small instances, with theorems that TLAPS
checks for every value of the constants.

## 1. Inventory

| part | source | state it keeps | operations | what is hard about it |
|---|---|---|---|---|
| governance of the tip jar | `contracts/tipjar/src/lib.rs` | admin, fee collector, their pending transfers, pending upgrade, timelock, schema version | `init`, propose / accept / cancel for both roles, `propose_upgrade`, `cancel_upgrade`, `execute_upgrade`, `migrate` | offers expire, are replaced, outlive their proposer; u32 ledger sums wrap |
| circuit breaker | same | admin flags, guardian flags, one shared guardian expiry, guardian, duration | pause and unpause of tips, withdrawals or both; guardian settings | two parties pause the same feature; expiry without a transaction |
| escrow | same | balances and totals by creator and token, fee balances, v1 entries, allowlist, payout addresses, operator allowances | `tip`, `withdraw`, `withdraw_fees`, `set_fee`, tokens, payout address, operators, the legacy entry points, the getters (which migrate) | lazy migration, rounding, delays, delegated withdrawals, pauses in between |
| limit orders | `contracts/limit-orders` | orders, one pool per token | place, match, cancel | shared pool, i128 products |
| derivatives | `contracts/derivatives` | orders, positions | place, match all, settle, cancel | stale copies inside one call, one flag for three ends |
| risk management | `contracts/risk-management` | profiles, a running total | init, register, update, enforce, reset | total kept by differences, overflow |
| arbitrage | `contracts/arbitrage` | prices, records | update, detect, execute | - |
| indexer | `indexer/src` | event, failure and cursor tables; cursor in memory | listener loop, replay, API | crashes, retries, two workers on one cursor |
| security monitor | `security/src` | breaker, windows, lists, statistics, a mutex each | `check_transaction`, list edits, reset | concurrent calls interleave between locks |
| backup tools | `tools/backup` | files, the scheduler's last id | schedule, export, prune, verify, restore | changes during an export, failed requests, crashes |
| migration toolkit | `scripts/migrate` | snapshot files, history | export, transform, import, verify, rollback | partial failure against a live contract |
| analytics, monitoring, simulator, SDKs, gas tools, scripts | several | - | - | read-only or test harness |
| legacy tip jar | `contracts/tipjar-legacy` | one account and one storage for everything below | some 470 public functions | dozens of features that hold their tokens in one account and keep the same fact in two places |
| - tips and money | `lib.rs` | balances, totals, fees, reserves, milestones, loans, limits, delegations, multi-signature requests, locks, vesting, streams, puzzles, auctions, subscriptions, insurance | tip in ten ways, withdraw in six, and the life of each record | limits and windows in time, several ends of one record, rounding |
| - markets | `amm`, `prediction_market`, `futures`, `stop_loss`, `market_making`, `bonding_curve`, `liquidity_mining`, the funding rounds, `index_fund`, `twap_oracle`, `volatility` | pools, markets, contracts, orders, curves, programs, rounds, funds, rings of prices | create, trade, settle, claim, cancel | who is paid last, rounding, ring buffers |
| - libraries | `circuit_breaker`, channels, `meta_tx`, `rollup`, proofs, `fractional_ownership`, `royalty`, `sharding`, `cross_contract`, `verkle_tree`, identity, `recovery` | windows, channels, batches, nullifiers, positions, trees, guardians | - | replays, disputes, phases, lists beside entries |

The contracts share the ledger and call only token contracts. A contract call is
one atomic transaction. The indexer and the backup tools read the contract from
outside, through requests that fail and are not atomic; the security monitor is a
library that concurrent tasks call.

For each part, what makes it correct: roles move only by offer and acceptance, code
changes only after the timelock; an admin's pause holds; the jar can pay what it
owes, and money leaves a creator's balance only to the address in force; order
pools account for every unit; the total follows the profiles; no cursor passes an
event that was not dealt with; limits and the breaker hold between locks; backups
can be rebuilt and continue after failures; a migration never opens a contract with
half of two states in it. Of the legacy jar: its account is accounted for across all
features, up to what the code itself leaves unrecorded, no claim is paid twice, copies of a
fact agree,
rates and phases are kept, and what is over stays over.

## 2. Modules

| module | models | composition |
|---|---|---|
| `Handover` | abstract two-step transfer of a role: an offer to one party with a deadline | refined by governance, twice |
| `TipJarGovernance` | governance | - |
| `TipJarPause` | circuit breaker | extends governance: the admin that pauses is the one that moves |
| `TipJar` | escrow and everything else of the contract | extends `TipJarPause`; the whole contract |
| `MCTipJar` | symmetry of tokens and of creators | extends `TipJar` |
| `Int128` | i128 arithmetic at a scaled width: wrap, truncating division | used by the three below |
| `LimitOrders`, `Derivatives`, `RiskManagement` | the contracts of those names | independent |
| `Indexer` | listener and replay over the tables | - |
| `SecurityMonitor` | `check_transaction` at the grain of its locks | - |
| `Backup` | scheduler, exporter, pruning | - |
| `Migration` | export, transform, import, verification, rollback, history | - |
| `Companions` | the three order and risk contracts, the monitor, `Backup` and `Migration` | they share no state: a behaviour exercises one, its `focus` |
| `LegacyLedger` | the legacy jar's account, books, configuration, volume breaker, and the helpers every feature uses | extended by all below |
| `LegacyTips` (with auctions), `LegacyAdmin` (administration, credit, lists, reputation), `LegacyPayouts`, `LegacyLocks`, `LegacySubscriptions`, `LegacyInsurance` | the money features | composed in `LegacyFunds` |
| `LegacyAmm` (pools, bonding curves), `LegacyFutures` (futures, prediction markets), `LegacyMarketMaking` (with stop orders), `LegacyFunding` (rounds, mining, index funds), `LegacyOracles` | the markets, funds and feeds | composed in `LegacyMarkets` |
| `LegacyBreaker`, `LegacyChannels` (with relayers and rollup), `LegacyProofs`, `LegacyShares`, `LegacyShards`, `LegacyIdentity` | the libraries | composed in `LegacyRecords` |
| `MCLegacyFunds`, `MCLegacyMarkets`, `MCLegacyRecords` | small instances | - |
| `TipJarProofs` | theorems about governance, the breaker and the escrow | extends `TipJar` |
| `IndexerProofs` | theorems about the indexer | extends `Indexer` |
| `CompanionsProofs` | theorems about the order and risk contracts, the monitor, backups and migration | extends `Companions` |
| `LegacyFundsProofs` | theorems about the registers and rates of the legacy jar, its account and what it pays | extends `LegacyFunds` |
| `LegacyMarketsProofs`, `LegacyPricesProofs` | theorems about its markets and funds; about pool shares, stops, the prices along a curve and the price feeds | extend `LegacyMarkets`; the former |
| `LegacyRecordsProofs` | theorems about its channels, rollup, reveals, proofs, credentials, shares, shards, scores, recovery and enhanced breaker | extends `LegacyRecords` |
| `SumTheorems` | facts about sums over finite sets | used by the proofs |

**How to read the contract modules.** Each variable is one storage key, named in
the comment beside it; each action is one entry point with its guard made of the
code's checks; a call that panics is rolled back and is no step. `None` is an
absent entry. History variables (marked `history`) are read by no guard; they
record who proposed what and when, what the admin asked for, what was granted and
drawn, so that properties can speak about it. `CloseLedger` advances the sequence
number, and pending changes mature and pauses expire by that alone.

- *Governance.* The deadline of an offer and the unlock ledger of an upgrade are
  u32 sums that wrap (`AddU32`). A jar may start empty or as one upgraded from v1.
- *Breaker.* `pause_internal` has an admin and a guardian path. `adminHold` records
  what the admin paused and has not unpaused.
- *Escrow.* Amounts are `0..I128Max`, and additions are checked. The migration of
  a v1 entry is part of every handler that reads the balance, the getters included.
  `Transfer` stands for the external SEP-41 token. `withdraw` is the whole handler:
  pause check, operator allowance, matured payout address, payment.

**Indexer.** Event *e* is the *e*-th emitted and is its own cursor. Both workers run
load, fetch, process and save as separate steps, because each is a call that may
fail and a point where the process may crash. A failing insert may have been
committed. Parsing is reduced to the set of events that do not parse.

**SecurityMonitor.** One step is one critical section. The time is read in the step
before the lock it is used under. The detector's verdict is a free choice once a
sender has enough history, since it depends on amounts the model leaves out; an
amount over the ceiling is always possible.

**Backup.** The exporter's two requests are two steps; each may fail, or answer
without a result, which the code takes for no entries. `--incremental` is a choice
at the start. A crash can leave a torn file. Names are the smallest unused number, as
the code's timestamps only have to differ.

**Migration.** One operator runs one command at a time, users act between any two
calls of it. A read that fails is a default (a setting counts as zero, a record as
absent), a write that fails may have taken effect, the tool may die at every step, and
the next command starts from the files that are there. Records are told apart only by
what the rules of the transform and the verification do with them.

**The legacy jar.** Its modules follow the same conventions. The jar is one contract
with one account, so `LegacyLedger` holds `wallet` (the external tokens), `books` (what
the jar owes creators, fees, reserves) and the clock, and each module adds the records
of its feature and one `...Next`. A composing module gives every behaviour a `focus`, the
feature it exercises beside tips and the clock: features meet only in the account and
the books, and the accounting invariants speak of all of them at once. `JarSpec` lets the
focus and the count of calls change at will, so that calls of all features mix in any
order and number: TLC explores `Spec`, the theorems are about `JarSpec`. `drift` names,
by cause, what the code itself leaves unrecorded or unbacked (see the disagreements),
so that `JarAccounted` says that there is no other cause. Signature checks and hashes
are external; `require_auth` is the choice of the caller. The fixture is not in the
workspace (`Cargo.toml:18`) and is never released, so that arithmetic that overflows
panics and the call is rolled back.

## 3. Runs

| run | module | checks |
|---|---|---|
| `governance` | `TipJarPause` | `GovTypeOK`, `NoStaleAdminOffer`, `UpgradeTimelocked`, refinement of `Handover` by both roles, `AdminPauseHolds`, `PauseEndsOnlyByAdminOrExpiry` |
| `escrow` | `MCTipJar` | `Solvent`, `OwedWithinTotal`, `FundsReachable`, `TotalsNeverFall`, `BalanceFallsOnlyByPayout` |
| `delegation` | `TipJar` | `OperatorWithinGrant`, `PayoutDelayed`, `PausedMeansFrozen` |
| `indexer` | `Indexer` | `NothingSkipped`, `DropsCostRetries`, `EventuallyIndexed` |
| `companions` | `Companions` | `ContractsInStep` (the pool of limit orders, derivative orders closed once, the risk total), `FilledAtLimitOrBetter`, `MonitorHolds`, `BackupsUsable`, `BackedUpAtLast`, `NeverHalfImported` |
| `legacy_funds` | `MCLegacyFunds` | `FundsInv`, the inductive invariant of section 4, `JarAccounted`, `RegistersAgree`, `PaidWithinRights`, `RatesLimited` |
| `legacy_markets` | `MCLegacyMarkets` | `MarketsAccounted`, `ClaimsBacked`, `FeedsTrue`, `PricesMonotone` |
| `legacy_records` | `MCLegacyRecords` | `BreakerSound`, `OnceAndInTime`, `RecordsAgree`, `OneWay` |
| `pause_named` | `TipJarPause` | `PausesNamedFlagsOnly`: violated |
| `deriv_twice` | `Derivatives` | `MatchedOnce`: violated |
| `rate_counted` | `MCLegacyRecords` | `RateCountsTips`: violated |
| `fractions_bought` | `MCLegacyRecords` | `BuyoutTakesAll`: violated |

The properties of `companions` and of the legacy runs are conjunctions of named parts,
each stated in the module of its feature: `PaidWithinRights`, for one, says that a
stream pays what streamed, a large withdrawal has its signatures, a day its limit, a
milestone is rewarded once, a debt is what was borrowed and charged less what was repaid,
and an insurance pool keeps its reserve.

Every property has a mutant of the code that breaks it (`PROJECT.json`); the
operators named `X_how` are those mutants and no specification uses them.

**What the four violations show.** A guardian that pauses withdrawals after its pause
of tips expired pauses tips again: expired flags stay in `guardian_flags`, and the
one expiry is moved (`contracts/tipjar/src/lib.rs:1124`; lines 126 and 1062 say the
features pause independently). And `match_orders` matches one sell with two buys in
a single call, because it reads a copy of the orders taken before the loop
(`contracts/derivatives/src/lib.rs:141`, against the comment at 184). And a buyout by an
account that held no fractions does not enter it into the list of holders, so that the
next buyout leaves it its position and the supply is there twice
(`contracts/tipjar-legacy/src/fractional_ownership.rs:237`, whose comment says that all
fractions go to the buyer). And the enhanced breaker counts a guarded tip twice against
its limit of tips per minute, once in `optimized_check_sequence` and again in
`batch_state_updates` (`contracts/tipjar-legacy/src/circuit_breaker.rs:2682`), while lines
26 and 307 of that file speak of a number of tips; `BreakerSound` says what remains true,
that the count never misses one.

**Other disagreements met while modelling**, which the models contain and the
properties are stated around:

- `accept_admin` and `accept_fee_collector` accept in ledger `expiry_ledger` itself,
  which the event's doc (`tipjar/src/lib.rs:211`) excludes; a test agrees with the
  code, and so does `Handover`.
- a timelock near the largest u32 wraps (`tipjar/src/lib.rs:907`), and the upgrade
  is executable at once. `NoWrap` excludes it.
- `guardian_pause_expiry_ledger` is not 0 once no guardian pause is active
  (`tipjar/src/lib.rs:1104`, doc at 1102).
- `match_order` pays from the pool other orders' escrow lies in, and its product
  wraps (`limit-orders/src/lib.rs:128,131`).
- a second `init` zeroes the risk total under registered exposure, and a large
  exposure scores low because `exposure * 100` wraps
  (`risk-management/src/lib.rs:48,98`). `TotalInStep` and `ScoreFollowsExposure`
  say what remains true.
- the indexer moves its cursor past an event it failed to store
  (`indexer/src/event_listener.rs:346`); a replay that persists a cursor ahead of the
  listener's makes it skip events after a restart (437); an event can reach the
  stream twice after a crash.
- a call that passed `is_open` is approved after the breaker opened; an anomaly
  between the two locks of `reset` leaves the breaker open with no anomaly on record
  (`security/src/circuit_breaker.rs:56`); a caller that waited for the lock with an
  old time exceeds `max_tx` (`rate_limiter.rs:39`), by the amount `WindowHeld` allows.
- every incremental backup after the first fails, as its base is a difference
  (`tools/backup/state_exporter.rs:251`); an export is two reads of a running
  contract, and an error reply counts as empty (105, 115).

- migration: verification compares `Paused` with the snapshot's (`verify_migration.rs:82`)
  while the import itself has paused the target, so that a snapshot of a running source
  is always rolled back, unless that one read fails and counts as false; the rollback
  leaves entries that only the import wrote, unpauses a target that was paused before,
  and undoes what users did after the backup; a retry replaces the good backup; a failed
  rollback is recorded as `RolledBack`; the checksum hashes maps in an unstable order
  (`export_state.rs:592`).

**In the legacy jar** (paths under `contracts/tipjar-legacy/src`, lines of `lib.rs` unless
named). The models contain these too.

- *Unbacked or unrecorded money* (`drift`): a conditional tip's loan repayment (4202),
  milestone rewards (6925), a batch with two withdrawals of one token (6245), the fee of
  `tip_with_fee` (4283), balances credited by the rollup.
- *Records that cannot end*: the first vesting schedule has id 0 and cannot be withdrawn
  (4036); insurance claims never leave `Pending` (8012); `stop_stream` marks as withdrawn
  what it does not pay (7423); a prediction market may resolve to no outcome; marking an
  unmatched futures contract pending locks the long's margin (9495).
- *Writes before a panic*, which are rolled back: the breaker's own trigger (2098, 2147)
  and the deactivation of an expired delegation (3670).
- *Checks that are missing*: the token of a time lock (5224, 5270), the withdrawals scope
  in `withdraw_amount` (3272), the volume of a window that rolls over (2159), the sign and
  the status in the makers' withdrawal (`market_making/mod.rs:476`: a negative amount, also of
  a closed maker, credits inventory and moves no tokens), the sign of an amount that
  `rep_mint` takes (`reputation_tokens.rs:71`: a score may be negative, and decay lifts it to
  0), the sign of a rollup batch (`rollup/batch.rs:11`), the caller of `update_leaf`, `init_recovery`, `set_split`,
  `vc_issue` and of the sharding's admin calls, guardian weights among approvals, the
  action in a relayed request's hash.
- *Terms that reach back*: interest since the last update is charged at the rate in force
  when it is computed, also for the time before `set_credit_config` changed it (2247).
- *Two keys for one thing*: options (8591 against 8696), the bridge and the enhanced
  breaker's configuration are written under one key and read under another.
- *Docs that differ*: `TipCount` is never written (4777); a distribution is not equal to
  the amount (`royalty/mod.rs:133`); a transfer forfeits pending revenue that its comment
  keeps (`fractional_ownership.rs:191`).
- *Enhanced breaker*: no entry point of the contract and no test calls its guard, so that
  what is said of it is about the library; the cached configuration is never invalidated, a manual trigger can shorten a halt, and the velocity score overflows
  at about forty times the mean.

### Bounds

- `U32` is scaled to 16 values and `MaxLedger` stays below it; where time passes it
  exceeds each delay, so that offers, pauses, payouts and upgrades are seen before,
  at and after their deadline.
- Parties: one that holds a role, one that can take it, and one that is named and
  cannot sign (`lost`, `dan`) or signs and holds none.
- Parties of `governance`: two, either of whom may become admin, one the guardian and the
  collector's successor. One ledger less or more than each of its delays is reached.
- Money: `escrow` has two creators and a fee collector who share one token account, tips
  and partial withdrawals of 3, v1 amounts of 1 and 2, and fee rates of 0, 1 and 2 out of 2,
  of which `MaxFeeBps = 1` forbids the last. A fee of half of 3 rounds, and with `I128Max = 4` two tips overflow a
  balance while one of them, its fee product included, fits. With a second token the run
  exceeds five minutes; every amount is kept per token, and the proofs hold for any number.
  Time, delegation and pauses stand still there and run in `delegation`, where one creator
  is enough because allowances and payout addresses are kept per creator.
- `MaxTokens = 1` in `escrow`, so that the full and the empty allowlist both occur. Creators
  are interchangeable: no action names one.
- Indexer: three events in pages of two, one of which does not parse, one retry, two
  faults (just enough to lose one event) and one crash.
- Companions: three orders, the least in which two compete for one, and `I128Max = 7`,
  so that risk arithmetic overflows; two callers of the monitor with a limit of 2 and five
  checks, the least in which a caller with an old time exceeds the limit, the clock moving past
  the window once, two edits and one reset; one entry of
  each kind for the backups, two values, three changes, two files, a fault and a crash;
  one setting and one record for a migration, four commands (export, transform, import
  and a retry or a rollback), a user's change and two failures, so that an import and its
  rollback can both fail.
- Legacy: two parties, of whom one is the admin, and the amounts, prices and rates that
  make every division leave a remainder somewhere. `MaxCalls` bounds the calls of a
  behaviour feature by feature (4 to 8: the shortest that creates a record, reaches each
  of its ends and tries a second one, with the clock moving in between) and `MaxOpen` the
  records; basis points are out of 20, and times are small integers around each limit. Where
  the code takes a number of any sign and a property depends on it, the model does too:
  `Withdrawals` of makers, `Mints` of scores and `BatchAmounts` of the rollup are sets of
  integers. The amounts of sharded tips are not checked either; they only add to a shard's
  volume, which nothing reads, and the model keeps them natural.
- What a bound or an assumption leaves out: `UpgradeTimelocked`, `PayoutDelayed` and the
  refinements speak of ledgers whose sums do not wrap; payout addresses stand still in
  `escrow`, so that `BalanceFallsOnlyByPayout` meets their changes only in its proof;
  `OperatorWithinGrant` counts each grant by itself, so that an operator may draw a grant that
  its creator is about to lower and then the new one; `EventuallyIndexed` and `BackedUpAtLast`
  excuse a listener and a scheduler that ended for good, and `NeverHalfImported` a user whose
  change a rollback undoes.

Behaviours of the bounded models end, hence `CHECK_DEADLOCK FALSE` in the runs whose
bounds stop everything; where a handler is always enabled deadlock is checked.

### Fairness

`EventuallyIndexed` assumes weak fairness of the listener's steps: tokio keeps
polling a task that is ready, and every retry, sleep and poll ends. Failures and
crashes are bounded, not excluded. `BackedUpAtLast` assumes weak fairness of the
scheduler loop, whose sleep and child process end. No fairness is assumed for users,
replays or operators.

## 4. Proofs

`tlapm` checks every leaf. No constant is fixed; the assumptions are the named ones in
the modules (sets typed, those that are summed over finite, `None` outside the other
sets), and TLC evaluates them in every run. Some theorems assume more, and say so in
their statement:

- `NoWrap`, `NoPauseWrap`, `NoPayoutWrap`: the u32 sum of a ledger and a delay fits.
  Without it a timelock is over at once.
- `ReplaysFollow`: a replay that persists its cursor begins at the saved one, or no later
  than the listener does. Otherwise a listener that restarts skips what lies between, as
  section 3 says.
- `FairMatching`: no caller names a negative price, and no order's product of amount and
  limit overflows. Without it an order can be filled for less than its limit
  (`limit-orders/src/lib.rs:128`).

| theorem | says |
|---|---|
| `GovTypeCorrect` | `GovSpec => []GovTypeOK` |
| `AdminOffersAreCurrent`, `UpgradesAreTimelocked` | `NoStaleAdminOffer`, `UpgradeTimelocked`, if no sum wraps |
| `AdminHandoverImplemented`, `CollectorHandoverImplemented` | governance implements `Handover`, if no sum wraps |
| `PauseTypeCorrect`, `AdminPausesHold`, `PausesEndByAdminOrExpiry` | `PauseTypeOK` and the two pause properties, the last if no sum wraps |
| `JarTypeCorrect`, `JarSolvent`, `OwedStaysWithinTotal`, `OperatorsStayWithinGrants` | `TypeOK`, `Solvent`, `OwedWithinTotal`, `OperatorWithinGrant` of the whole contract |
| `TotalsAreMonotone`, `BalancesFallByPayout`, `PausesFreeze`, `PayoutsAreDelayed` | the action properties `TotalsNeverFall`, `BalanceFallsOnlyByPayout`, `PausedMeansFrozen`, `PayoutDelayed`; the last if no sum wraps |
| `WholeBalancesPayable` | what `FundsReachable` says without `ENABLED`: the jar holds every creator's whole balance and there is an address to pay it to |
| `IndexerTypeCorrect`, `CursorsSkipNothing`, `DropsAreRetried` | `IndexerTypeOK`, `NothingSkipped` (if replays follow), `DropsCostRetries` |
| `ContractsStayInStep`, `LimitsAreKept` | `ContractsInStep`; `FilledAtLimitOrBetter` if matching is fair |
| `CompanionsTypeCorrect`, `MonitorIsSound`, `BackupsStayUsable`, `NothingHalfImported` | `CompanionsTypeOK`, `MonitorHolds`, `BackupsUsable`, `NeverHalfImported` |
| `RegistersStayInStep`, `RatesStayLimited` | `RegistersAgree`, `RatesLimited` of the legacy jar with all its features (`JarSpec`) |
| `JarStaysAccounted`, `PaymentsStayWithinRights`, `FundsStaySound` | `JarAccounted`, `PaidWithinRights`, `FundsInv` of the same |
| `MarketsAlwaysAccounted`, `ClaimsAlwaysBacked` | `MarketsAccounted`, `ClaimsBacked` with all the markets side by side (`MarketsSpec`) |
| `ShareValueAlwaysKept`, `StopsAlwaysRise`, `PricesAlwaysFollow`, `PricesAlwaysMonotone` | `ShareValueKept`, `StopsOnlyRise` and `PriceFollowsSupply`, the parts of `PricesMonotone`, and the whole |
| `ListsAlwaysTrue`, `FeedsAlwaysTrue` | `VotesCast` and `ActiveMarketsUnsettled`, the parts of `FeedsTrue` on rounds and markets, and the whole, with the averages and the volatility |
| `RecordsAlwaysTied`, `AlwaysOnceAndInTime`, `AlwaysOneWay` | `RecordsInv`, `OnceAndInTime` and `OneWay` of `LegacyRecords` |
| `RecordsAlwaysInStep` | `KeptInStep`: `RecordsAgree` without splits, routed calls, the hash tree and roles |
| `BreakerAlwaysCounts`, `BreakerAlwaysSound` | `GuardInv` with `StatsInv`, and `BreakerSound` of the enhanced breaker |

**Governance.** `UpgradeTimelocked` compares the present ledger with a ledger the code
does not store. `GovInv` adds that each stored deadline is exactly the proposal's
ledger plus the delay, which needs `NoWrap`: it is where a wrapped sum breaks the
argument, and only there.

**Pause.** `AdminPauseHolds` is not inductive: `PauseInv` adds that the admin's bucket
equals what the admin asked for, and that the guardian's duration is never 0.

**Escrow.** `Solvent` is about a sum over creators. A step changes one creator's term,
or the fee, and moves the same amount between wallets; `SolventOne` and `SolventFee`
say that this keeps the jar solvent, and each handler is shown to be such a step.
`JarInv` also needs `V1NeedsAdmin` (before `init` there is nothing to migrate, so
choosing the legacy token changes no liability), `OwedWithinTotal`, and
`GrantsAccounted` (what is left of an allowance is what was granted less what was
drawn). Sums are folds of a finite function; `SumTheorems` proves from a least
counterexample, instead of an induction scheme, that updating one term changes the sum
by the difference. The action properties follow from `JarInv` step by step.
`PayoutDelayed` needs `PayoutsAnnounced`, that the stored ledger of a pending change is
the one of its announcement plus the delay. `WholeBalancePayable` is a consequence of
`Solvent`: a sum of naturals bounds each of its terms.

**Indexer.** `NothingSkipped` is about the cursor that is stored. `CursorsSound` adds what
the workers hold in memory: a worker whose cursor may be saved has dealt with everything
before its cursor, and before its place in the page it works on. A crash forgets the memory
and goes back to what is stored, which is why the stored part is stated by itself, and a
replay is covered only while it saves its cursor (`Saves`). `PagesInRange` makes the page
lie on the chain. For `DropsCostRetries` the attempts of the retry loops that still run are
counted as paid for, too.

**Order and risk contracts.** `PoolAccounted` is a sum over a growing set of orders, so
`SumExtend` accounts for a new one; `FilledWhole` adds that an order is filled whole or not
at all. `ClosedStaysClosed` says that whatever was matched or paid is closed, for the copies
`match_orders` takes before its loop may differ from the orders themselves. `ScoresFresh`
ties each score to the exposure beside it, in arithmetic that may wrap.

**Monitor.** `ListsHonoured` says what a call between two locks may still rely on: whoever
is marked is on the list, and a call past its first look is not marked. `WindowsSound` is
the argument for `WindowHeld`: as long as no call has dropped times of the window that ends
with *t*, the limiter counts all that were admitted in it; afterwards only the calls that
read the time by *t* and wait for the lock can add to it, and there are at most as many as
callers. The window is a recursive function on its length; what it keeps is proved once.

**Backups.** `NamesUnique` and `DiffsFit`: no two files share a name, and a difference gives
back what was fetched with whatever base it finds, also after pruning and crashes.
`FilesCounted`: only a crash or the backup just made exceeds the limit. `LatestIsLast`: the
backup just made is the newest file, so pruning, which takes the oldest, keeps it.

**Migration.** `ImportSound`: while the target is paused, every entry of the snapshot that
is no longer to do is in it, and all of them before the unpause. Users can change the target
only while it is not paused: that is what the implication leaves out, and why a failed
pause, or an unpause by its admin in between, does not break the property. `ReadingSound`
says that a snapshot being read has the settings read so far, which makes it well typed.

**Legacy jar: the account.** `JarAccounted` is one equation between what the jar holds and
what balances, fees, reserves, five kinds of escrow and the drift add up to. It cannot be proved feature by feature, since nearly every call touches the account. The
argument is about differences. `Takes(t, x)` says that a call raises what the jar holds
beyond its books and drift by *x* of token *t*, `Escrows(t, x)` that it raises the escrows
by the same; every call is shown to do both for some *t* and *x*, mostly 0, and `Accounts`
follows. Below that, `Bookkept` says what a change of one balance, one fee and one
reserve does to the books, and `SumTheorems` what changing, adding or settling one
record does to a sum over a sequence.

What a call relies on without looking at it is in `FundsInv`, which is inductive together
with the types: a standing bid has a bidder (`BidsBacked`: otherwise outbidding would lose
the money), a lock that is listed is open (`ActiveLocksOpen`), no stream has withdrawn more than
had streamed at its last update (`StreamsSound`: a restart moves the stream in time, so that
the present amount alone says nothing), nothing was drawn on a day that has not come
(`DrawnInTime`, for `DayCounted`), a subscription is due an interval after its last payment
or was allowed since, a pool's reserve covers a tenth of what was contributed
(`ReserveFloor`), and a loan is what was borrowed and charged less what was repaid, under
terms that exist (`LoansSound`; `set_credit_config` may change any of them).
`RewardedOnce` compares the rewards in all tokens with the milestones marked completed, a
sum over the creators of sums over their milestones.

**Legacy jar: registers and rates.** `RegistersAgree` is inductive once the types of the
registers are added, and each call is shown to write both places or neither; the records
of the time locks also need the clock, against which a refund is measured. `RatesLimited` is an action property: `BreakerPart` types the window, and a window that
rolls over holds its first amount against the single limit only, which is why the bound is
the larger of the two.

These theorems assume of the constants: fee and premium together take less than the whole
of a tip (`FundsAssumption`; `lib.rs` allows 1000 and 1000 of 10000, lines 61 and 7640, and
500 by congestion, `fees/calculator.rs:9`), a premium of at most a tenth
(`InsuranceAssumption`: 500 of 10000, line 7634), and that `None` is no record. Batches
have at most two operations (`InOrder`): a longer one repeats the same loop body, but the
induction over its length is out of the prover's reach.

**Legacy jar: markets.** The run explores one market per behaviour; the theorems are about
`MarketsSpec`, in which all of them are open at once and share the jar's account.
`MarketsAccounted` is proved like `JarAccounted`, by what a call takes and what its
market's holdings rise by. It is an identity less what the code pays without recording it
(rewards of pools, tokens that curves send, payments of retroactive rounds), and `ClaimsBacked`
is about the books of each market: it does not say that the one account always suffices for
all of them, which those payments and makers' free credits break. What it needs of each market is in `MarketsInv`:

- *Pools* (`AmmInv`): shares add up to the total, and reserves are not negative.
  `ShareValueKept` is arithmetic on three rounded operations. A swap divides down, so that
  the product of the reserves does not fall; a deposit mints the smaller of two quotients,
  and a withdrawal pays two quotients, so that the product over the squared shares does not
  fall; the first deposit's `isqrt` is never above the root.
- *Prediction markets* (`PredictionInv`): the stakes not yet claimed add up to what is left
  of the pools, and a claim of `stake * pool / side`, rounded down, leaves enough for the
  others. It is a statement about the sum of the remaining claims and not about one claim.
- *Futures* (`FuturesInv`): the margins of an open contract are the ones its position
  counts, and a settlement splits exactly their sum, whatever the price.
- *Makers* (`MakersInv`): inventories and fees are not negative, and a closed maker is off the
  list. Withdrawals may be of any sign: `free_x` and `free_y` record what negative ones credited,
  the account is accounted for without it, and it is all that a closed maker can have.
- *Rounds* (`RoundsInv`, `RetrosInv`): the matched shares of a quadratic round are
  quotients of one total weight and sum to at most the pool; the votes of a retroactive round
  weigh what was cast.
- *Mining* (`MiningInv`): each position's boost lies between its bounds, stakes add up to the total, and
  what a program paid and still owes is within what funded it.
- *Index funds* (`FundsInv`): the shares handed out, at their price, are within the value held.
- *Curves* (`CurvesSound`): no more was sold than bought, and the parameters are ones
  `validate_params` accepted. A price is made of a five-term exponential, in which every term is
  a rounded quotient of the one before; with an argument that is not negative each term grows
  with it, and so do the sum and the price. A sigmoid below its midpoint is left out because
  the statement is false there: with a negative argument the terms alternate, each is rounded
  on its own, and with the code's unit of 10^7 the price can fall by a unit or two while the
  supply rises. The proof attempt showed it; the small unit of the run does not.
- *Feeds* (`OraclesInv`): `TwapIsAverage` and `IndexIsLatest` compare a ring that forgets
  with everything that was ever observed. What the next write needs is a statement about
  every slot: the one written j writes ago holds the j-th latest observation, and the newest
  sum less its own is that of the prices in force since (`SlotHolds`), for as many writes as
  the ring is long. Times of one feed strictly rise, which is why the slots inside the window
  are the latest ones and the division is by a positive span; the mean of an index is that of
  its latest observations, and its snapshots are sorted by time. That a sum which goes on
  with one price for n seconds grows by n times the price (`SumGoesOn`) is proved by the least
  n for which it would fail, in place of an induction. It also follows that the code's
  test for a slot that was never written is never met within the count.

The assumptions are the types of the constants (units and precisions positive, rates and
prices natural, prices of a feed positive, as its calls check, and rings of at least one
slot) and a spread of at most twice the price's base (`MakersAssumption`;
`market_making/mod.rs` allows less), without which a bid would be negative.

**Legacy jar: records.** `OnceAndInTime` is seven statements about six libraries.
`RecordsInv` makes them inductive:

- *Channels* (`ChannelsInv`): shares and deposits are not negative and a share is within
  its deposit. `ChannelsAccounted` alone would let a dispute claim more than the deposit.
- *Relayers* (`MetaInv`): every consumed hash has a nonce below its sender's present one,
  and the records of a sender carry the nonces 0, 1, 2, ... in order, each once.
- *Rollup* (`RollupInv`): `init_rollup` resets the counter, and a later batch takes the
  number of an earlier one. `submissions` is the history of all batches ever submitted;
  every stored batch is one of them, with its fields, and while it is pending that
  submission has been neither credited nor contradicted. `CreditsRolledUp` says that the
  balances are the sum of the credited submissions. From both follows that a batch is
  credited once, after a whole challenge period and only if no proof was accepted.
- *Reveals* (`RevealInv`): a round's times are in order, and its status says which of them
  have passed; that is what keeps commits and reveals apart.
- *Proofs* (`ZkInv`, `ValidityInv`): every proof's nullifier is marked, and proofs with one
  nullifier are one proof; a commitment is made of the fields stored beside it with a nonce
  its sender has used, which makes commitments unique; a valid aggregate is over proofs
  that were valid and were, if revoked, revoked after.

`OneWay` is an action property and needs `ChannelsInv` only for the types.

`KeptInStep` collects what five more libraries keep in two places, each with an invariant of
its own:

- *Fractions* (`FractionsInv`): what holders can still claim and have claimed is within the
  revenue, because a division leaves its remainder and a transfer or a buyout starts both
  positions at the present mark; sums over the holders follow `SumTheorems`. A buyout by an
  account that is not listed is excluded, as the run `fractions_bought` shows.
- *Shards* (`ShardingInv`): the shard with the fewest tips is not above the average, so that a
  rebalancing leaves it, or makes it, accepting.
- *Scores* (`ScoresInv`): a score is what was minted less what decayed, where the code counts
  as decayed also what lifts a negative score to 0 (`forgiven` records it, and enters twice);
  the latest entries of its log account for it, also when the log drops its oldest.
- *NFTs* (`NftsInv`): a token is listed by its parent as often as it names it, once or never.
- *Recovery* (`RecoveryInv`): a request counts its voters, all of whom are marked under its
  number, also when the number was used before, and its lock ends a whole delay after it began.

**Legacy jar: enhanced breaker.** `BreakerSound` needs two more invariants.

- *Guard* (`GuardInv`): a window that starts over at the present time drops every tip
  accepted before, so its volume is right only if all of them are strictly earlier; that
  follows from each tip being no later than the present time and earlier than the end of
  every window it counts towards (`Before`), which `WindowsCount` does not say. A threshold
  bounds a window only together with the configuration the window was filled under: the guard
  reads the cached one first, an administrator writes the stored one, and the cache is replaced
  only by `initialize_circuit_breaker`, which also starts a new state. A state is therefore never
  present without a cached configuration, and that one was validated (`Checked`), so that the
  base cooldown is positive and not above the longest one. Nothing is asked of the number of
  triggers: the back-off applies at most five times and the result is clamped.
- *Statistics* (`StatsInv`): both means move towards the new sample, whichever of the two
  updates made the one before, and never past it; with no sample yet the mean is the sample. The
  deviation enters only as a natural number: that ten steps of `sqrt_approx` from a natural
  number stay natural is proved by naming the ten values.

`BreakerAssumption` gives the constants their types, spans that are positive, a default
configuration that `validate` accepts (`default_config` does) and a full score of at least 2,
so that half of it divides.

**Only model-checked.** Liveness under fairness (`EventuallyIndexed`, `BackedUpAtLast`) and
`FundsReachable`, which says what is `ENABLED`, are out of the prover's reach. So is what
the hash trees and splits of `RecordsAgree` compute over data of any length (`TreeProofsSound`,
`SplitsWithin`). TLC checks them in `legacy_records`, and with them `BatchesAgree` and
`RolesListed`.

## 5. Not modelled

- Storage rent and archival: an archived entry stops a call before the contract runs.
- Event payloads, logging, formatting, TTL extension; the getters that only read.
- The webhook layer of the indexer and the arbitrage contract: planned below.
- The importer's verification and restore: verification hashes a map in an order that
  is not stable, and restoring calls an entry point the contract does not have.
- Analytics, monitoring, SDKs, simulator, gas tools, deployment scripts: I/O, queries or
  test harness.
- Of the legacy jar: conviction voting, whose proposals no entry point creates; options and
  the bridge, which read another key than they write; the statistics that `tip` keeps for
  `programmable_royalty` (3186), whose rules no entry point creates, and which nothing else reads;
  in the tips that the markets see (`LegacyMarkets.Tip`), the checks and the fee before the
  net amount is credited, which `LegacyTips` has; the breaker's audit log and reports;
  the declared libraries that no entry point calls (staking, strategy, rental, portfolio,
  lending, synthetic, privacy, sidechain, poly_commit, security); and the files `lib.rs` does
  not declare (collateral, derivatives, farming, acl, dynamic_nft, oracle, inheritance,
  perpetual, plasma, swap, streaming_vesting, merkle_distributor, vrf, soulbound_token,
  escrow, flashloan, rate_limit, threshold_sig, recursive_proof).

## 6. Plan

1. `Webhooks`: the second listener, its dispatch and its retries.
2. `Arbitrage`: prices and records, with the profit's i128 arithmetic.
