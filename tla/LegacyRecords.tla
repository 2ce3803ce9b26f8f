--------------------------- MODULE LegacyRecords ----------------------------
(***************************************************************************)
(* The legacy tip jar's libraries around the tips: the enhanced circuit    *)
(* breaker, channels and the rollup, commitments and proofs, shares and    *)
(* splits, shards and trees, identities and recovery.  They meet only in   *)
(* the jar's account and its books.  A behaviour exercises one of them,    *)
(* chosen at the start.                                                    *)
(***************************************************************************)
EXTENDS LegacyBreaker, LegacyChannels, LegacyProofs, LegacyShares, LegacyShards, LegacyIdentity

CONSTANTS
  MaxCalls,   \* bound: for each library, the calls of a behaviour
  MaxOpen     \* bound: the rounds, circuits, records... of a behaviour

VARIABLES
  focus,      \* the library this behaviour exercises
  calls       \* the calls it made so far

vars == <<focus, calls, ledgerVars, breakerLibVars, channelVars, rollupVars, proofVars, sharesVars,
          shardVars, identityVars>>

Init ==
  /\ focus \in DOMAIN MaxCalls
  /\ calls = 0
  /\ LedgerInit
  /\ BreakerInit
  /\ ChannelsInit
  /\ RollupInit
  /\ ProofsInit
  /\ SharesInit
  /\ ShardsInit
  /\ IdentityInit

Bounded ==
  /\ \A n \in {Len(secrets), Len(aggregates), Len(trees), Len(sharding.transfers), Len(dids.claims),
               Len(disputes)} : n <= MaxOpen
  /\ \A n \in {Len(circuits), Len(zkProofs), Len(tipProofs), Len(privateTips), Len(treeProofs),
               Len(dids.records), Len(credentials)} : n <= 2 * MaxOpen
  /\ Len(nfts) <= 3 * MaxOpen
  /\ Len(routed.calls) <= 4 * MaxOpen
  /\ \A p \in Party : Len(recovery.guardians[p]) <= 2 * MaxOpen

\* The libraries that move tokens or write the creators' books.
Paying ==
  /\ \/ focus = "payment" /\ PaymentChannelNext /\ UNCHANGED rollupVars
     \/ focus = "tips" /\ TipChannelNext /\ UNCHANGED rollupVars
     \/ focus = "meta" /\ MetaNext /\ UNCHANGED rollupVars
     \/ focus = "rollup" /\ RollupNext /\ UNCHANGED <<wallet, channelVars>>
  /\ UNCHANGED <<breakerLibVars, proofVars, sharesVars, shardVars, identityVars>>

Recording ==
  /\ \/ focus = "breaker" /\ GuardNext /\ UNCHANGED <<proofVars, sharesVars, shardVars, identityVars>>
     \/ focus = "statistics" /\ Learn /\ UNCHANGED <<proofVars, sharesVars, shardVars, identityVars>>
     \/ /\ focus = "reveal" /\ RevealNext
        /\ UNCHANGED <<zkVars, validityVars, breakerLibVars, sharesVars, shardVars, identityVars>>
     \/ /\ focus = "zk" /\ ZkNext
        /\ UNCHANGED <<secrets, validityVars, breakerLibVars, sharesVars, shardVars, identityVars>>
     \/ /\ focus = "validity" /\ ValidityNext
        /\ UNCHANGED <<secrets, zkVars, breakerLibVars, sharesVars, shardVars, identityVars>>
     \/ /\ focus = "fractions" /\ FractionsNext
        /\ UNCHANGED <<splitVars, breakerLibVars, proofVars, shardVars, identityVars>>
     \/ /\ focus = "splits" /\ SplitNext
        /\ UNCHANGED <<fractions, breakerLibVars, proofVars, shardVars, identityVars>>
     \/ /\ \/ focus = "sharding" /\ ShardingNext
           \/ focus = "routing" /\ RoutingNext
           \/ focus = "verkle" /\ VerkleNext
        /\ UNCHANGED <<breakerLibVars, proofVars, sharesVars, identityVars>>
     \/ /\ \/ focus = "dids" /\ DidNext
           \/ focus = "scores" /\ RepTokenNext
           \/ focus = "nfts" /\ NftNext
           \/ focus = "recovery" /\ RecoveryNext
           \/ focus = "disputes" /\ DisputeNext
        /\ UNCHANGED <<breakerLibVars, proofVars, sharesVars, shardVars>>
  /\ UNCHANGED <<wallet, books, channelVars, rollupVars>>

Next ==
  /\ calls < MaxCalls[focus]
  /\ calls' = calls + 1
  /\ UNCHANGED focus
  /\ \/ /\ Paying \/ Recording
        /\ UNCHANGED <<adminVars, breaker, drift, now>>
        /\ Bounded'
     \/ /\ Tick
        /\ UNCHANGED <<breakerLibVars, channelVars, rollupVars, proofVars, sharesVars, shardVars,
                       identityVars>>

Spec == Init /\ [][Next]_vars

-----------------------------------------------------------------------------
\* The jar holds what the creators are owed and what open and disputed channels
\* hold: no close, dispute or settlement pays out of another's.  (The rollup credits
\* balances that no tokens stand behind.)
ChannelsAccounted ==
  focus # "rollup" => \A t \in Token : wallet[t][Jar] = Recorded(t) + ChannelEscrow(t)

\* The enhanced breaker counts every tip it let through, and its halts and scores
\* stay within their bounds, whatever resets and new configurations come between.
BreakerSound ==
  /\ WindowsCount
  /\ VolumeBounded
  /\ HaltsBounded
  /\ StatsWithinSeen

\* What is done once is done once, and when it is due: channel tips, requests of
\* relayers, rollup batches, reveals, nullifiers and aggregated proofs.
OnceAndInTime ==
  /\ ChannelsAccounted
  /\ TipEntriesAddUp
  /\ MetaOnce
  /\ focus = "rollup" => RollupCreditsOnce
  /\ PhasesApart
  /\ NullifierOnce
  /\ AggregatesSound

\* The part of the next property that LegacyRecordsProofs proves.
KeptInStep ==
  /\ FractionsSound
  /\ SomeShardAccepts
  /\ ScoresAddUp
  /\ ChildrenAgree
  /\ RecoveredOnApproval

\* What is kept in two places agrees: shares with their supply, splits with what came
\* in, batches with their calls, trees with their proofs, scores with their history,
\* parents with children, recoveries with approvals, roles with their lists.
RecordsAgree ==
  /\ KeptInStep
  /\ SplitsWithin
  /\ BatchesAgree
  /\ TreeProofsSound
  /\ RolesListed

\* What is over stays over: a channel never comes back from its close, a claim is only
\* answered by a newer one, and a credential that no longer verifies never does again.
OneWay ==
  /\ ChannelsOneWay
  /\ CredentialsOneWay

-----------------------------------------------------------------------------
\* The inductive invariant behind the theorems of LegacyRecordsProofs.
CreditsRolledUp ==
  \A c \in Party, t \in Token :
    books.total[c][t] = SumFunction([k \in DOMAIN submissions |-> CreditOf(submissions[k], c, t)])
RecordsInv ==
  /\ LedgerTypeOK
  /\ ChannelsAccounted
  /\ ChannelsInv
  /\ MetaInv
  /\ RollupInv
  /\ focus = "rollup" => CreditsRolledUp
  /\ RevealInv
  /\ ZkInv
  /\ ValidityInv
  /\ CredentialsInv
=============================================================================
