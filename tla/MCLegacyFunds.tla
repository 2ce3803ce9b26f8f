--------------------------- MODULE MCLegacyFunds ----------------------------
(* Small instances of the legacy tip jar. *)
EXTENDS LegacyFunds

CONSTANTS p, q, jar, gold, silver, bronze, high

MCPolicy ==
  [min |-> 20, max |-> 40, premium_bps |-> 1, payout_bps |-> 20, tip_premium_bps |-> 1]
Rates == [Low |-> 1, Normal |-> 1, High |-> 2]
MCConfig ==
  [fee_bps |-> 1, min_tip |-> 20, whitelist |-> {gold},
   breaker |-> [max_single |-> 40, max_volume |-> 60, window |-> 2, cooldown |-> 1, enabled |-> TRUE],
   credit |-> [ratio |-> 5, rate |-> 5, unit |-> 20, min_total |-> 19, share |-> 5, enabled |-> TRUE],
   insurance |-> MCPolicy, ins_enabled |-> TRUE]
MCSupply == (p :> 0) @@ (q :> 60)
Calls == [access |-> 5, tips |-> 4, admin |-> 5, limits |-> 6, delegation |-> 5, multisig |-> 7, vesting |-> 5,
          timelocks |-> 4, streams |-> 6, puzzles |-> 4, auctions |-> 5, subscriptions |-> 5, insurance |-> 6]
MCConfigs == {MCConfig}
MCBreakers == {[MCConfig.breaker EXCEPT !.enabled = FALSE],
               [MCConfig.breaker EXCEPT !.max_volume = 40]}
MCTerms == {[MCConfig.credit EXCEPT !.enabled = FALSE], [MCConfig.credit EXCEPT !.rate = 0]}
MCConditions == {[kind |-> "TimeAfter", time |-> 2], [kind |-> "OffchainApproved"]}
MCOps == {[creator |-> p, token |-> gold, amount |-> 20], [creator |-> q, token |-> gold, amount |-> 40],
          [creator |-> q, token |-> gold, amount |-> 0], [creator |-> q, token |-> silver, amount |-> 20]}
MCLimits == {<<40, 0>>, <<0, 2>>}
MCGrants == {<<40, 1>>, <<20, 2>>}
MCSignatures == {[threshold |-> 20, required |-> 2, expiry |-> 1, signers |-> {p, q}],
                 [threshold |-> 0, required |-> 1, expiry |-> 1, signers |-> {q}]}
MCPolicies == {[MCPolicy EXCEPT !.premium_bps = 0], [MCPolicy EXCEPT !.payout_bps = 10]}
=============================================================================
