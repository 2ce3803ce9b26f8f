-------------------------- MODULE MCLegacyMarkets ---------------------------
(* Small instances of the legacy tip jar's markets. *)
EXTENDS LegacyMarkets

CONSTANTS p, q, jar, gold, silver

MCConfig ==
  [fee_bps |-> 0, min_tip |-> 1, whitelist |-> {gold, silver}, breaker |-> None, credit |-> None,
   insurance |-> None, ins_enabled |-> FALSE]
MCConfigs == {MCConfig}
MCSupply == (p :> 40) @@ (q :> 40)
Calls == [amm |-> 4, prediction |-> 6, futures |-> 7, stops |-> 5, makers |-> 4, curves |-> 5, mining |-> 5, quadratic |-> 7, retro |-> 8, funds |-> 6, twap |-> 8, volatility |-> 7]
MCMargins == {[initial |-> 10, maintenance |-> 5, penalty |-> 2], [initial |-> 20, maintenance |-> 10, penalty |-> 2]}
MCCurves ==
  {[kind |-> "Linear", base |-> 10, slope |-> 2, k |-> 0, midpoint |-> 0, max |-> 0, buy_fee |-> 2, sell_fee |-> 1],
   [kind |-> "Exponential", base |-> 10, slope |-> 1, k |-> 0, midpoint |-> 0, max |-> 0, buy_fee |-> 0, sell_fee |-> 2],
   [kind |-> "Sigmoid", base |-> 10, slope |-> 0, k |-> 5, midpoint |-> 10, max |-> 20, buy_fee |-> 0, sell_fee |-> 0]}
MCPrograms == {[rate |-> 10, cliff |-> 1, duration |-> 2, end |-> 4], [rate |-> 20, cliff |-> 0, duration |-> 2, end |-> 0]}
MCWithdrawals == {-7, 0, 7, 20}
MCRetroTimes == {<<0, 1>>}
MCTips == {[sender |-> q, creator |-> p, token |-> gold, amount |-> 20],
           [sender |-> p, creator |-> q, token |-> silver, amount |-> 7]}
MCCriteria == {[tips |-> 10, count |-> 4, votes |-> 6]}
MCBaskets == {(p :> 10) @@ (q :> 10), (p :> 7) @@ (q :> 13)}
=============================================================================
