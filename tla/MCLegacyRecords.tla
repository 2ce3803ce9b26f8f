-------------------------- MODULE MCLegacyRecords ---------------------------
(* Small instances of the legacy tip jar's libraries. *)
EXTENDS LegacyRecords

CONSTANTS p, q, jar, gold

MCConfigs == {[whitelist |-> {gold}]}
MCSupply == (p :> 40) @@ (q :> 40)
Calls == [breaker |-> 5, statistics |-> 6, payment |-> 4, tips |-> 4, meta |-> 4, rollup |-> 6, reveal |-> 7, zk |-> 6, validity |-> 5, fractions |-> 6, splits |-> 6, sharding |-> 6, routing |-> 3, verkle |-> 7, dids |-> 5, scores |-> 7, nfts |-> 7, recovery |-> 6, disputes |-> 5]
FractionCalls == [fractions |-> 4]
BreakerCalls == [breaker |-> 3]
MCSpans == [OneMinute |-> 1, FiveMinutes |-> 2, OneHour |-> 3, TwentyFourHours |-> 4]
MCBreaker ==
  [max_single |-> 20, max_tips |-> 4, confidence |-> 15, base |-> 1, max |-> 3, backoff |-> 30,
   enabled |-> TRUE, emergency |-> FALSE, maintenance |-> FALSE,
   threshold |-> [OneMinute |-> 20, FiveMinutes |-> 30, OneHour |-> 40, TwentyFourHours |-> 45]]
MCBreakers ==
  {[MCBreaker EXCEPT !.base = 2, !.max_single = 7,
                     !.threshold = [w \in TimeWindow |-> IF w = "OneMinute" THEN 7 ELSE 20]],
   [MCBreaker EXCEPT !.enabled = FALSE, !.backoff = None],
   [MCBreaker EXCEPT !.max = 0]}
MCPhases == {<<1, 1>>, <<2, 1>>}
MCSplits ==
  LET To(c, n) == [recipient |-> c, bps |-> n]
  IN  {<<To(p, 13), To(q, 7)>>, <<To(q, 20)>>, <<To(p, 10), To(q, 9)>>}
MCSigned == {-20, 7, 20}
MCHash == (p :> 4) @@ (q :> 5)
=============================================================================
