\* Two buys and one sell in one call of match_orders.
SPECIFICATION DerivSpec
CONSTANTS
  Holder = {ann, bob}
  Kinds = {call}
  Strikes = {1}
  Quantities = {0, 1}
  Expiries = {1}
  Funds = 3
  I128Max = 15
  MaxLedgerTime = 1
  MaxDerivs = 3
CHECK_DEADLOCK FALSE
INVARIANT
  MatchedOnce
