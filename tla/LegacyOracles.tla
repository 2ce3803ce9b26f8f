---------------------------- MODULE LegacyOracles ---------------------------
(***************************************************************************)
(* The price feeds of the legacy tip jar: time-weighted average prices and *)
(* volatility indices, each over a ring of observations that wraps.        *)
(***************************************************************************)
EXTENDS LegacyLedger, SequencesExt

CONSTANTS
  FeedPrices,     \* prices and amounts that are observed
  Windows,        \* window_seconds of oracles
  MinWindow, MaxWindow,
  Rings,          \* max_observations of oracles, window_size of indices
  MinRing, MaxRing,
  Intervals,      \* min_observation_interval the admin sets
  VolUnit         \* PRECISION of volatility

VARIABLES
  oracles,        \* DataKey::TwapOracle and TwapObservation; seen is history
  volConfig,      \* DataKey::VolConfig
  indices         \* DataKey::VolIndex, VolObservation, VolSnapshot; seen is history

oracleVars == <<oracles, volConfig, indices>>

OraclesInit ==
  /\ oracles = <<>>
  /\ volConfig = [ring |-> MinRing, interval |-> 1]
  /\ indices = <<>>

\* The slots of a ring, newest first.  Each of them is filled (OraclesInv): the code's test
\* for one that is not never fails.
ring_index_back(at, offset, size) == (at + size - (offset % size)) % size
Newest(o) == [k \in 1 .. Smaller(o.count, o.size) |-> o.slots[ring_index_back(o.at, k - 1, o.size)]]

-----------------------------------------------------------------------------
twap_create_oracle(p, w, size, x) ==
  /\ require_not_paused
  /\ MinWindow <= w /\ w <= MaxWindow
  /\ MinRing <= size /\ size <= MaxRing
  /\ oracles' = Append(oracles, [updater |-> p, window |-> w, size |-> size, at |-> 0, count |-> 1,
       slots |-> [k \in 0 .. size - 1 |-> IF k = 0 THEN [time |-> now, sum |-> 0, price |-> x] ELSE None],
       last |-> x, updated |-> now, active |-> TRUE, seen |-> <<[time |-> now, price |-> x]>>])
  /\ UNCHANGED <<wallet, volConfig, indices>>

\* Mutant: the time since the last observation is weighted with the new price.
twap_record_price_late(p, i, x) ==
  LET o == oracles[i]
      prev == o.slots[o.at]
      at == (o.at + 1) % o.size
  IN  /\ require_not_paused
      /\ o.active
      /\ o.updater = p
      /\ now >= o.updated + 1
      /\ oracles' = [oracles EXCEPT ![i] =
           [o EXCEPT !.slots[at] = [time |-> now, sum |-> prev.sum + x * (now - prev.time), price |-> x],
                     !.at = at, !.count = @ + 1, !.last = x, !.updated = now,
                     !.seen = Append(@, [time |-> now, price |-> x])]]
      /\ UNCHANGED <<wallet, volConfig, indices>>

twap_record_price(p, i, x) ==
  LET o == oracles[i]
      prev == o.slots[o.at]
      at == (o.at + 1) % o.size
  IN  /\ require_not_paused
      /\ o.active
      /\ o.updater = p
      /\ now >= o.updated + 1
      /\ oracles' = [oracles EXCEPT ![i] =
           [o EXCEPT !.slots[at] = [time |-> now, sum |-> prev.sum + prev.price * (now - prev.time), price |-> x],
                     !.at = at, !.count = @ + 1, !.last = x, !.updated = now,
                     !.seen = Append(@, [time |-> now, price |-> x])]]
      /\ UNCHANGED <<wallet, volConfig, indices>>

\* How many of the newest observations lie in the window before the newest.
collect_window(o, w) ==
  LET cutoff == Larger(Newest(o)[1].time - w, 0)
  IN  Max({n \in DOMAIN Newest(o) : \A k \in 1 .. n : Newest(o)[k].time >= cutoff})

get_twap_with_window(o, w) ==
  LET n == collect_window(o, w)
      new == Newest(o)[1]
      old == Newest(o)[n]
  IN  IF n < 2 \/ new.time = old.time THEN o.last
      ELSE (new.sum - old.sum) \div (new.time - old.time)
get_twap(o) == get_twap_with_window(o, o.window)

twap_update_config(p, i, w, q) ==
  /\ require_not_paused
  /\ oracles[i].updater = p
  /\ MinWindow <= w /\ w <= MaxWindow
  /\ oracles' = [oracles EXCEPT ![i].window = w, ![i].updater = q]
  /\ UNCHANGED <<wallet, volConfig, indices>>

twap_deactivate(p, i) ==
  /\ require_not_paused
  /\ oracles[i].updater = p
  /\ oracles[i].active
  /\ oracles' = [oracles EXCEPT ![i].active = FALSE]
  /\ UNCHANGED <<wallet, volConfig, indices>>

-----------------------------------------------------------------------------
set_volatility_config(size, n) ==
  /\ MinRing <= size /\ size <= MaxRing
  /\ volConfig' = [ring |-> size, interval |-> n]
  /\ UNCHANGED <<wallet, oracles, indices>>

create_volatility_index(p, t, ring) ==
  LET size == IF ring = 0 THEN volConfig.ring ELSE ring
  IN  /\ MinRing <= size /\ size <= MaxRing
      /\ Whitelisted(t)
      /\ indices' = Append(indices, [creator |-> p, size |-> size, at |-> 0, count |-> 0,
                                     slots |-> [k \in 0 .. size - 1 |-> None],
                                     mean |-> 0, variance |-> 0, volatility |-> 0, updated |-> now,
                                     active |-> TRUE, snapshots |-> <<>>, seen |-> <<>>])
      /\ UNCHANGED <<wallet, oracles, volConfig>>

\* The mean, and the mean of the squares of the distances to it, both scaled.
compute_mean_variance(s) ==
  LET n == Len(s)
      mean == (SumFunction(s) * VolUnit) \div n
      Square(x) == LET d == x * VolUnit - mean IN Quotient(Quotient(d, VolUnit) * d, VolUnit)
  IN  IF n < 2 THEN <<s[1] * VolUnit, 0>>
      ELSE <<mean, SumFunction([k \in DOMAIN s |-> Square(s[k])]) \div n>>

variance_to_volatility_bps(mean, variance) ==
  IF mean <= 0 \/ variance <= 0 THEN 0 ELSE (isqrt(variance) * Bps) \div mean

WriteSlot(d) == IF d.count = 0 THEN 0 ELSE (d.at + 1) % d.size

\* Anybody may record.
record_volatility_observation(i, x) ==
  LET at == WriteSlot(indices[i])
      d == [indices[i] EXCEPT !.slots[at] = x, !.at = at, !.count = @ + 1, !.updated = now]
      mv == compute_mean_variance(Reverse(Newest(d)))
      vol == variance_to_volatility_bps(mv[1], mv[2])
  IN  /\ d.active
      /\ now >= indices[i].updated + volConfig.interval
      /\ indices' = [indices EXCEPT ![i] =
           [d EXCEPT !.mean = mv[1], !.variance = mv[2], !.volatility = vol,
                     !.snapshots = Append(@, [time |-> now, volatility |-> vol]),
                     !.seen = Append(@, x)]]
      /\ UNCHANGED <<wallet, oracles, volConfig>>

deactivate_volatility_index(p, i) ==
  /\ indices[i].creator = p
  /\ indices[i].active
  /\ indices' = [indices EXCEPT ![i].active = FALSE]
  /\ UNCHANGED <<wallet, oracles, volConfig>>

\* The newest snapshots of a span of time; the search stops at the first older one.
get_snapshots_in_range(d, from, to, limit) ==
  LET stop == {k \in DOMAIN d.snapshots : d.snapshots[k].time < from}
      hit == {k \in DOMAIN d.snapshots : /\ \A e \in stop : k > e
                                         /\ d.snapshots[k].time <= to}
  IN  {k \in hit : Cardinality({e \in hit : e >= k}) <= limit}

TwapNext ==
  \E p \in Party :
    \/ \E w \in Windows, size \in Rings, x \in FeedPrices : twap_create_oracle(p, w, size, x)
    \/ \E i \in DOMAIN oracles :
         \/ \E x \in FeedPrices : twap_record_price(p, i, x)
         \/ \E w \in Windows, q \in Party : twap_update_config(p, i, w, q)
         \/ twap_deactivate(p, i)
VolatilityNext ==
  \/ \E size \in Rings, n \in Intervals : set_volatility_config(size, n)
  \/ \E p \in Party, t \in Token, size \in Rings \cup {0} : create_volatility_index(p, t, size)
  \/ \E p \in Party, i \in DOMAIN indices :
       \/ \E x \in FeedPrices : record_volatility_observation(i, x)
       \/ deactivate_volatility_index(p, i)

\* The prices in force, second by second, and their average over the observations
\* that the window, and the ring, reach back to.
PriceAt(seen, s) == seen[Max({k \in DOMAIN seen : seen[k].time <= s})].price
PricesBetween(seen, from, to) == SumFunction([s \in from .. to - 1 |-> PriceAt(seen, s)])
AverageInForce(o) ==
  LET n == Len(o.seen)
      to == o.seen[n].time
      first == Min({k \in 1 .. n : k > n - o.size /\ o.seen[k].time >= to - o.window})
      from == o.seen[first].time
  IN  IF first = n THEN o.seen[n].price
      ELSE PricesBetween(o.seen, from, to) \div (to - from)

\* The average that the ring yields is the one of the prices that were in force,
\* second by second, over the observations it reaches back to: at most the window,
\* at most the ring, however often the ring wrapped.
TwapIsAverage == \A i \in DOMAIN oracles : get_twap(oracles[i]) = AverageInForce(oracles[i])

\* The latest observations, as many as the window holds.
Latest(d) ==
  LET n == Len(d.seen) IN SubSeq(d.seen, n - Smaller(n, d.size) + 1, n)
\* An index describes exactly its latest observations, as many as its window holds,
\* and a search of its snapshots by time misses none.
IndexIsLatest ==
  \A i \in DOMAIN indices :
    LET d == indices[i]
        n == Len(d.seen)
    IN  /\ n > 0 => d.mean = (SumFunction(Latest(d)) * VolUnit) \div Smaller(n, d.size)
        /\ Reverse(Newest(d)) = Latest(d)
        /\ \A from, to \in 1 .. MaxTime :
             get_snapshots_in_range(d, from, to, n) =
               {e \in DOMAIN d.snapshots : from <= d.snapshots[e].time /\ d.snapshots[e].time <= to}

-----------------------------------------------------------------------------
\* The facts that every call keeps.
ASSUME OraclesAssumption ==
  /\ FeedPrices \subseteq Nat \ {0}
  /\ Windows \subseteq Nat
  /\ Rings \subseteq Nat
  /\ Intervals \subseteq Nat
  /\ MinRing \in Nat \ {0} /\ MaxRing \in Nat /\ MinRing <= MaxRing
  /\ MinWindow \in Nat /\ MaxWindow \in Nat
  /\ VolUnit \in Nat \ {0}

\* What the variables range over: rings of m slots, some not written yet.
Ring(m, S) == [0 .. m - 1 -> S \cup {None}]
Observation == [time : Nat, sum : Int, price : Int]
Oracle(m) ==
  [updater : Party, window : Nat, size : {m}, at : 0 .. m - 1, count : Nat, slots : Ring(m, Observation),
   last : Int, updated : Nat, active : BOOLEAN, seen : Seq([time : Nat, price : Int])]
VolatilityIndex(m) ==
  [creator : Party, size : {m}, at : 0 .. m - 1, count : Nat, slots : Ring(m, Int), mean : Int,
   variance : Int, volatility : Int, updated : Nat, active : BOOLEAN,
   snapshots : Seq([time : Nat, volatility : Int]), seen : Seq(Int)]

\* The slot that was written j writes before slot at.
Back(at, j, size) == IF j <= at THEN at - j ELSE at + size - j
\* A slot holds what was observed, and the newest sum less its own is that of the
\* prices in force since.
SlotHolds(o, j) ==
  LET newest == o.slots[o.at]
      slot == o.slots[Back(o.at, j, o.size)]
      e == o.seen[Len(o.seen) - j]
  IN  /\ slot \in Observation
      /\ slot.time = e.time /\ slot.price = e.price
      /\ newest.sum - slot.sum = PricesBetween(o.seen, e.time, o.updated)
OracleSound(o) ==
  /\ o.size \in Nat \ {0} /\ o \in Oracle(o.size)
  /\ o.count = Len(o.seen) /\ o.count > 0
  /\ o.last = o.seen[o.count].price
  /\ o.updated = o.seen[o.count].time
  /\ \A j, k \in 1 .. o.count : j < k => o.seen[j].time < o.seen[k].time
  /\ \A j \in 0 .. Smaller(o.count, o.size) - 1 : SlotHolds(o, j)
IndexSound(d) ==
  /\ d.size \in Nat \ {0} /\ d \in VolatilityIndex(d.size)
  /\ d.count = Len(d.seen) /\ d.count = Len(d.snapshots)
  /\ \A j \in 0 .. Smaller(d.count, d.size) - 1 :
       d.slots[Back(d.at, j, d.size)] = d.seen[d.count - j]
  /\ d.count > 0 => d.mean = (SumFunction(Latest(d)) * VolUnit) \div Smaller(d.count, d.size)
  /\ \A j \in 1 .. d.count : d.snapshots[j].time <= d.updated
  /\ \A j, k \in 1 .. d.count : j < k => d.snapshots[j].time <= d.snapshots[k].time
OraclesInv ==
  /\ oracles \in Seq(Range(oracles))
  /\ \A i \in DOMAIN oracles : OracleSound(oracles[i]) /\ oracles[i].updated <= now
  /\ indices \in Seq(Range(indices))
  /\ \A i \in DOMAIN indices : IndexSound(indices[i]) /\ indices[i].updated <= now
  /\ volConfig \in [ring : Nat \ {0}, interval : Nat]
=============================================================================
