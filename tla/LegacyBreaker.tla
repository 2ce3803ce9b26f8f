---------------------------- MODULE LegacyBreaker ---------------------------
(***************************************************************************)
(* The enhanced circuit breaker of the legacy tip jar, circuit_breaker.rs: *)
(* volume windows, rate limit, anomaly scores, halts with a backed-off     *)
(* cooldown, and the cache its guard works on.                             *)
(*                                                                         *)
(* No entry point of the contract, and no test, calls the guard.  It       *)
(* returns its refusal as a value: what it stored stays.  The functions    *)
(* that take the state from their caller are modelled with a caller that   *)
(* reads the cached state and stores it back.                              *)
(***************************************************************************)
EXTENDS LegacyLedger, SequencesExt

CONSTANTS
  Spans,            \* the length of each TimeWindow
  DefaultBreaker,   \* EnhancedCircuitBreakerConfig::default_config()
  BreakerConfigs,   \* the configurations the admin tries
  Limits,           \* limits the admin tries for a creator or a token
  Forget,           \* the time after which the backoff starts over: 3600
  StatusInterval,   \* DEFAULT_STATUS_INTERVAL
  Severities,       \* severities of manual halts
  Rates,            \* observed rates and numbers of senders
  Full              \* the whole of a score: 10_000

VARIABLES
  settings,         \* entry: the contract's own key; stored: the library's; cached: c_cfg
                    \* with c_valid; creators, tokens: the limits
  halt,             \* c_state
  trail,            \* aud_ctr and lst_stat
  stats,            \* an AnomalyDetectionState and its HistoricalStats
  past              \* history: tips accepted since the state was last cleared, and
                    \* by how much the present halt was extended

breakerLibVars == <<settings, halt, trail, stats, past>>

TimeWindow == {"OneMinute", "FiveMinutes", "OneHour", "TwentyFourHours"}
TriggerSeverity == {"None", "Low", "Medium", "High", "Critical"}
WindowSeverity ==
  [OneMinute |-> "Critical", FiveMinutes |-> "High", OneHour |-> "Medium", TwentyFourHours |-> "Low"]

EmptyWindow(t) == [start |-> t, volume |-> 0, tips |-> 0, largest |-> 0]
new(t) ==
  [halted_until |-> 0, reason |-> "None", severity |-> "None",
   windows |-> [w \in TimeWindow |-> EmptyWindow(t)], rate |-> [start |-> t, tips |-> 0],
   triggers |-> 0, last |-> 0, halts |-> 0, duration |-> 0]
\* initialize_anomaly_state, and the samples it has seen as history.
NoStats == [average |-> 0, deviation |-> 0, rate |-> 0, senders |-> 0, samples |-> 0, score |-> 0,
            seen |-> <<>>, rates |-> {}]

BreakerInit ==
  /\ settings = [entry |-> None, stored |-> None, cached |-> None,
                 creators |-> PerParty(None), tokens |-> PerToken(None)]
  /\ halt = None
  /\ trail = [audit |-> 0, status |-> 0]
  /\ stats = NoStats
  /\ past = [tips |-> <<>>, extended |-> 0]

validate(c) ==
  LET v == c.threshold
  IN  /\ c.max_single > 0
      /\ 0 < v["OneMinute"] /\ v["OneMinute"] <= v["FiveMinutes"]
      /\ v["FiveMinutes"] <= v["OneHour"] /\ v["OneHour"] <= v["TwentyFourHours"]
      /\ c.max_tips # 0
      /\ c.confidence <= Full
      /\ c.base # 0 /\ c.base <= c.max
      /\ c.backoff # None => c.backoff > Bps

\* What the variables range over.
Config ==
  [max_single : Int, max_tips : Nat, confidence : Nat, base : Nat, max : Nat,
   backoff : {None} \cup Nat, enabled : BOOLEAN, emergency : BOOLEAN, maintenance : BOOLEAN,
   threshold : [TimeWindow -> Int]]
Checked == {c \in Config : validate(c)}

Tip == [time : Nat, amount : Nat]
History == [tips : Seq(Tip), extended : Nat]
VolumeWindow == [start : Nat, volume : Nat, tips : Nat, largest : Nat]
\* The types a halt can have: the others are never triggered.
TriggerType == {"None", "SingleTipSpike", "RateLimit", "Manual"} \cup TimeWindow
State ==
  [halted_until : Nat, reason : TriggerType, severity : TriggerSeverity,
   windows : [TimeWindow -> VolumeWindow], rate : [start : Nat, tips : Nat],
   triggers : Nat, last : Nat, halts : Nat, duration : Nat]
Trigger == [reason : TriggerType, severity : TriggerSeverity]
Settings ==
  [entry : {None} \cup Checked, stored : {None} \cup Checked, cached : {None} \cup Checked,
   creators : [Party -> {None} \cup Int], tokens : [Token -> {None} \cup Int]]
Stats ==
  [average : Nat, deviation : Nat, rate : Nat, senders : Nat, samples : Nat, score : 0 .. Full,
   seen : Seq(Nat), rates : SUBSET Nat]

ASSUME BreakerAssumption ==
  /\ Spans \in [TimeWindow -> Nat \ {0}]
  /\ DefaultBreaker \in Checked
  /\ BreakerConfigs \subseteq Config
  /\ Limits \subseteq Int
  /\ Severities \subseteq TriggerSeverity
  /\ Rates \subseteq Nat
  /\ Full \in Nat /\ Full >= 2
  /\ None \notin Config \cup State \cup Trigger

-----------------------------------------------------------------------------
\* Cooldowns.
SeverityBase(c, severity) ==
  CASE severity \in {"None", "Low"} -> c.base \div 2
    [] severity = "Medium" -> c.base
    [] severity = "High" -> c.base * 2
    [] OTHER -> c.base * 4
Backoff(x, multiplier, n) ==
  LET grown[k \in 0 .. 5] == IF k = 0 THEN x ELSE (grown[k - 1] * multiplier) \div Bps
  IN  grown[Smaller(n, 5)]

calculate_cooldown(c, severity, count) ==
  LET x == SeverityBase(c, severity)
      longer == IF c.backoff # None /\ count > 0 THEN Backoff(x, c.backoff, count) ELSE x
  IN  Larger(c.base, Smaller(c.max, longer))

apply_exponential_backoff(x, c, count, last, t) ==
  IF t - last > Forget THEN x ELSE Backoff(x, c.backoff, count)
enforce_cooldown_bounds(x, c) == Smaller(c.max, Larger(c.base, x))
calculate_cooldown_period(c, severity, count, last, t) ==
  LET x == SeverityBase(c, severity)
  IN  enforce_cooldown_bounds(
        IF c.backoff # None /\ count > 0 THEN apply_exponential_backoff(x, c, count, last, t) ELSE x, c)

\* Volume windows.
update_volume_window(v, x, t, span) ==
  IF t >= v.start + span THEN [start |-> t, volume |-> x, tips |-> 1, largest |-> x]
  ELSE [v EXCEPT !.volume = @ + x, !.tips = @ + 1, !.largest = Larger(@, x)]
\* Mutant: a window that is over keeps its volume.
update_all_windows_open(s, x, t) ==
  [s EXCEPT !.windows = [w \in TimeWindow |->
     [update_volume_window(s.windows[w], x, t, Spans[w]) EXCEPT !.volume = s.windows[w].volume + x]]]
update_all_windows(s, x, t) ==
  [s EXCEPT !.windows = [w \in TimeWindow |-> update_volume_window(s.windows[w], x, t, Spans[w])]]
check_volume_threshold(v, threshold, t, span) == t < v.start + span /\ v.volume > threshold
reset_volume_counters(s, t) == [s EXCEPT !.windows = [w \in TimeWindow |-> EmptyWindow(t)]]

\* The first window over its threshold, shortest first; None when there is none.
ShortestFirst == <<"OneMinute", "FiveMinutes", "OneHour", "TwentyFourHours">>
check_all_volume_thresholds(s, c, t) ==
  LET over == {k \in 1 .. 4 : LET w == ShortestFirst[k]
                              IN  check_volume_threshold(s.windows[w], c.threshold[w], t, Spans[w])}
      w == ShortestFirst[Min(over)]
  IN  IF over = {} THEN None ELSE [reason |-> w, severity |-> WindowSeverity[w]]

\* Rate limit.
update_rate_limit_state(s, t) ==
  [s EXCEPT !.rate = IF t >= @.start + Spans["OneMinute"] THEN [start |-> t, tips |-> 1]
                     ELSE [start |-> @.start, tips |-> @.tips + 1]]
check_global_rate_limit(s, c, t) ==
  t < s.rate.start + Spans["OneMinute"] /\ s.rate.tips > c.max_tips
reset_rate_limit_state(s, t) == [s EXCEPT !.rate = [start |-> t, tips |-> 0]]

-----------------------------------------------------------------------------
\* Halts.
is_halted(s, t) == s.halted_until > t
activate_halt(s, c, reason, severity, t) ==
  LET cooldown == calculate_cooldown(c, severity, s.triggers)
  IN  [s EXCEPT !.halted_until = t + cooldown, !.reason = reason, !.severity = severity,
                !.triggers = @ + 1, !.last = t, !.halts = @ + 1, !.duration = @ + cooldown]
check_automatic_recovery(s, t) == s.halted_until > 0 /\ t >= s.halted_until
perform_automatic_recovery(s, t) ==
  reset_rate_limit_state(reset_volume_counters(
    [s EXCEPT !.halted_until = 0, !.reason = "None", !.severity = "None"], t), t)
should_block_operations(s, c, t) == c.enabled /\ (c.maintenance \/ is_halted(s, t))

validate_state_integrity(s) ==
  /\ s.halted_until > 0 => s.reason # "None"
  /\ s.windows["OneMinute"].volume >= 0

\* The cache.  Nothing that stores a configuration marks the cache invalid.
get_cached_config == IF settings.cached # None THEN settings.cached ELSE settings.stored
get_cached_state == IF halt # None THEN halt ELSE new(now)

check_and_emit_status(s) ==
  IF is_halted(s, now) /\ now >= trail.status + StatusInterval THEN [trail EXCEPT !.status = now]
  ELSE trail
record_audit_entry == [trail EXCEPT !.audit = @ + 1]

\* A state to go on with, and what triggered a halt or None.  The anomaly state is
\* never present, so lazy_anomaly_check finds nothing.
optimized_check_sequence(s, c, x) ==
  LET counted == update_rate_limit_state(s, now)
  IN  IF is_halted(s, now) THEN [state |-> s, hit |-> [reason |-> s.reason, severity |-> s.severity]]
      ELSE IF x > c.max_single
      THEN [state |-> s, hit |-> [reason |-> "SingleTipSpike", severity |-> "High"]]
      ELSE IF check_global_rate_limit(counted, c, now)
      THEN [state |-> counted, hit |-> [reason |-> "RateLimit", severity |-> "Medium"]]
      ELSE [state |-> counted, hit |-> check_all_volume_thresholds(counted, c, now)]
\* Counts the tip towards the rate limit a second time.
batch_state_updates(s, x) == update_rate_limit_state(update_all_windows(s, x, now), now)

\* guard::check_circuit_breaker.
guard(x) ==
  LET c == get_cached_config
      stale == get_cached_state
      recovers == check_automatic_recovery(stale, now)
      s == IF recovers THEN perform_automatic_recovery(stale, now) ELSE stale
      seen == IF recovers THEN [tips |-> <<>>, extended |-> 0] ELSE past
      checked == optimized_check_sequence(s, c, x)
  IN  /\ c # None
      /\ settings' = [settings EXCEPT !.cached = c]
      /\ UNCHANGED stats
      /\ \/ /\ ~c.enabled
            /\ UNCHANGED <<halt, trail, past>>
         \/ /\ c.enabled /\ should_block_operations(s, c, now)
            /\ trail' = check_and_emit_status(s)
            /\ UNCHANGED <<halt, past>>
         \/ /\ c.enabled /\ ~should_block_operations(s, c, now) /\ checked.hit # None
            /\ halt' = activate_halt(checked.state, c, checked.hit.reason, checked.hit.severity, now)
            /\ trail' = record_audit_entry
            /\ past' = [seen EXCEPT !.extended = 0]
         \/ /\ c.enabled /\ ~should_block_operations(s, c, now) /\ checked.hit = None
            /\ halt' = batch_state_updates(checked.state, x)
            /\ past' = [seen EXCEPT !.tips = Append(@, [time |-> now, amount |-> x])]
            /\ UNCHANGED trail
initialize_circuit_breaker ==
  /\ settings' = [settings EXCEPT !.cached = DefaultBreaker]
  /\ halt' = new(now)
  /\ past' = [tips |-> <<>>, extended |-> 0]
  /\ UNCHANGED <<trail, stats>>

-----------------------------------------------------------------------------
\* The administration of the library, and the contract's entry points, which store
\* under keys of their own.
set_enhanced_config(c) ==
  /\ validate(c)
  /\ settings' = [settings EXCEPT !.stored = c]
  /\ UNCHANGED <<halt, trail, stats, past>>
set_enhanced_cb_config(c) ==
  /\ validate(c)
  /\ settings' = [settings EXCEPT !.entry = c]
  /\ UNCHANGED <<halt, trail, stats, past>>
init_enhanced_cb ==
  /\ settings' = [settings EXCEPT !.entry = IF @ # None THEN @ ELSE DefaultBreaker]
  /\ UNCHANGED <<halt, trail, stats, past>>
set_creator_limit(p, x) ==
  /\ x > 0
  /\ settings' = [settings EXCEPT !.creators[p] = x]
  /\ UNCHANGED <<halt, trail, stats, past>>
remove_creator_limit(p) ==
  /\ settings' = [settings EXCEPT !.creators[p] = None]
  /\ UNCHANGED <<halt, trail, stats, past>>
set_token_limit(t, x) ==
  /\ x > 0
  /\ settings' = [settings EXCEPT !.tokens[t] = x]
  /\ UNCHANGED <<halt, trail, stats, past>>
Mode(field, b) ==
  /\ settings.stored # None
  /\ settings' = [settings EXCEPT !.stored[field] = b]
  /\ UNCHANGED <<halt, trail, stats, past>>
enable_emergency_mode == Mode("emergency", TRUE)
disable_emergency_mode == Mode("emergency", FALSE)
enable_maintenance_mode == Mode("maintenance", TRUE)
disable_maintenance_mode == Mode("maintenance", FALSE)

manual_trigger(severity) ==
  /\ settings.cached # None
  /\ halt' = activate_halt(get_cached_state, settings.cached, "Manual", severity, now)
  /\ past' = [past EXCEPT !.extended = 0]
  /\ UNCHANGED <<settings, trail, stats>>
manual_reset(force) ==
  /\ halt # None
  /\ force \/ now - halt.last >= calculate_cooldown_period(DefaultBreaker, halt.severity, 0, 0, 0) \div 2
  /\ halt' = perform_automatic_recovery(halt, now)
  /\ past' = [tips |-> <<>>, extended |-> 0]
  /\ UNCHANGED <<settings, trail, stats>>
extend_halt(d) ==
  /\ halt # None /\ is_halted(halt, now)
  /\ halt' = [halt EXCEPT !.halted_until = @ + d, !.duration = @ + d]
  /\ past' = [past EXCEPT !.extended = @ + d]
  /\ UNCHANGED <<settings, trail, stats>>

-----------------------------------------------------------------------------
\* Statistics and scores, which the guard does not consult.
sqrt_approx(n) ==
  LET root[k \in 0 .. 10] ==
        IF k = 0 THEN n
        ELSE LET x == root[k - 1] IN Smaller(x, (x + n \div x) \div 2)
  IN  IF n <= 0 THEN 0 ELSE root[10]

update_rolling_statistics(h, x) ==
  LET n == h.samples + 1
      delta == x - h.average
      mean == h.average + Quotient(delta, n)
      spread == h.deviation * h.deviation * h.samples + delta * (x - mean)
  IN  [h EXCEPT !.average = mean, !.samples = n, !.seen = Append(@, x),
                !.deviation = IF h.samples = 0 THEN @ ELSE sqrt_approx(Quotient(spread, n))]
Smoothed(old, x) == IF old = 0 THEN x ELSE (old * 4 + x) \div 5
update_frequency_stats(h, tips, minutes) ==
  IF minutes = 0 THEN h
  ELSE [h EXCEPT !.rate = Smoothed(@, tips \div minutes), !.rates = @ \cup {tips \div minutes}]
update_sender_stats(h, n) == [h EXCEPT !.senders = Smoothed(@, n)]
calculate_amount_deviation_score(x, average, deviation) ==
  LET off == IF x > average THEN x - average ELSE average - x
      z == (off * 100) \div deviation
  IN  IF deviation = 0 \/ average = 0 THEN 0
      ELSE IF z > 300 THEN Full
      ELSE IF z > 200 THEN Smaller(Full, ((z - 200) * Full) \div 100) ELSE 0
update_anomaly_state(h, x) ==
  LET mean == (h.average * h.samples + x) \div (h.samples + 1)
  IN  [h EXCEPT !.average = mean, !.samples = @ + 1, !.seen = Append(@, x),
                !.score = calculate_amount_deviation_score(x, mean, h.deviation)]
reset_statistics == [NoStats EXCEPT !.score = stats.score]

calculate_sender_clustering_score(senders, least) ==
  LET unique == Cardinality(ToSet(senders))
  IN  IF senders = <<>> \/ unique >= least THEN 0 ELSE Smaller(Full, ((least - unique) * Full) \div least)
\* The velocity score of the anomaly detector and the pattern confidence of the statistics.
calculate_velocity_anomaly_score(rate, average, tolerance) ==
  LET ratio == ((rate - average) * Full) \div average
  IN  IF average = 0 \/ rate <= average \/ ratio <= tolerance THEN 0
      ELSE Smaller(Full, ((ratio - tolerance) * Full) \div tolerance)
calculate_overall_confidence(clustering, velocity, deviation) ==
  (clustering * 40 + velocity * 30 + deviation * 30) \div 100
analyze_creator_velocity(rate, usual) ==
  IF usual = 0 THEN IF rate > 100 THEN Smaller(Full, (rate - 100) * 100) ELSE 0
  ELSE IF rate > usual * 3 THEN Smaller(Full, (rate * Full) \div usual - 3 * Full) ELSE 0
calculate_pattern_score(velocity, sequential, clustering) ==
  Smaller(Full, velocity + (IF sequential THEN 3000 ELSE 0) + clustering \div 2)

Learn ==
  /\ \/ \E x \in Amounts : stats' \in {update_rolling_statistics(stats, x), update_anomaly_state(stats, x)}
     \/ \E n \in Rates : stats' \in {update_frequency_stats(stats, n, 2), update_sender_stats(stats, n)}
     \/ stats' = reset_statistics
  /\ UNCHANGED <<settings, halt, trail, past>>

GuardNext ==
  \/ \E x \in Amounts : guard(x)
  \/ initialize_circuit_breaker
  \/ \E c \in BreakerConfigs : set_enhanced_config(c) \/ set_enhanced_cb_config(c)
  \/ init_enhanced_cb
  \/ \E p \in Party, x \in Limits : set_creator_limit(p, x)
  \/ \E p \in Party : remove_creator_limit(p)
  \/ \E t \in Token, x \in Limits : set_token_limit(t, x)
  \/ enable_emergency_mode \/ disable_emergency_mode
  \/ enable_maintenance_mode \/ disable_maintenance_mode
  \/ \E severity \in Severities : manual_trigger(severity)
  \/ \E force \in BOOLEAN : manual_reset(force)
  \/ extend_halt(1)

-----------------------------------------------------------------------------
\* Every volume window holds exactly the tips accepted since it began, and while
\* there is no halt the rate limit misses none of those of its minute: whatever
\* refusals, halts and recoveries came between them, the guard never undercounts.
\* (It overcounts: see RateCountsTips.)
VolumeSince(tips, t) ==
  SumFunction([k \in DOMAIN tips |-> IF tips[k].time >= t THEN tips[k].amount ELSE 0])
CountSince(tips, t) == Cardinality({k \in DOMAIN tips : tips[k].time >= t})
WindowsCount ==
  halt # None =>
    /\ \A w \in TimeWindow :
         LET v == halt.windows[w]
         IN  v.volume = VolumeSince(past.tips, v.start) /\ v.tips = CountSince(past.tips, v.start)
    /\ halt.halted_until = 0 => halt.rate.tips >= CountSince(past.tips, halt.rate.start)

\* What RateLimitState says of its counter, "Number of tips in the current minute":
\* while there is no halt it is the number of tips accepted since the minute began.
\* The check counts the tip and batch_state_updates counts it again.
RateCountsTips ==
  halt # None /\ halt.halted_until = 0 => halt.rate.tips = CountSince(past.tips, halt.rate.start)

\* The volume accepted in a window passes its threshold by one tip at most, whatever
\* halts, resets and changes of configuration fall in between: the thresholds that
\* count are the cached ones, which change only when the windows are cleared.
VolumeBounded ==
  halt # None /\ settings.cached # None =>
    \A w \in TimeWindow :
      halt.windows[w].volume <= settings.cached.threshold[w] + settings.cached.max_single

\* A halt names its reason and lasts, extensions aside, between the base and the
\* longest cooldown, however many halts came before it and how severe it is.
HaltsBounded ==
  halt # None /\ halt.halted_until > 0 =>
    /\ validate_state_integrity(halt)
    /\ settings.cached.base <= halt.halted_until - halt.last - past.extended
    /\ halt.halted_until - halt.last - past.extended <= settings.cached.max

\* The mean tip is within the tips seen, the smoothed rate within the rates seen,
\* and the scores made of them within 0 and the full score.  (A rate some 40 times the
\* mean overflows the u32 of the velocity score: the call panics and there is no score.)
StatsWithinSeen ==
  /\ stats.seen # <<>> => \E low, high \in ToSet(stats.seen) : low <= stats.average /\ stats.average <= high
  /\ stats.rates # {} => \E r \in stats.rates : stats.rate <= r
  /\ LET velocity == {calculate_velocity_anomaly_score(r, stats.rate, Full \div 2) :
                         r \in {r \in Rates : r <= 15 * stats.rate}}
                       \cup {analyze_creator_velocity(r, stats.rate) : r \in Rates}
         clustering == {calculate_sender_clustering_score(s, 2) : s \in {<<1, 1>>, <<1, 2>>}}
     IN  \A v \in velocity, k \in clustering :
           /\ calculate_overall_confidence(k, v, stats.score) \in 0 .. Full
           /\ calculate_pattern_score(v, TRUE, k) \in 0 .. Full

-----------------------------------------------------------------------------
\* The facts that every call keeps.
\* No tip was accepted after the window it counts towards.
Before(tips, start, span) == \A k \in DOMAIN tips : tips[k].time < start + span
\* At time t a state s counts the tips of h under the configuration c.
Counts(s, c, h, t) ==
  /\ \A w \in TimeWindow :
       /\ s.windows[w].volume = VolumeSince(h.tips, s.windows[w].start)
       /\ s.windows[w].tips = CountSince(h.tips, s.windows[w].start)
       /\ Before(h.tips, s.windows[w].start, Spans[w])
       /\ s.windows[w].start <= t
       /\ s.windows[w].volume <= c.threshold[w] + c.max_single
  /\ Before(h.tips, s.rate.start, Spans["OneMinute"])
  /\ s.rate.start <= t
\* Once there is a halt the rate limit also counts the refused tip.
HaltSound(s, c, h) ==
  IF s.halted_until = 0 THEN s.rate.tips = 2 * CountSince(h.tips, s.rate.start)
  ELSE /\ s.reason # "None"
       /\ c.base <= s.halted_until - s.last - h.extended
       /\ s.halted_until - s.last - h.extended <= c.max

GuardInv ==
  /\ settings \in Settings
  /\ past \in History
  /\ \A k \in DOMAIN past.tips : past.tips[k].time <= now
  /\ IF halt = None THEN past.tips = <<>>
     ELSE /\ halt \in State /\ settings.cached # None
          /\ Counts(halt, settings.cached, past, now)
          /\ HaltSound(halt, settings.cached, past)
StatsInv ==
  /\ stats \in Stats
  /\ stats.samples = Len(stats.seen)
  /\ stats.seen # <<>> => \E low, high \in ToSet(stats.seen) : low <= stats.average /\ stats.average <= high
  /\ IF stats.rates = {} THEN stats.rate = 0 ELSE \E r \in stats.rates : stats.rate <= r
=============================================================================
