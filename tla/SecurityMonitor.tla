-------------------------- MODULE SecurityMonitor --------------------------
(***************************************************************************)
(* The security monitor: concurrent calls of check_transaction pass a      *)
(* circuit breaker, a blacklist, a sliding-window rate limiter and an      *)
(* anomaly detector, while an operator edits the lists and resets the      *)
(* breaker.  Each of them guards its state with a mutex of its own, so a   *)
(* call is a sequence of critical sections and others run in between.      *)
(***************************************************************************)
EXTENDS Integers, Sequences, FiniteSets

CONSTANTS
  Call,         \* the tasks that call check_transaction, one call at a time
  Sender,       \* addresses
  MaxTx,        \* RateLimiter::max_tx
  Window,       \* window_secs of limiter and breaker
  Threshold,    \* CircuitBreaker::threshold
  MaxTime,      \* bound: seconds
  MaxChecks,    \* bound: calls of check_transaction
  MaxResets,    \* bound: calls of reset_circuit_breaker
  MaxEdits      \* bound: changes of the lists

ASSUME MonitorAssumption ==
  /\ IsFiniteSet(Call) /\ Call # {} /\ Sender # {}
  /\ MaxTx \in Nat /\ Window \in Nat /\ Threshold \in Nat \ {0}
  /\ MaxTime \in Nat /\ MaxChecks \in Nat
  /\ MaxResets \in Nat /\ MaxEdits \in Nat

VARIABLES
  time,         \* external: Utc::now()
  open,         \* CircuitBreaker::state
  events,       \* CircuitBreaker::events
  windows,      \* RateLimiter::windows
  blacklist,
  whitelist,
  scored,       \* AnomalyDetector::stats, as far as "enough history" goes
  pc,           \* where each call is
  sender,       \* the transaction's sender
  seen,         \* the time a call has read
  resetting,    \* whether reset has closed the breaker and not cleared events
  checks, resets, edits,   \* calls made so far
  admitted,     \* history: every time the limiter counted, by sender
  listed,       \* history: the call's sender was blacklisted all along
  openings,     \* history: how often the breaker opened
  alerts,       \* history: CircuitBreakerTripped alerts sent
  approved      \* history: the calls approved by the latest step

breaker == <<open, events, resetting, openings>>
limiter == <<windows, admitted>>
lists == <<blacklist, whitelist>>
counters == <<checks, resets, edits>>
calls == <<pc, sender, seen, listed, alerts, approved>>
monitorVars == <<time, breaker, limiter, lists, scored, counters, calls>>

Places == {"idle", "open?", "blacklist?", "check", "whitelist?", "window",
           "score", "record", "lock", "alert"}

\* The timestamps a critical section entered with the time `now` keeps, in order.
Retained(s, now) ==
  LET keep[i \in 0 .. Len(s)] ==
        IF i = 0 THEN <<>>
        ELSE IF s[i] > now - Window THEN Append(keep[i - 1], s[i])
        ELSE keep[i - 1]
  IN  keep[Len(s)]

\* A call goes on, or returns its verdict.
Goto(c, place) == pc' = [pc EXCEPT ![c] = place] /\ approved' = {}
Approve(c) == pc' = [pc EXCEPT ![c] = "idle"] /\ approved' = {c}

MonitorInit ==
  /\ time = 0
  /\ open = FALSE /\ events = <<>> /\ resetting = FALSE
  /\ windows = [s \in Sender |-> <<>>]
  /\ blacklist = {} /\ whitelist = {}
  /\ scored = [s \in Sender |-> 0]
  /\ pc = [c \in Call |-> "idle"]
  /\ sender = [c \in Call |-> CHOOSE s \in Sender : TRUE]
  /\ seen = [c \in Call |-> 0]
  /\ checks = 0 /\ resets = 0 /\ edits = 0
  /\ admitted = [s \in Sender |-> <<>>]
  /\ listed = [c \in Call |-> FALSE]
  /\ openings = 0 /\ alerts = 0 /\ approved = {}

Clock ==
  /\ time < MaxTime
  /\ time' = time + 1
  /\ approved' = {}
  /\ UNCHANGED <<breaker, limiter, lists, scored, counters, pc, sender, seen,
                 listed, alerts>>

-----------------------------------------------------------------------------
\* check_transaction
Begin(c, s) ==
  /\ pc[c] = "idle"
  /\ checks < MaxChecks
  /\ checks' = checks + 1
  /\ Goto(c, "open?")
  /\ sender' = [sender EXCEPT ![c] = s]
  /\ listed' = [listed EXCEPT ![c] = s \in blacklist]
  /\ UNCHANGED <<time, breaker, limiter, lists, scored, resets, edits, seen,
                 alerts>>

is_open(c) ==
  /\ pc[c] = "open?"
  /\ Goto(c, IF open THEN "idle" ELSE "blacklist?")
  /\ UNCHANGED <<time, breaker, limiter, lists, scored, counters, sender, seen,
                 listed, alerts>>

Blacklisted(s) == s \in blacklist

\* The monitor's test answers Blocked, the one inside check RateLimited.
is_blacklisted(c) ==
  /\ pc[c] \in {"blacklist?", "check"}
  /\ Goto(c, IF Blacklisted(sender[c]) THEN "idle"
             ELSE IF pc[c] = "check" THEN "whitelist?" ELSE "check")
  /\ UNCHANGED <<time, breaker, limiter, lists, scored, counters, sender, seen,
                 listed, alerts>>

\* A whitelisted sender is not counted; any other's time is read here, before
\* the windows are locked.
is_whitelisted(c) ==
  /\ pc[c] = "whitelist?"
  /\ IF sender[c] \in whitelist
     THEN Goto(c, "score") /\ UNCHANGED seen
     ELSE Goto(c, "window") /\ seen' = [seen EXCEPT ![c] = time]
  /\ UNCHANGED <<time, breaker, limiter, lists, scored, counters, sender,
                 listed, alerts>>

\* Mutant: one more than max_tx is let through.
Full_late(kept) == Len(kept) > MaxTx

Full(kept) == Len(kept) >= MaxTx

\* The locked part of check.
check(c) ==
  LET s == sender[c]
      kept == Retained(windows[s], seen[c])
  IN
  /\ pc[c] = "window"
  /\ IF Full(kept)
     THEN /\ windows' = [windows EXCEPT ![s] = kept]
          /\ Goto(c, "idle")
          /\ UNCHANGED admitted
     ELSE /\ windows' = [windows EXCEPT ![s] = Append(kept, seen[c])]
          /\ Goto(c, "score")
          /\ admitted' = [admitted EXCEPT ![s] = Append(@, seen[c])]
  /\ UNCHANGED <<time, breaker, lists, scored, counters, sender, seen, listed,
                 alerts>>

\* score: an amount above the ceiling is an anomaly; any other may be one once
\* two amounts of the sender are known, depending on what they were.
score(c) ==
  LET s == sender[c] IN
  /\ pc[c] = "score"
  /\ scored' = [scored EXCEPT ![s] = IF @ < 2 THEN @ + 1 ELSE 2]
  /\ \E aboveCeiling, deviates \in BOOLEAN :
       IF aboveCeiling \/ (scored[s] >= 2 /\ deviates)
       THEN Goto(c, "record")
       ELSE Approve(c)
  /\ UNCHANGED <<time, breaker, limiter, lists, counters, sender, seen, listed,
                 alerts>>

\* The anomaly's alert is sent, and record_anomaly reads the time.
send_alert(c) ==
  /\ pc[c] = "record"
  /\ seen' = [seen EXCEPT ![c] = time]
  /\ Goto(c, "lock")
  /\ UNCHANGED <<time, breaker, limiter, lists, scored, counters, sender,
                 listed, alerts>>

Reached(kept) == Len(kept) >= Threshold
JustTripped(kept) == Reached(kept) /\ ~open

\* The locked part of record_anomaly: the state's lock is taken inside that of
\* the events.  A call that has tripped the breaker goes on to say so.
record_anomaly(c) ==
  LET kept == Append(Retained(events, seen[c]), seen[c]) IN
  /\ pc[c] = "lock"
  /\ events' = kept
  /\ open' = (open \/ Reached(kept))
  /\ openings' = openings + (IF Reached(kept) /\ ~open THEN 1 ELSE 0)
  /\ Goto(c, IF JustTripped(kept) THEN "alert" ELSE "idle")
  /\ UNCHANGED <<time, resetting, limiter, lists, scored, counters, sender,
                 seen, listed, alerts>>

SayTripped(c) ==
  /\ pc[c] = "alert"
  /\ alerts' = alerts + 1
  /\ Goto(c, "idle")
  /\ UNCHANGED <<time, breaker, limiter, lists, scored, counters, sender, seen,
                 listed>>

-----------------------------------------------------------------------------
\* reset: the state and the events are locked one after the other.
ResetState ==
  /\ resets < MaxResets
  /\ ~resetting
  /\ resets' = resets + 1
  /\ open' = FALSE
  /\ resetting' = TRUE
  /\ approved' = {}
  /\ UNCHANGED <<time, events, openings, limiter, lists, scored, checks, edits,
                 pc, sender, seen, listed, alerts>>

ResetEvents ==
  /\ resetting
  /\ events' = <<>>
  /\ resetting' = FALSE
  /\ approved' = {}
  /\ UNCHANGED <<time, open, openings, limiter, lists, scored, counters, pc,
                 sender, seen, listed, alerts>>

Edit == edits < MaxEdits /\ edits' = edits + 1 /\ approved' = {}

add_to_blacklist(s) ==
  /\ Edit
  /\ blacklist' = blacklist \cup {s}
  /\ UNCHANGED <<time, breaker, limiter, whitelist, scored, checks, resets, pc,
                 sender, seen, listed, alerts>>

remove_from_blacklist(s) ==
  /\ Edit
  /\ blacklist' = blacklist \ {s}
  /\ listed' = [c \in Call |-> listed[c] /\ sender[c] # s]
  /\ UNCHANGED <<time, breaker, limiter, whitelist, scored, checks, resets, pc,
                 sender, seen, alerts>>

add_to_whitelist(s) ==
  /\ Edit
  /\ whitelist' = whitelist \cup {s}
  /\ UNCHANGED <<time, breaker, limiter, blacklist, scored, checks, resets, pc,
                 sender, seen, listed, alerts>>

-----------------------------------------------------------------------------
CallStep(c) ==
  \/ is_open(c)
  \/ is_blacklisted(c)
  \/ is_whitelisted(c)
  \/ check(c)
  \/ score(c)
  \/ send_alert(c)
  \/ record_anomaly(c)
  \/ SayTripped(c)

Operator ==
  \/ ResetState
  \/ ResetEvents
  \/ \E s \in Sender : add_to_blacklist(s)
  \/ \E s \in Sender : remove_from_blacklist(s)
  \/ \E s \in Sender : add_to_whitelist(s)

MonitorNext ==
  \/ Clock
  \/ \E c \in Call, s \in Sender : Begin(c, s)
  \/ \E c \in Call : CallStep(c)
  \/ Operator

MonitorSpec == MonitorInit /\ [][MonitorNext]_monitorVars

-----------------------------------------------------------------------------
Times == 0 .. MaxTime
MonitorTypeOK ==
  /\ time \in Times
  /\ open \in BOOLEAN /\ resetting \in BOOLEAN
  /\ events \in Seq(Times)
  /\ windows \in [Sender -> Seq(Times)]
  /\ \A s \in Sender : Len(windows[s]) <= MaxTx
  /\ blacklist \subseteq Sender /\ whitelist \subseteq Sender
  /\ scored \in [Sender -> 0 .. 2]
  /\ pc \in [Call -> Places]
  /\ sender \in [Call -> Sender]
  /\ seen \in [Call -> Times]
  /\ admitted \in [Sender -> Seq(Times)]
  /\ listed \in [Call -> BOOLEAN]
  /\ openings \in Nat /\ alerts \in Nat
  /\ approved \subseteq Call

\* The times in s that fall into the window that ends with t.
Within(s, t) == {i \in DOMAIN s : s[i] <= t /\ s[i] > t - Window}

\* RateLimiter::check counts no more than max_tx transactions of one sender in
\* any window of window_secs, but for calls that read the time before the window
\* moved on and got the lock after: at most one for every other caller.  With
\* one caller at a time the limit is exact.
WindowHeld ==
  \A s \in Sender, t \in Times :
    Cardinality(Within(admitted[s], t)) <= MaxTx + Cardinality(Call) - 1

\* check_transaction approves no call whose sender was blacklisted from before
\* it began until after it was approved.
BlockedAllAlong == \A c \in approved : ~listed[c]

\* record_anomaly and reset, interleaved at their locks, never leave threshold
\* anomalies on record beside a closed breaker, once no reset is half done.
TrippedAtThreshold ==
  Len(events) >= Threshold /\ ~resetting => open

\* Every opening of the breaker is announced by exactly one alert, by the call
\* whose record_anomaly caused it.
OneAlertPerTrip ==
  openings = alerts + Cardinality({c \in Call : pc[c] = "alert"})

\* The inductive invariant behind BlockedAllAlong: whoever is marked is still on
\* the list, and a call past its first look at the list is not marked.
ListsHonoured ==
  \A c \in Call :
    /\ listed[c] => sender[c] \in blacklist
    /\ pc[c] \in {"check", "whitelist?", "window", "score"} => ~listed[c]

\* The inductive invariant behind WindowHeld.  As long as no call has dropped
\* times of the window that ends with t, the limiter still counts all that were
\* admitted in it.  Afterwards only the calls that read the time by t and have not
\* got the lock yet can add to it.
Late(s, t) == {c \in Call : pc[c] = "window" /\ sender[c] = s /\ seen[c] <= t}
StillCounted(s, t) ==
  Cardinality(Within(admitted[s], t)) <= Cardinality(Within(windows[s], t))
WindowsSound ==
  /\ \A c \in Call : seen[c] <= time
  /\ \A s \in Sender, t \in Times :
       \/ StillCounted(s, t)
       \/ /\ time > t
          /\ Cardinality(Within(admitted[s], t)) + Cardinality(Late(s, t))
               <= MaxTx + Cardinality(Call) - 1

MonitorInv ==
  /\ MonitorTypeOK
  /\ ListsHonoured /\ BlockedAllAlong
  /\ TrippedAtThreshold
  /\ OneAlertPerTrip
  /\ WindowsSound
=============================================================================
