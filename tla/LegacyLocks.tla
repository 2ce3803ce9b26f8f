---------------------------- MODULE LegacyLocks -----------------------------
(***************************************************************************)
(* Tips that are paid in now and reach the creator with time: vesting      *)
(* schedules, time locks, streams and time-lock puzzles.  Each holds an    *)
(* escrow of its own, outside the creators' balances.                      *)
(***************************************************************************)
EXTENDS LegacyLedger, SequencesExt

CONSTANTS
  Delays,         \* durations: of a cliff, of vesting, until a lock opens, of a stream
  RefundWindows,  \* what the admin sets with set_refund_window
  StreamRates     \* amounts per second

Lock == [sender : Party, creator : Party, token : Token, amount : Int, unlock_time : Int,
         expires_at : Int, cancelled : BOOLEAN]

ASSUME LocksAssumption ==
  /\ Delays \subseteq Nat
  /\ RefundWindows \subseteq Nat
  /\ StreamRates \subseteq Nat
  /\ None \notin Lock

VARIABLES
  schedules,      \* DataKey::Vesting(Schedule); identifiers start at 0
  locks,          \* DataKey::TimeLock, by identifier
  activeLocks,    \* DataKey::ActiveTimeLocks
  refundWindow,   \* DataKey::RefundWindow
  streams,        \* DataKey::Stream(Record); paid and refunded are history
  puzzles         \* time_lock_puzzle::DataKey::Puzzle

lockVars == <<schedules, locks, activeLocks, refundWindow, streams, puzzles>>

LocksInit ==
  /\ schedules = <<>>
  /\ locks = <<>>
  /\ activeLocks = {}
  /\ refundWindow = 0
  /\ streams = <<>>
  /\ puzzles = <<>>

-----------------------------------------------------------------------------
create_vesting_schedule(s, c, t, x, cliff, duration) ==
  /\ require_not_paused
  /\ check_circuit_breaker(x)
  /\ duration > 0 /\ cliff <= duration
  /\ Whitelisted(t)
  /\ schedules' = Append(schedules, [creator |-> c, token |-> t, amount |-> x, start |-> now,
                                     cliff |-> cliff, duration |-> duration, withdrawn |-> 0])
  /\ Pay(t, s, Jar, x)
  /\ UNCHANGED <<books, adminVars, now, drift, locks, activeLocks, refundWindow, streams, puzzles>>

calculate_vested_amount(v) ==
  IF now < v.start + v.cliff THEN 0
  ELSE IF now - v.start >= v.duration THEN v.amount
  ELSE (v.amount * (now - v.start)) \div v.duration

\* The identifier of the first schedule is 0, which is refused: what it holds stays.
withdraw_vested(c, i) ==
  LET v == schedules[i]
      x == calculate_vested_amount(v) - v.withdrawn
      repaid == Repayment(books.credit, c, v.token, x)
  IN  /\ require_not_paused
      /\ i # 1
      /\ v.creator = c
      /\ x > 0
      /\ schedules' = [schedules EXCEPT ![i].withdrawn = @ + x]
      /\ books' = [books EXCEPT !.fees[v.token] = @ + repaid,
                                !.credit = AfterRepayment(@, c, v.token, x)]
      /\ Pay(v.token, Jar, c, x - repaid)
      /\ UNCHANGED <<adminVars, breaker, now, drift, locks, activeLocks, refundWindow, streams, puzzles>>

-----------------------------------------------------------------------------
set_refund_window(n) ==
  /\ refundWindow' = n
  /\ UNCHANGED <<ledgerVars, schedules, locks, activeLocks, streams, puzzles>>

tip_time_locked(s, c, t, x, delay) ==
  /\ require_not_paused
  /\ check_circuit_breaker(x)
  /\ delay > 0
  /\ locks' = Append(locks, [sender |-> s, creator |-> c, token |-> t, amount |-> x,
                             unlock_time |-> now + delay, expires_at |-> now + refundWindow,
                             cancelled |-> FALSE])
  /\ activeLocks' = activeLocks \cup {Len(locks) + 1}
  /\ Pay(t, s, Jar, x)
  /\ UNCHANGED <<books, adminVars, now, drift, schedules, refundWindow, streams, puzzles>>

\* The token is the caller's word: the lock's own is not looked at.
PayLock(i, t, to) ==
  LET l == locks[i]
  IN  /\ Pay(t, Jar, to, l.amount)
      /\ drift' = IF t = l.token THEN drift
                  ELSE [drift EXCEPT !.swapped[l.token] = @ + l.amount,
                                     !.swapped[t] = @ - l.amount]

withdraw_time_locked(c, t, i) ==
  /\ require_not_paused
  /\ locks[i] # None
  /\ locks[i].creator = c
  /\ ~locks[i].cancelled
  /\ now >= locks[i].unlock_time
  /\ locks' = [locks EXCEPT ![i] = None]
  /\ activeLocks' = activeLocks \ {i}
  /\ PayLock(i, t, c)
  /\ UNCHANGED <<books, adminVars, breaker, now, schedules, refundWindow, streams, puzzles>>

\* Mutant: a cancelled lock stays on the list of active ones.
cancel_time_lock_listed(s, t, i) ==
  /\ require_not_paused
  /\ locks[i] # None
  /\ locks[i].sender = s
  /\ ~locks[i].cancelled
  /\ locks' = [locks EXCEPT ![i].cancelled = TRUE]
  /\ PayLock(i, t, s)
  /\ UNCHANGED <<books, adminVars, breaker, now, activeLocks, schedules, refundWindow, streams, puzzles>>

\* At any time, also once the lock is open.
cancel_time_lock(s, t, i) ==
  /\ require_not_paused
  /\ locks[i] # None
  /\ locks[i].sender = s
  /\ ~locks[i].cancelled
  /\ locks' = [locks EXCEPT ![i].cancelled = TRUE]
  /\ activeLocks' = activeLocks \ {i}
  /\ PayLock(i, t, s)
  /\ UNCHANGED <<books, adminVars, breaker, now, schedules, refundWindow, streams, puzzles>>

\* Anyone, at any time: every lock past its refund window goes back to its sender.
process_expired_tips ==
  LET expired == {i \in activeLocks : ~locks[i].cancelled /\ locks[i].expires_at <= now}
      due(t, S) == SumFunction([i \in DOMAIN locks |->
                     IF i \in S /\ locks[i].token = t THEN locks[i].amount ELSE 0])
  IN  /\ expired # {}
      /\ \A t \in Token : wallet[t][Jar] >= due(t, expired)
      /\ wallet' = [t \in Token |-> [a \in DOMAIN wallet[t] |->
           IF a = Jar THEN wallet[t][a] - due(t, expired)
           ELSE wallet[t][a] + due(t, {i \in expired : locks[i].sender = a})]]
      /\ locks' = [i \in DOMAIN locks |-> IF i \in expired THEN None ELSE locks[i]]
      /\ activeLocks' = activeLocks \ expired
      /\ UNCHANGED <<books, adminVars, breaker, now, drift, schedules, refundWindow, streams, puzzles>>

-----------------------------------------------------------------------------
create_stream(s, c, t, rate, duration) ==
  /\ require_not_paused
  /\ duration > 0
  /\ Whitelisted(t)
  /\ streams' = Append(streams, [sender |-> s, creator |-> c, token |-> t, rate |-> rate,
                                 start |-> now, end |-> now + duration, withdrawn |-> 0,
                                 status |-> "Active", updated |-> now,
                                 paid |-> 0, refunded |-> 0])
  /\ Pay(t, s, Jar, rate * duration)
  /\ UNCHANGED <<books, adminVars, breaker, now, drift, schedules, locks, activeLocks, refundWindow, puzzles>>

Deposit(m) == m.rate * (m.end - m.start)

\* A paused stream goes on streaming until it is started again.
calculate_streamed_amount(m) ==
  IF m.status \notin {"Active", "Paused"} THEN m.withdrawn
  ELSE m.rate * (Smaller(Larger(now, m.start), m.end) - m.start)

StreamOf(i, p, role) == i \in DOMAIN streams /\ streams[i][role] = p

\* A restart moves a paused stream on by the time since its last update.
start_stream(s, i) ==
  LET m == streams[i]
      idle == IF m.status = "Paused" THEN now - m.updated ELSE 0
  IN  /\ require_not_paused
      /\ StreamOf(i, s, "sender")
      /\ m.status \notin {"Cancelled", "Completed"}
      /\ streams' = [streams EXCEPT ![i] = [m EXCEPT !.start = @ + idle, !.end = @ + idle,
                                                     !.status = "Active", !.updated = now]]
      /\ UNCHANGED <<ledgerVars, schedules, locks, activeLocks, refundWindow, puzzles>>

\* What was streamed so far counts as withdrawn and is not paid.
stop_stream(s, i) ==
  LET m == streams[i]
      streamed == calculate_streamed_amount(m)
  IN  /\ require_not_paused
      /\ StreamOf(i, s, "sender")
      /\ m.status = "Active"
      /\ streams' = [streams EXCEPT ![i] = [m EXCEPT !.status = "Paused", !.withdrawn = streamed,
                                                     !.updated = now]]
      /\ drift' = [drift EXCEPT !.lost[m.token] = @ + streamed - m.withdrawn]
      /\ UNCHANGED <<wallet, books, adminVars, breaker, now, schedules, locks, activeLocks, refundWindow, puzzles>>

withdraw_streamed(c, i) ==
  LET m == streams[i]
      x == calculate_streamed_amount(m) - m.withdrawn
  IN  /\ require_not_paused
      /\ StreamOf(i, c, "creator")
      /\ m.status # "Cancelled"
      /\ now >= m.start
      /\ x > 0
      /\ streams' = [streams EXCEPT ![i] = [m EXCEPT !.withdrawn = @ + x, !.paid = @ + x,
           !.status = IF now >= m.end THEN "Completed" ELSE @, !.updated = now]]
      /\ Pay(m.token, Jar, c, x)
      /\ UNCHANGED <<books, adminVars, breaker, now, drift, schedules, locks, activeLocks, refundWindow, puzzles>>

\* The sender gets back what is not streamed; what is streamed and not withdrawn
\* goes to nobody.
cancel_stream(s, i) ==
  LET m == streams[i]
      streamed == calculate_streamed_amount(m)
      back == Deposit(m) - streamed
  IN  /\ require_not_paused
      /\ StreamOf(i, s, "sender")
      /\ m.status \notin {"Cancelled", "Completed"}
      /\ streams' = [streams EXCEPT ![i] = [m EXCEPT !.status = "Cancelled", !.updated = now,
                                                     !.refunded = back]]
      /\ Pay(m.token, Jar, s, back)
      /\ drift' = [drift EXCEPT !.lost[m.token] = @ + streamed - m.withdrawn]
      /\ UNCHANGED <<books, adminVars, breaker, now, schedules, locks, activeLocks, refundWindow, puzzles>>

-----------------------------------------------------------------------------
create_time_lock_puzzle(s, c, t, x, delay) ==
  /\ require_not_paused
  /\ delay > 0
  /\ puzzles' = Append(puzzles, [creator |-> s, recipient |-> c, token |-> t, amount |-> x,
                                 unlock_time |-> now + delay, status |-> "Active"])
  /\ Pay(t, s, Jar, x)
  /\ UNCHANGED <<books, adminVars, breaker, now, drift, schedules, locks, activeLocks, refundWindow, streams>>

\* Whoever calls with the secret; the recipient is paid.
solve_time_lock_puzzle(i, right) ==
  /\ require_not_paused
  /\ puzzles[i].status = "Active"
  /\ now >= puzzles[i].unlock_time
  /\ right
  /\ puzzles' = [puzzles EXCEPT ![i].status = "Solved"]
  /\ Pay(puzzles[i].token, Jar, puzzles[i].recipient, puzzles[i].amount)
  /\ UNCHANGED <<books, adminVars, breaker, now, drift, schedules, locks, activeLocks, refundWindow, streams>>

cancel_time_lock_puzzle(s, i) ==
  /\ require_not_paused
  /\ puzzles[i].creator = s
  /\ puzzles[i].status = "Active"
  /\ puzzles' = [puzzles EXCEPT ![i].status = "Cancelled"]
  /\ Pay(puzzles[i].token, Jar, s, puzzles[i].amount)
  /\ UNCHANGED <<books, adminVars, breaker, now, drift, schedules, locks, activeLocks, refundWindow, streams>>

-----------------------------------------------------------------------------
VestingNext ==
  \E s \in Party, c \in Party, t \in Token, x \in Amounts :
    \/ \E cliff \in Delays \cup {0}, n \in Delays : create_vesting_schedule(s, c, t, x, cliff, n)
    \/ \E i \in DOMAIN schedules : withdraw_vested(c, i)

TimeLockNext ==
  \/ process_expired_tips
  \/ \E n \in RefundWindows : set_refund_window(n)
  \/ \E s \in Party, t \in Token :
       \/ \E c \in Party, x \in Amounts, n \in Delays : tip_time_locked(s, c, t, x, n)
       \/ \E i \in DOMAIN locks : withdraw_time_locked(s, t, i) \/ cancel_time_lock(s, t, i)

StreamNext ==
  \/ \E s \in Party, c \in Party, t \in Token, r \in StreamRates, n \in Delays :
       create_stream(s, c, t, r, n)
  \/ \E p \in Party, i \in DOMAIN streams :
       start_stream(p, i) \/ stop_stream(p, i) \/ withdraw_streamed(p, i) \/ cancel_stream(p, i)

PuzzleNext ==
  \/ \E s \in Party, c \in Party, t \in Token, x \in Amounts, n \in Delays :
       create_time_lock_puzzle(s, c, t, x, n)
  \/ \E i \in DOMAIN puzzles :
       \/ \E right \in BOOLEAN : solve_time_lock_puzzle(i, right)
       \/ \E s \in Party : cancel_time_lock_puzzle(s, i)

-----------------------------------------------------------------------------
\* What the jar holds for each of them in a token, and for all of them.
VestingHeld(v, t) == IF v.token = t THEN v.amount - v.withdrawn ELSE 0
LockHeld(l, t) == IF l # None /\ l.token = t /\ ~l.cancelled THEN l.amount ELSE 0
StreamHeld(m, t) ==
  IF m.token = t /\ m.status \in {"Active", "Paused"} THEN Deposit(m) - m.withdrawn ELSE 0
PuzzleHeld(z, t) == IF z.token = t /\ z.status = "Active" THEN z.amount ELSE 0
LockEscrow(t) ==
  SumFunction([i \in DOMAIN schedules |-> VestingHeld(schedules[i], t)])
    + SumFunction([i \in DOMAIN locks |-> LockHeld(locks[i], t)])
    + SumFunction([i \in DOMAIN streams |-> StreamHeld(streams[i], t)])
    + SumFunction([i \in DOMAIN puzzles |-> PuzzleHeld(puzzles[i], t)])

\* The list that refunds are made from holds exactly the locks that still hold
\* their amount, whatever opened, cancelled or refunded the others.
ActiveLocksOpen ==
  activeLocks = {i \in DOMAIN locks : locks[i] # None /\ ~locks[i].cancelled}

\* However a stream is stopped, restarted, drawn from and cancelled, the creator
\* and the sender together never get more than was deposited, and a stream never
\* counts more as withdrawn than it has streamed.
StreamWithinDeposit ==
  \A i \in DOMAIN streams :
    LET m == streams[i]
    IN  /\ m.paid + m.refunded <= Deposit(m)
        /\ m.paid <= m.withdrawn
        /\ m.withdrawn <= calculate_streamed_amount(m)
\* The inductive invariant behind them: no more counts as withdrawn than had streamed
\* when the stream was last touched, and only the sender of a cancelled stream is
\* refunded.  A restart moves the stream on by the time since then.
Schedule == [creator : Party, token : Token, amount : Int, start : Int, cliff : Int,
             duration : Nat \ {0}, withdrawn : Int]
Stream == [sender : Party, creator : Party, token : Token, rate : Nat, start : Nat, end : Nat,
           withdrawn : Int, status : {"Active", "Paused", "Completed", "Cancelled"},
           updated : Nat, paid : Int, refunded : Int]
Puzzle == [creator : Party, recipient : Party, token : Token, amount : Int, unlock_time : Int,
           status : {"Active", "Solved", "Cancelled"}]
LocksTypeOK ==
  /\ schedules \in Seq(Schedule)
  /\ locks \in Seq({None} \cup Lock)
  /\ streams \in Seq(Stream)
  /\ puzzles \in Seq(Puzzle)
  /\ refundWindow \in Nat
StreamedAt(m, n) == m.rate * (Smaller(Larger(n, m.start), m.end) - m.start)
StreamSound(m) ==
  /\ m.start <= m.end /\ m.updated <= now
  /\ m.paid <= m.withdrawn
  /\ m.status \in {"Active", "Paused"} =>
       m.withdrawn <= StreamedAt(m, m.updated) /\ m.refunded = 0
  /\ m.status \notin {"Active", "Paused"} => m.paid + m.refunded <= Deposit(m)
StreamsSound == \A i \in DOMAIN streams : StreamSound(streams[i])
LocksInv == LocksTypeOK /\ ActiveLocksOpen /\ StreamsSound
=============================================================================
