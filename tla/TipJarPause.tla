---------------------------- MODULE TipJarPause ----------------------------
(***************************************************************************)
(* The circuit breaker of the tip jar.  The admin pauses features until it *)
(* unpauses them; a guardian pauses them for a limited time and can never  *)
(* unpause.  The two keep their flags apart, but all the guardian's flags  *)
(* share one expiry ledger.                                                *)
(***************************************************************************)
EXTENDS TipJarGovernance

CONSTANTS
  Guardians,             \* whom set_guardian is called with
  PauseCalls,            \* the flag sets pause and unpause are called with
  Durations,             \* the ledgers set_guardian_pause_duration is given
  DefaultPauseDuration   \* DEFAULT_GUARDIAN_PAUSE_DURATION_LEDGERS

TIPS == "tips"
WITHDRAWALS == "withdrawals"
Flag == {TIPS, WITHDRAWALS}
PAUSE_FLAG_ALL == Flag

\* What pause_tips, pause_withdrawals, pause_all and their unpause
\* counterparts pass on.
FlagSets == {{TIPS}, {WITHDRAWALS}, PAUSE_FLAG_ALL}

ASSUME PauseAssumption ==
  /\ Guardians \subseteq Address
  /\ PauseCalls \subseteq FlagSets
  /\ Durations \subseteq Ledger
  /\ DefaultPauseDuration \in Ledger \ {0}
  /\ None \notin Ledger

\* No pause expiry wraps.
NoPauseWrap ==
  /\ MaxLedger + DefaultPauseDuration < U32
  /\ \A d \in Durations : MaxLedger + d < U32

VARIABLES
  guardian,        \* DataKey::Guardian
  pauseDuration,   \* DataKey::GuardianPauseDuration
  pause,           \* DataKey::Pause; an absent entry reads as all clear
  adminHold        \* history, read by properties only: the flags whose last
                   \* admin call was a pause

breakerVars == <<guardian, pauseDuration, pause, adminHold>>
pauseVars == <<govVars, breakerVars>>

guardian_pause_duration ==
  IF pauseDuration = None THEN DefaultPauseDuration ELSE pauseDuration

effective_pause_flags ==
  pause.admin_flags \cup
    (IF seq < pause.guardian_expiry THEN pause.guardian_flags ELSE {})

check_not_paused(flag) == flag \notin effective_pause_flags

-----------------------------------------------------------------------------
BreakerInit ==
  /\ guardian = None
  /\ pauseDuration = None
  /\ pause = [admin_flags |-> {}, guardian_flags |-> {}, guardian_expiry |-> 0]
  /\ adminHold = {}

set_guardian(caller, g) ==
  /\ RequireAdmin(caller)
  /\ guardian' = g
  /\ UNCHANGED <<govVars, pauseDuration, pause, adminHold>>

set_guardian_pause_duration(caller, ledgers) ==
  /\ RequireAdmin(caller)
  /\ ledgers # 0
  /\ pauseDuration' = ledgers
  /\ UNCHANGED <<govVars, guardian, pause, adminHold>>

\* pause_internal takes the first branch that fits the caller: an admin that
\* is also the guardian pauses as the admin.
AdminPause(caller, flags) ==
  /\ RequireAdmin(caller)
  /\ pause' = [pause EXCEPT !.admin_flags = @ \cup flags,
                            !.guardian_flags = @ \ flags]
  /\ adminHold' = adminHold \cup flags
  /\ UNCHANGED <<govVars, guardian, pauseDuration>>

\* Mutant: the flags move from the admin's bucket to the guardian's.
GuardianPause_takes_over(caller, flags) ==
  /\ admin # None
  /\ caller # admin
  /\ caller = guardian
  /\ pause' = [admin_flags |-> pause.admin_flags \ flags,
                guardian_flags |-> pause.guardian_flags \cup flags,
                guardian_expiry |-> AddU32(seq, guardian_pause_duration)]
  /\ UNCHANGED <<govVars, guardian, pauseDuration, adminHold>>

\* Mutant: the guardian's flags are replaced instead of extended.
GuardianPause_replaces(caller, flags) ==
  /\ admin # None
  /\ caller # admin
  /\ caller = guardian
  /\ pause' = [pause EXCEPT
       !.guardian_flags = flags,
       !.guardian_expiry = AddU32(seq, guardian_pause_duration)]
  /\ UNCHANGED <<govVars, guardian, pauseDuration, adminHold>>

GuardianPause(caller, flags) ==
  /\ admin # None
  /\ caller # admin
  /\ caller = guardian
  /\ pause' = [pause EXCEPT
       !.guardian_flags = @ \cup flags,
       !.guardian_expiry = AddU32(seq, guardian_pause_duration)]
  /\ UNCHANGED <<govVars, guardian, pauseDuration, adminHold>>

pause_internal(caller, flags) ==
  AdminPause(caller, flags) \/ GuardianPause(caller, flags)

unpause_internal(caller, flags) ==
  /\ RequireAdmin(caller)
  /\ pause' = [pause EXCEPT !.admin_flags = @ \ flags,
                            !.guardian_flags = @ \ flags]
  /\ adminHold' = adminHold \ flags
  /\ UNCHANGED <<govVars, guardian, pauseDuration>>

-----------------------------------------------------------------------------
PauseInit == GovInit /\ BreakerInit

BreakerStep ==
  \E a \in Signer :
    \/ \E g \in Guardians : set_guardian(a, g)
    \/ \E d \in Durations : set_guardian_pause_duration(a, d)
    \/ \E F \in PauseCalls : pause_internal(a, F)
    \/ \E F \in PauseCalls : unpause_internal(a, F)

PauseStep ==
  \/ GovStep /\ UNCHANGED breakerVars
  \/ BreakerStep

PauseNext ==
  \/ InitCall /\ UNCHANGED breakerVars
  \/ PauseStep

PauseSpec == PauseInit /\ [][PauseNext]_pauseVars

-----------------------------------------------------------------------------
PauseTypeOK ==
  /\ guardian \in Address \cup {None}
  /\ pauseDuration \in Durations \cup {None}
  /\ pause \in [admin_flags : SUBSET Flag, guardian_flags : SUBSET Flag,
                guardian_expiry : Ledger]
  /\ adminHold \in SUBSET Flag

\* A feature the admin paused stays paused until the admin unpauses it,
\* whatever the guardian calls, whoever becomes guardian or admin, and however
\* many ledgers close: a guardian pause never takes over an admin pause.
AdminPauseHolds == adminHold \subseteq effective_pause_flags

\* A pause ends in two ways only: the admin unpauses it, or a ledger closes
\* and the flag was the guardian's alone.  In particular no call of the
\* guardian, no change of guardian, duration or admin, and no migration or
\* upgrade lifts a pause.
PauseEndsOnlyByAdminOrExpiry ==
  [][\A f \in effective_pause_flags \ effective_pause_flags' :
       \/ seq' > seq /\ f \notin adminHold
       \/ \E F \in FlagSets : f \in F /\ unpause_internal(admin, F)]_pauseVars

\* The inductive invariant behind the theorems of TipJarProofs: the admin
\* bucket is exactly what the admin holds, and no guardian pause is empty.
PauseInv ==
  /\ GovTypeOK
  /\ PauseTypeOK
  /\ adminHold = pause.admin_flags
  /\ pauseDuration # 0

\* What "tips/withdrawals pause independently" says of a pause call: it
\* pauses the features it names and no other.
PausesNamedFlagsOnly ==
  [][\A a \in Signer, F \in FlagSets :
       pause_internal(a, F)
         => effective_pause_flags' \subseteq effective_pause_flags \cup F]_pauseVars
=============================================================================
