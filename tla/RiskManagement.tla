--------------------------- MODULE RiskManagement ---------------------------
(***************************************************************************)
(* The risk contract: participants report changes of their own exposure,   *)
(* an admin resets them, and a running total is kept beside the profiles.  *)
(* init may be called at any time, again and by anybody.                   *)
(***************************************************************************)
EXTENDS Int128, FiniteSets, Functions

CONSTANTS
  User,          \* addresses
  None,          \* an absent admin or profile
  Deltas,        \* the delta that update_exposure is called with
  Thresholds,    \* the alert_threshold that participants register with
  Scale,         \* the factor of the risk score: 100
  MaxInits       \* bound: calls of init

I128 == -I128Max - 1 .. I128Max
Profile == [exposure : I128, risk_score : 0 .. Scale,
            alert_threshold : 1 .. I128Max]

ASSUME RiskAssumption ==
  /\ IsFiniteSet(User)
  /\ None \notin User \cup Profile
  /\ Deltas \subseteq I128 /\ Thresholds \subseteq I128
  /\ Scale \in 1 .. I128Max
  /\ MaxInits \in Nat

VARIABLES
  admin,            \* DataKey::Admin
  profile,          \* DataKey::Profile
  total_exposure,   \* DataKey::Metrics
  inits,            \* calls of init so far
  atInit            \* history: the exposure of all profiles when init last ran

riskVars == <<admin, profile, total_exposure, inits, atInit>>

\* What all participants are exposed to.
Exposure == SumFunction([u \in User |->
              IF profile[u] = None THEN 0 ELSE profile[u].exposure])

RiskInit ==
  /\ admin = None
  /\ profile = [u \in User |-> None]
  /\ total_exposure = 0
  /\ inits = 0
  /\ atInit = 0

init(a) ==
  /\ inits < MaxInits
  /\ inits' = inits + 1
  /\ admin' = a
  /\ total_exposure' = 0
  /\ atInit' = Exposure
  /\ UNCHANGED profile

register_participant(u, threshold) ==
  /\ threshold > 0
  /\ profile[u] = None
  /\ profile' = [profile EXCEPT ![u] =
       [exposure |-> 0, risk_score |-> 0, alert_threshold |-> threshold]]
  /\ UNCHANGED <<admin, total_exposure, inits, atInit>>

\* Mutant: the score is not capped.
Score_uncapped(exposure, threshold) ==
  LET raw == DivI128(Wrap(exposure * Scale), threshold)
  IN  IF raw < 0 THEN 0 ELSE raw

Score(exposure, threshold) ==
  LET raw == DivI128(Wrap(exposure * Scale), threshold)
  IN  IF raw > Scale THEN Scale ELSE IF raw < 0 THEN 0 ELSE raw

NewTotal(old, new) == Wrap(Wrap(total_exposure - old) + new)

update_exposure(u, delta) ==
  /\ profile[u] # None
  /\ LET new == Wrap(profile[u].exposure + delta) IN
     /\ profile' = [profile EXCEPT ![u].exposure = new,
          ![u].risk_score = Score(new, profile[u].alert_threshold)]
     /\ total_exposure' = NewTotal(profile[u].exposure, new)
  /\ UNCHANGED <<admin, inits, atInit>>

\* enforce_limit answers without a change of state.
enforce_limit(u) ==
  profile[u] # None /\ profile[u].exposure <= profile[u].alert_threshold

reset_exposure(a, u) ==
  /\ a = admin
  /\ profile[u] # None
  /\ profile' = [profile EXCEPT ![u].exposure = 0, ![u].risk_score = 0]
  /\ total_exposure' = NewTotal(profile[u].exposure, 0)
  /\ UNCHANGED <<admin, inits, atInit>>

RiskNext ==
  \/ \E a \in User : init(a)
  \/ \E u \in User, t \in Thresholds : register_participant(u, t)
  \/ \E u \in User, d \in Deltas : update_exposure(u, d)
  \/ \E a, u \in User : reset_exposure(a, u)

RiskSpec == RiskInit /\ [][RiskNext]_riskVars

-----------------------------------------------------------------------------
RiskTypeOK ==
  /\ admin \in User \cup {None}
  /\ profile \in [User -> Profile \cup {None}]
  /\ total_exposure \in I128
  /\ inits \in 0 .. MaxInits
  /\ atInit \in Int

\* update_exposure and reset_exposure keep the total in step with the profiles:
\* it is what they add up to beyond what they did when init last ran, modulo
\* the width of an i128.
TotalInStep == total_exposure = Wrap(Exposure - atInit)

\* update_exposure and reset_exposure leave no stale score: as long as the score
\* does not overflow it is full exactly when the exposure has reached the
\* threshold, and so for everyone enforce_limit turns away.
Scorable(x) == Abs(x) * Scale <= I128Max
ScoreFollowsExposure ==
  \A u \in User :
    profile[u] # None /\ Scorable(profile[u].exposure) =>
      /\ profile[u].risk_score = Scale
           <=> profile[u].exposure >= profile[u].alert_threshold
      /\ ~enforce_limit(u) => profile[u].risk_score = Scale

\* The inductive invariant behind ScoreFollowsExposure: no score is older than the
\* exposure beside it.
ScoresFresh ==
  \A u \in User :
    profile[u] # None =>
      profile[u].risk_score = Score(profile[u].exposure, profile[u].alert_threshold)
RiskInv == RiskTypeOK /\ TotalInStep /\ ScoresFresh
=============================================================================
