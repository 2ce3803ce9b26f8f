---------------------------- MODULE TipJarProofs ----------------------------
(***************************************************************************)
(* Proofs about the tip jar: its governance and its circuit breaker, then  *)
(* the escrow, for every finite set of creators and every set of           *)
(* addresses, tokens, amounts, fee rates, delays and ledger bounds.        *)
(***************************************************************************)
EXTENDS TipJar, SumTheorems, TLAPS


\* Ledger sums stay u32.
LEMMA AddU32Type ==
  ASSUME NEW x \in Ledger, NEW y \in Ledger
  PROVE  AddU32(x, y) \in Ledger
BY GovernanceAssumption DEF AddU32, Ledger

\* A ledger sum that fits does not wrap.
LEMMA AddU32Exact ==
  ASSUME NEW x \in Nat, NEW y \in Nat, x + y < U32
  PROVE  AddU32(x, y) = x + y
BY GovernanceAssumption DEF AddU32

\* Every ledger of a behaviour is a u32.
LEMMA SeqIsLedger ==
  ASSUME seq \in 0 .. MaxLedger
  PROVE  seq \in Ledger
BY GovernanceAssumption DEF Ledger

-----------------------------------------------------------------------------
\* Every step of governance keeps every storage entry in its type: deadlines
\* stay u32 and an absent entry is never read as a present one.
LEMMA GovTypeStep == GovTypeOK /\ [GovNext]_govVars => GovTypeOK'
<1> SUFFICES ASSUME GovTypeOK, [GovNext]_govVars
             PROVE  GovTypeOK'
  OBVIOUS
<1> USE GovernanceAssumption
<1>0. seq \in Ledger
  BY SeqIsLedger DEF GovTypeOK
<1>1. CASE CloseLedger
  BY <1>1 DEF CloseLedger, GovTypeOK, Ledger
<1>2. CASE InitCall
  BY <1>2 DEF InitCall, init, GovTypeOK, DataVersion
<1>3. ASSUME NEW a \in Signer, NEW b \in AdminCandidates, propose_admin(a, b)
      PROVE  GovTypeOK'
  <2>1. pendingAdmin' \in Offers
    BY <1>0, <1>3, AddU32Type DEF propose_admin, Offers
  <2>2. origin'.admin \in Origins /\ origin' = [origin EXCEPT !.admin = origin'.admin]
    BY <1>0, <1>3 DEF propose_admin, GovTypeOK, Origins
  <2> QED BY <1>3, <2>1, <2>2 DEF propose_admin, GovTypeOK
<1>4. ASSUME NEW a \in Signer, NEW b \in CollectorCandidates,
             propose_fee_collector(a, b)
      PROVE  GovTypeOK'
  <2>1. pendingFeeCollector' \in Offers
    BY <1>0, <1>4, AddU32Type DEF propose_fee_collector, Offers
  <2>2. /\ origin'.collector \in Origins
        /\ origin' = [origin EXCEPT !.collector = origin'.collector]
    BY <1>0, <1>4 DEF propose_fee_collector, GovTypeOK, Origins
  <2> QED BY <1>4, <2>1, <2>2 DEF propose_fee_collector, GovTypeOK
<1>5. ASSUME NEW a \in Signer, NEW h \in Hashes, propose_upgrade(a, h)
      PROVE  GovTypeOK'
  <2>1. pendingUpgrade' \in Upgrades
    <3>1. timelock \in Ledger
      BY <1>5 DEF propose_upgrade, GovTypeOK
    <3> QED BY <1>0, <1>5, <3>1, AddU32Type DEF propose_upgrade, Upgrades
  <2>2. /\ origin'.upgrade \in Origins
        /\ origin' = [origin EXCEPT !.upgrade = origin'.upgrade]
    BY <1>0, <1>5 DEF propose_upgrade, GovTypeOK, Origins
  <2> QED BY <1>5, <2>1, <2>2 DEF propose_upgrade, GovTypeOK
<1>6. ASSUME NEW a \in Signer, accept_admin(a)
      PROVE  GovTypeOK'
  BY <1>6 DEF accept_admin, GovTypeOK
<1>7. ASSUME NEW a \in Signer, cancel_admin_transfer(a)
      PROVE  GovTypeOK'
  BY <1>7 DEF cancel_admin_transfer, GovTypeOK
<1>8. ASSUME NEW a \in Signer, accept_fee_collector(a)
      PROVE  GovTypeOK'
  BY <1>8 DEF accept_fee_collector, GovTypeOK
<1>9. ASSUME NEW a \in Signer, cancel_fee_collector_transfer(a)
      PROVE  GovTypeOK'
  BY <1>9 DEF cancel_fee_collector_transfer, GovTypeOK
<1>10. ASSUME NEW a \in Signer, cancel_upgrade(a)
       PROVE  GovTypeOK'
  BY <1>10 DEF cancel_upgrade, GovTypeOK
<1>11. CASE execute_upgrade
  BY <1>11 DEF execute_upgrade, GovTypeOK, Upgrades
<1>12. ASSUME NEW a \in Signer, migrate(a)
       PROVE  GovTypeOK'
  BY <1>12 DEF migrate, GovTypeOK
<1>13. CASE UNCHANGED govVars
  BY <1>13 DEF govVars, GovTypeOK
<1> QED
  BY <1>1, <1>2, <1>3, <1>4, <1>5, <1>6, <1>7, <1>8, <1>9, <1>10, <1>11,
     <1>12, <1>13 DEF GovNext, GovStep

\* Type correctness of the governance component in every reachable state.
THEOREM GovTypeCorrect == GovSpec => []GovTypeOK
<1>1. GovInit => GovTypeOK
  BY GovernanceAssumption
  DEF GovInit, Fresh, UpgradedFromV1, GovTypeOK, DataVersion, Ledger
<1> QED BY <1>1, GovTypeStep, PTL DEF GovSpec

-----------------------------------------------------------------------------
\* The inductive step for the offers and deadlines.
LEMMA GovInvStep ==
  ASSUME NoWrap, GovInv, [GovNext]_govVars
  PROVE  GovInv'
<1> USE GovernanceAssumption
<1>0. GovTypeOK' /\ GovTypeOK /\ seq \in Ledger
  BY GovTypeStep, SeqIsLedger DEF GovInv, GovTypeOK
<1> SUFFICES NoStaleAdminOffer' /\ DeadlinesExact'
  BY <1>0 DEF GovInv
<1>1. CASE CloseLedger
  BY <1>1 DEF CloseLedger, GovInv, NoStaleAdminOffer, DeadlinesExact
<1>2. CASE InitCall
  BY <1>2, <1>0
  DEF InitCall, init, GovInv, NoStaleAdminOffer, DeadlinesExact
<1>3. ASSUME NEW a \in Signer, NEW b \in AdminCandidates, propose_admin(a, b)
      PROVE  NoStaleAdminOffer' /\ DeadlinesExact'
  <2>1. AddU32(seq, TransferExpiry) = seq + TransferExpiry
    BY <1>0, AddU32Exact DEF NoWrap, GovTypeOK, Ledger
  <2>2. [by |-> a, at |-> seq] \in Origins
    BY <1>0 DEF Origins
  <2> QED BY <1>3, <1>0, <2>1, <2>2
          DEF propose_admin, RequireAdmin, GovInv, NoStaleAdminOffer,
              DeadlinesExact, GovTypeOK
<1>4. ASSUME NEW a \in Signer, NEW b \in CollectorCandidates,
             propose_fee_collector(a, b)
      PROVE  NoStaleAdminOffer' /\ DeadlinesExact'
  <2>1. AddU32(seq, TransferExpiry) = seq + TransferExpiry
    BY <1>0, AddU32Exact DEF NoWrap, GovTypeOK, Ledger
  <2>2. [by |-> a, at |-> seq] \in Origins
    BY <1>0 DEF Origins
  <2> QED BY <1>4, <1>0, <2>1, <2>2
          DEF propose_fee_collector, RequireAdmin, GovInv, NoStaleAdminOffer,
              DeadlinesExact, GovTypeOK
<1>5. ASSUME NEW a \in Signer, NEW h \in Hashes, propose_upgrade(a, h)
      PROVE  NoStaleAdminOffer' /\ DeadlinesExact'
  <2>1. timelock \in Timelocks
    BY <1>5, <1>0 DEF propose_upgrade, GovTypeOK
  <2>2. AddU32(seq, timelock) = seq + timelock
    BY <1>0, <2>1, AddU32Exact DEF NoWrap, GovTypeOK, Ledger
  <2>3. [by |-> a, at |-> seq] \in Origins
    BY <1>0 DEF Origins
  <2> QED BY <1>5, <1>0, <2>2, <2>3
          DEF propose_upgrade, RequireAdmin, GovInv, NoStaleAdminOffer,
              DeadlinesExact, GovTypeOK
<1>6. ASSUME NEW a \in Signer, accept_admin(a)
      PROVE  NoStaleAdminOffer' /\ DeadlinesExact'
  BY <1>6, <1>0
  DEF accept_admin, GovInv, NoStaleAdminOffer, DeadlinesExact, GovTypeOK
<1>7. ASSUME NEW a \in Signer, cancel_admin_transfer(a)
      PROVE  NoStaleAdminOffer' /\ DeadlinesExact'
  BY <1>7, <1>0 DEF cancel_admin_transfer, GovInv, NoStaleAdminOffer,
                    DeadlinesExact, GovTypeOK
<1>8. ASSUME NEW a \in Signer, accept_fee_collector(a)
      PROVE  NoStaleAdminOffer' /\ DeadlinesExact'
  BY <1>8, <1>0 DEF accept_fee_collector, GovInv, NoStaleAdminOffer,
                    DeadlinesExact, GovTypeOK
<1>9. ASSUME NEW a \in Signer, cancel_fee_collector_transfer(a)
      PROVE  NoStaleAdminOffer' /\ DeadlinesExact'
  BY <1>9, <1>0 DEF cancel_fee_collector_transfer, GovInv, NoStaleAdminOffer,
                    DeadlinesExact, GovTypeOK
<1>10. ASSUME NEW a \in Signer, cancel_upgrade(a)
       PROVE  NoStaleAdminOffer' /\ DeadlinesExact'
  BY <1>10, <1>0
  DEF cancel_upgrade, GovInv, NoStaleAdminOffer, DeadlinesExact, GovTypeOK
<1>11. CASE execute_upgrade
  BY <1>11, <1>0
  DEF execute_upgrade, GovInv, NoStaleAdminOffer, DeadlinesExact, GovTypeOK
<1>12. ASSUME NEW a \in Signer, migrate(a)
       PROVE  NoStaleAdminOffer' /\ DeadlinesExact'
  BY <1>12 DEF migrate, GovInv, NoStaleAdminOffer, DeadlinesExact
<1>13. CASE UNCHANGED govVars
  BY <1>13 DEF govVars, GovInv, NoStaleAdminOffer, DeadlinesExact
<1> QED
  BY <1>1, <1>2, <1>3, <1>4, <1>5, <1>6, <1>7, <1>8, <1>9, <1>10, <1>11,
     <1>12, <1>13 DEF GovNext, GovStep

\* The inductive invariant holds in every reachable state of a jar whose
\* deadlines do not wrap.
THEOREM GovInvariant == ASSUME NoWrap PROVE GovSpec => []GovInv
<1>1. GovInit => GovInv
  <2> SUFFICES ASSUME GovInit PROVE GovInv
    OBVIOUS
  <2>1. GovTypeOK
    BY GovernanceAssumption
    DEF GovInit, Fresh, UpgradedFromV1, GovTypeOK, DataVersion, Ledger
  <2>2. timelock # None => admin # None
    BY GovernanceAssumption DEF GovInit, Fresh, UpgradedFromV1
  <2> QED BY <2>1, <2>2 DEF GovInit, GovInv, NoStaleAdminOffer, DeadlinesExact
<1>2. GovInv /\ [GovNext]_govVars => GovInv'
  BY GovInvStep
<1> QED BY <1>1, <1>2, PTL DEF GovSpec

\* No admin offer outlives the admin that made it.
THEOREM AdminOffersAreCurrent ==
  ASSUME NoWrap PROVE GovSpec => []NoStaleAdminOffer
<1>1. GovInv => NoStaleAdminOffer
  BY DEF GovInv
<1> QED BY <1>1, GovInvariant, PTL

\* The upgrade timelock cannot be cut short: not by cancelling and proposing
\* again, not by rotating the admin, not by who executes.
THEOREM UpgradesAreTimelocked ==
  ASSUME NoWrap PROVE GovSpec => UpgradeTimelocked
<1>1. ASSUME GovInv, [GovNext]_govVars, wasm' # wasm
      PROVE  origin.upgrade # None /\ seq >= origin.upgrade.at + timelock
  <2>1. execute_upgrade
    BY <1>1 DEF GovNext, GovStep, govVars, CloseLedger, InitCall, init,
       propose_admin, accept_admin, cancel_admin_transfer,
       propose_fee_collector, accept_fee_collector,
       cancel_fee_collector_transfer, propose_upgrade, cancel_upgrade, migrate
  <2>2. GovTypeOK /\ DeadlinesExact
    BY <1>1 DEF GovInv
  <2>3. seq \in Int /\ pendingUpgrade.unlock \in Int
    BY <2>1, <2>2, GovernanceAssumption
    DEF execute_upgrade, GovTypeOK, Upgrades, Ledger
  <2> QED BY <2>1, <2>2, <2>3 DEF execute_upgrade, DeadlinesExact
<1>2. GovInv /\ [GovNext]_govVars =>
        [wasm' # wasm => /\ origin.upgrade # None
                         /\ seq >= origin.upgrade.at + timelock]_govVars
  BY <1>1 DEF govVars
<1> QED BY <1>2, GovInvariant, PTL DEF GovSpec, UpgradeTimelocked

-----------------------------------------------------------------------------
\* A stored proposal is seen as an offer, never as the absence of one.
LEMMA OfferIsSome ==
  ASSUME NEW p \in Offers
  PROVE  OfferOf(p) # None
BY GovernanceAssumption DEF OfferOf, Offers

\* The admin role is handed over as Handover specifies: every step of
\* governance is a step of the abstract role, or leaves it alone.
THEOREM AdminHandoverImplemented == ASSUME NoWrap PROVE GovSpec => AdminHandover
<1> USE GovernanceAssumption
<1> DEFINE Maps == [AdminRole!Next]_(AdminRole!vars)
<1>1. GovInit => AdminRole!Init
  BY DEF GovInit, Fresh, UpgradedFromV1, AdminRole!Init, OfferOf
<1>2. ASSUME GovInv, [GovNext]_govVars
      PROVE  Maps
  <2>0. GovTypeOK /\ DeadlinesExact /\ seq \in Ledger
    BY <1>2, SeqIsLedger DEF GovInv, GovTypeOK
  <2>1. CASE CloseLedger
    BY <2>1 DEF CloseLedger, AdminRole!Next, AdminRole!Pass, OfferOf
  <2>2. CASE InitCall
    BY <2>2, <2>0 DEF InitCall, init, AdminRole!Next, AdminRole!Install, OfferOf,
              DeadlinesExact
  <2>3. ASSUME NEW a \in Signer, NEW b \in AdminCandidates, propose_admin(a, b)
        PROVE  Maps
    <3>1. AddU32(seq, TransferExpiry) = seq + TransferExpiry
      BY <2>0, AddU32Exact DEF NoWrap, GovTypeOK, Ledger
    <3>2. pendingAdmin' = [to |-> b, expiry |-> seq + TransferExpiry]
      BY <2>3, <3>1 DEF propose_admin
    <3>3. pendingAdmin' # None
      <4>1. pendingAdmin' \in Offers
        BY <2>0, <2>3, AddU32Type DEF propose_admin, Offers
      <4> QED BY <4>1
    <3>4. OfferOf(pendingAdmin)' = [to |-> b, until |-> seq + TransferExpiry]
      BY <3>2, <3>3 DEF OfferOf
    <3>5. AdminRole!Offer(b)
      BY <2>3, <3>4 DEF propose_admin, AdminRole!Offer, OfferOf
    <3> QED BY <3>5 DEF AdminRole!Next
  <2>4. ASSUME NEW a \in Signer, accept_admin(a)
        PROVE  Maps
    <3>1. AdminRole!Take
      <4>1. pendingAdmin \in Offers
        BY <2>0, <2>4 DEF accept_admin, GovTypeOK
      <4>2. OfferOf(pendingAdmin) = [to |-> pendingAdmin.to, until |-> pendingAdmin.expiry]
        BY <2>4 DEF accept_admin, OfferOf
      <4>3. OfferOf(pendingAdmin) # None
        BY <2>0, <2>4, <4>1, <4>2, OfferIsSome DEF accept_admin
      <4>4. OfferOf(pendingAdmin)' = None
        BY <2>4 DEF accept_admin, OfferOf
      <4>5. seq <= pendingAdmin.expiry
        BY <2>0, <2>4, <4>1 DEF accept_admin, Offers, Ledger
      <4> QED BY <2>4, <4>2, <4>3, <4>4, <4>5 DEF accept_admin, AdminRole!Take
    <3> QED BY <3>1 DEF AdminRole!Next
  <2>5. ASSUME NEW a \in Signer, cancel_admin_transfer(a)
        PROVE  Maps
    <3>1. AdminRole!Retract
      <4>1. pendingAdmin \in Offers
        BY <2>0, <2>5 DEF cancel_admin_transfer, GovTypeOK
      <4>2. OfferOf(pendingAdmin) # None
        BY <4>1, OfferIsSome
      <4> QED BY <2>5, <4>2 DEF cancel_admin_transfer, AdminRole!Retract, OfferOf
    <3> QED BY <3>1 DEF AdminRole!Next
  <2>6. ASSUME UNCHANGED <<seq, admin, pendingAdmin>>
        PROVE  Maps
    BY <2>6 DEF AdminRole!vars, OfferOf
  <2>7. CASE UNCHANGED govVars
    BY <2>6, <2>7 DEF govVars
  <2> QED
    BY <1>2, <2>1, <2>2, <2>3, <2>4, <2>5, <2>6, <2>7
    DEF GovNext, GovStep, propose_fee_collector, accept_fee_collector,
        cancel_fee_collector_transfer, propose_upgrade, cancel_upgrade,
        execute_upgrade, migrate
<1> QED BY <1>1, <1>2, GovInvariant, PTL DEF GovSpec, AdminHandover, AdminRole!Spec


\* The fee-collector role is handed over as Handover specifies, although the
\* admin, not the collector, makes the offers.
THEOREM CollectorHandoverImplemented == ASSUME NoWrap PROVE GovSpec => CollectorHandover
<1> USE GovernanceAssumption
<1> DEFINE Maps == [CollectorRole!Next]_(CollectorRole!vars)
<1>1. GovInit => CollectorRole!Init
  BY DEF GovInit, Fresh, UpgradedFromV1, CollectorRole!Init, OfferOf
<1>2. ASSUME GovInv, [GovNext]_govVars
      PROVE  Maps
  <2>0. GovTypeOK /\ DeadlinesExact /\ seq \in Ledger
    BY <1>2, SeqIsLedger DEF GovInv, GovTypeOK
  <2>1. CASE CloseLedger
    BY <2>1 DEF CloseLedger, CollectorRole!Next, CollectorRole!Pass, OfferOf
  <2>2. CASE InitCall
    BY <2>2, <2>0 DEF InitCall, init, CollectorRole!vars, OfferOf
  <2>3. ASSUME NEW a \in Signer, NEW b \in CollectorCandidates, propose_fee_collector(a, b)
        PROVE  Maps
    <3>1. AddU32(seq, TransferExpiry) = seq + TransferExpiry
      BY <2>0, AddU32Exact DEF NoWrap, GovTypeOK, Ledger
    <3>2. pendingFeeCollector' = [to |-> b, expiry |-> seq + TransferExpiry]
      BY <2>3, <3>1 DEF propose_fee_collector
    <3>3. pendingFeeCollector' # None
      <4>1. pendingFeeCollector' \in Offers
        BY <2>0, <2>3, AddU32Type DEF propose_fee_collector, Offers
      <4> QED BY <4>1
    <3>4. OfferOf(pendingFeeCollector)' = [to |-> b, until |-> seq + TransferExpiry]
      BY <3>2, <3>3 DEF OfferOf
    <3>5. CollectorRole!Offer(b)
      BY <2>3, <3>4 DEF propose_fee_collector, CollectorRole!Offer, OfferOf
    <3> QED BY <3>5 DEF CollectorRole!Next
  <2>4. ASSUME NEW a \in Signer, accept_fee_collector(a)
        PROVE  Maps
    <3>1. CollectorRole!Take
      <4>1. pendingFeeCollector \in Offers
        BY <2>0, <2>4 DEF accept_fee_collector, GovTypeOK
      <4>2. OfferOf(pendingFeeCollector) = [to |-> pendingFeeCollector.to, until |-> pendingFeeCollector.expiry]
        BY <2>4 DEF accept_fee_collector, OfferOf
      <4>3. OfferOf(pendingFeeCollector) # None
        BY <2>0, <2>4, <4>1, <4>2, OfferIsSome DEF accept_fee_collector
      <4>4. OfferOf(pendingFeeCollector)' = None
        BY <2>4 DEF accept_fee_collector, OfferOf
      <4>5. seq <= pendingFeeCollector.expiry
        BY <2>0, <2>4, <4>1 DEF accept_fee_collector, Offers, Ledger
      <4> QED BY <2>4, <4>2, <4>3, <4>4, <4>5 DEF accept_fee_collector, CollectorRole!Take
    <3> QED BY <3>1 DEF CollectorRole!Next
  <2>5. ASSUME NEW a \in Signer, cancel_fee_collector_transfer(a)
        PROVE  Maps
    <3>1. CollectorRole!Retract
      <4>1. pendingFeeCollector \in Offers
        BY <2>0, <2>5 DEF cancel_fee_collector_transfer, GovTypeOK
      <4>2. OfferOf(pendingFeeCollector) # None
        BY <4>1, OfferIsSome
      <4> QED BY <2>5, <4>2 DEF cancel_fee_collector_transfer, CollectorRole!Retract, OfferOf
    <3> QED BY <3>1 DEF CollectorRole!Next
  <2>6. ASSUME UNCHANGED <<seq, feeCollector, pendingFeeCollector>>
        PROVE  Maps
    BY <2>6 DEF CollectorRole!vars, OfferOf
  <2>7. CASE UNCHANGED govVars
    BY <2>6, <2>7 DEF govVars
  <2> QED
    BY <1>2, <2>1, <2>2, <2>3, <2>4, <2>5, <2>6, <2>7
    DEF GovNext, GovStep, propose_admin, accept_admin,
        cancel_admin_transfer, propose_upgrade, cancel_upgrade,
        execute_upgrade, migrate
<1> QED BY <1>1, <1>2, GovInvariant, PTL DEF GovSpec, CollectorHandover, CollectorRole!Spec

-----------------------------------------------------------------------------
(* The circuit breaker *)

\* A step of the breaker leaves governance alone.
LEMMA BreakerKeepsGov == BreakerStep => UNCHANGED govVars
BY DEF BreakerStep, set_guardian, set_guardian_pause_duration, pause_internal,
       AdminPause, GuardianPause, unpause_internal

\* Every step of governance or of the breaker keeps governance well typed.
LEMMA PauseKeepsGovType ==
  ASSUME GovTypeOK, [PauseNext]_pauseVars
  PROVE  GovTypeOK'
<1>1. CASE BreakerStep
  BY <1>1, BreakerKeepsGov, GovTypeStep
<1>2. CASE GovStep
  BY <1>2, GovTypeStep DEF GovNext
<1>3. CASE InitCall
  BY <1>3, GovTypeStep DEF GovNext
<1>4. CASE UNCHANGED pauseVars
  BY <1>4, GovTypeStep DEF pauseVars
<1> QED BY <1>1, <1>2, <1>3, <1>4 DEF PauseNext, PauseStep

\* The configured duration of a guardian pause is a u32 other than 0.
LEMMA DurationType ==
  ASSUME PauseInv
  PROVE  guardian_pause_duration \in Ledger \ {0}
BY PauseAssumption, GovernanceAssumption
DEF PauseInv, PauseTypeOK, guardian_pause_duration, Ledger

\* The inductive step.
LEMMA PauseInvStep ==
  ASSUME PauseInv, [PauseNext]_pauseVars
  PROVE  PauseInv'
<1> USE GovernanceAssumption, PauseAssumption
<1>0. GovTypeOK' /\ GovTypeOK /\ seq \in Ledger
  BY PauseKeepsGovType, SeqIsLedger DEF PauseInv, GovTypeOK
<1>1. ASSUME NEW a \in Signer, NEW g \in Guardians, set_guardian(a, g)
      PROVE  PauseInv'
  BY <1>0, <1>1 DEF set_guardian, PauseInv, PauseTypeOK
<1>2. ASSUME NEW a \in Signer, NEW d \in Durations,
             set_guardian_pause_duration(a, d)
      PROVE  PauseInv'
  BY <1>0, <1>2 DEF set_guardian_pause_duration, PauseInv, PauseTypeOK
<1>3. ASSUME NEW a \in Signer, NEW F \in PauseCalls, AdminPause(a, F)
      PROVE  PauseInv'
  <2>1. F \subseteq Flag
    BY DEF FlagSets, Flag, PAUSE_FLAG_ALL
  <2> QED BY <1>0, <1>3, <2>1 DEF AdminPause, PauseInv, PauseTypeOK
<1>4. ASSUME NEW a \in Signer, NEW F \in PauseCalls, GuardianPause(a, F)
      PROVE  PauseInv'
  <2>1. F \subseteq Flag
    BY DEF FlagSets, Flag, PAUSE_FLAG_ALL
  <2>2. AddU32(seq, guardian_pause_duration) \in Ledger
    BY <1>0, DurationType, AddU32Type
  <2> QED BY <1>0, <1>4, <2>1, <2>2 DEF GuardianPause, PauseInv, PauseTypeOK
<1>5. ASSUME NEW a \in Signer, NEW F \in PauseCalls, unpause_internal(a, F)
      PROVE  PauseInv'
  BY <1>0, <1>5 DEF unpause_internal, PauseInv, PauseTypeOK
<1>6. ASSUME UNCHANGED breakerVars
      PROVE  PauseInv'
  BY <1>0, <1>6 DEF breakerVars, PauseInv, PauseTypeOK
<1> QED
  BY <1>1, <1>2, <1>3, <1>4, <1>5, <1>6
  DEF PauseNext, PauseStep, BreakerStep, pause_internal, pauseVars

\* The breaker starts in its invariant.
LEMMA PauseInvInit == PauseInit => PauseInv
<1> SUFFICES ASSUME PauseInit PROVE PauseInv
  OBVIOUS
<1>1. GovTypeOK
  BY GovernanceAssumption
  DEF PauseInit, GovInit, Fresh, UpgradedFromV1, GovTypeOK, DataVersion, Ledger
<1>2. None # 0 /\ 0 \in Ledger
  BY GovernanceAssumption, PauseAssumption DEF Ledger
<1> QED BY <1>1, <1>2 DEF PauseInit, BreakerInit, PauseInv, PauseTypeOK

\* The breaker's invariant in every reachable state.
THEOREM PauseInvariant == PauseSpec => []PauseInv
<1>1. PauseInv /\ [PauseNext]_pauseVars => PauseInv'
  BY PauseInvStep
<1> QED BY <1>1, PauseInvInit, PTL DEF PauseSpec

\* The breaker's storage keeps its type; a guardian pause's expiry stays a u32.
THEOREM PauseTypeCorrect == PauseSpec => []PauseTypeOK
<1>1. PauseInv => PauseTypeOK
  BY DEF PauseInv
<1> QED BY <1>1, PauseInvariant, PTL

\* Whatever guardians do and however time passes, what the admin paused stays
\* paused until the admin unpauses it.
THEOREM AdminPausesHold == PauseSpec => []AdminPauseHolds
<1>1. PauseInv => AdminPauseHolds
  BY DEF PauseInv, AdminPauseHolds, effective_pause_flags
<1> QED BY <1>1, PauseInvariant, PTL

\* Only the admin or the passing of time ends a pause, provided the expiry of a
\* guardian pause does not wrap.
THEOREM PausesEndByAdminOrExpiry ==
  ASSUME NoPauseWrap PROVE PauseSpec => PauseEndsOnlyByAdminOrExpiry
<1> DEFINE Ends(f) ==
      \/ seq' > seq /\ f \notin adminHold
      \/ \E F \in FlagSets : f \in F /\ unpause_internal(admin, F)
<1>1. ASSUME PauseInv, [PauseNext]_pauseVars,
             NEW f \in effective_pause_flags \ effective_pause_flags'
      PROVE  Ends(f)
  <2> USE GovernanceAssumption, PauseAssumption
  <2>0. /\ GovTypeOK /\ seq \in Ledger
        /\ pause \in [admin_flags : SUBSET Flag, guardian_flags : SUBSET Flag,
                      guardian_expiry : Ledger]
    BY <1>1, SeqIsLedger DEF PauseInv, PauseTypeOK, GovTypeOK
  <2>1. CASE CloseLedger /\ UNCHANGED breakerVars
    <3>1. seq' > seq
      BY <2>0, <2>1 DEF CloseLedger, Ledger
    <3>2. f \notin adminHold
      BY <1>1, <2>1 DEF PauseInv, effective_pause_flags, breakerVars
    <3> QED BY <3>1, <3>2
  <2>2. ASSUME NEW a \in Signer, NEW F \in PauseCalls, unpause_internal(a, F)
        PROVE  Ends(f)
    <3>1. f \in F
      BY <1>1, <2>2 DEF unpause_internal, effective_pause_flags, govVars
    <3>2. a = admin /\ F \in FlagSets
      BY <2>2 DEF unpause_internal, RequireAdmin
    <3> QED BY <2>2, <3>1, <3>2
  <2>3. ASSUME NEW a \in Signer, NEW F \in PauseCalls, AdminPause(a, F)
        PROVE  Ends(f)
    BY <1>1, <2>3 DEF AdminPause, effective_pause_flags, govVars
  <2>4. ASSUME NEW a \in Signer, NEW F \in PauseCalls, GuardianPause(a, F)
        PROVE  Ends(f)
    <3>1. guardian_pause_duration \in Ledger \ {0}
      BY <1>1, DurationType
    <3>2. seq + guardian_pause_duration < U32
      BY <1>1, <2>0
      DEF NoPauseWrap, guardian_pause_duration, PauseInv, PauseTypeOK,
          GovTypeOK, Ledger
    <3>3. seq < AddU32(seq, guardian_pause_duration)
      BY <2>0, <3>1, <3>2, AddU32Exact DEF Ledger
    <3> QED BY <1>1, <2>0, <2>4, <3>3
            DEF GuardianPause, effective_pause_flags, govVars
  <2>5. ASSUME UNCHANGED <<seq, pause>>
        PROVE  Ends(f)
    BY <1>1, <2>5 DEF effective_pause_flags
  <2>6. CASE InitCall /\ UNCHANGED breakerVars
    BY <2>5, <2>6 DEF InitCall, init, breakerVars
  <2>7. CASE GovStep /\ UNCHANGED breakerVars
    BY <2>1, <2>5, <2>7
    DEF GovStep, breakerVars, execute_upgrade, accept_admin,
        cancel_admin_transfer, accept_fee_collector,
        cancel_fee_collector_transfer, cancel_upgrade, migrate,
        propose_admin, propose_fee_collector, propose_upgrade
  <2>8. CASE UNCHANGED pauseVars
    BY <2>5, <2>8 DEF pauseVars, govVars, breakerVars
  <2> QED
    BY <1>1, <2>2, <2>3, <2>4, <2>5, <2>6, <2>7, <2>8
    DEF PauseNext, PauseStep, BreakerStep, pause_internal, set_guardian,
        set_guardian_pause_duration, govVars
<1>2. PauseInv /\ [PauseNext]_pauseVars =>
        [\A f \in effective_pause_flags \ effective_pause_flags' :
           Ends(f)]_pauseVars
  BY <1>1
<1> QED
  BY <1>2, PauseInvariant, PTL DEF PauseSpec, PauseEndsOnlyByAdminOrExpiry

-----------------------------------------------------------------------------
(* The escrow *)

\* The fee is a part of the tip, and a rate of zero takes nothing.
LEMMA FeeWithinTip ==
  ASSUME NEW amount \in Nat, NEW bps \in 0 .. MaxFeeBps
  PROVE  /\ fee_for(amount, bps) \in 0 .. amount
         /\ bps = 0 => fee_for(amount, bps) = 0
<1>1. BpsDenominator \in Nat \ {0} /\ bps \in 0 .. BpsDenominator
  BY JarAssumption
<1>2. amount * bps <= amount * BpsDenominator /\ amount * bps \in Nat
  BY <1>1
<1> DEFINE x == amount * bps
<1>3. x \div BpsDenominator \in Nat /\ x \div BpsDenominator <= amount
  <2> HIDE DEF x
  <2>1. x \in Nat /\ x <= amount * BpsDenominator
    BY <1>2 DEF x
  <2> QED BY <1>1, <2>1
<1>4. bps = 0 => x \div BpsDenominator = 0
  BY <1>1
<1> QED BY <1>3, <1>4 DEF fee_for

\* A transfer moves the amount between two addresses, or nothing between an
\* address and itself.
LEMMA TransferEffect ==
  ASSUME wallet \in [Token -> [Address -> Nat]], NEW t \in Token,
         NEW from \in Address, NEW to \in Address, NEW amount \in Nat,
         Transfer(t, from, to, amount)
  PROVE  /\ wallet' \in [Token -> [Address -> Nat]]
         /\ \A u \in Token \ {t} : wallet'[u] = wallet[u]
         /\ \A a \in Address :
              wallet'[t][a] =
                CASE from # to /\ a = from -> wallet[t][a] - amount
                  [] from # to /\ a = to -> wallet[t][a] + amount
                  [] OTHER -> wallet[t][a]
<1> DEFINE w == wallet[t]
           v == [a \in Address |-> w[a] - (IF a = from THEN amount ELSE 0)
                                        + (IF a = to THEN amount ELSE 0)]
<1>1. w \in [Address -> Nat] /\ w[from] >= amount
  BY DEF Transfer
<1>2. wallet' = [wallet EXCEPT ![t] = v]
  BY DEF Transfer
<1>3. wallet'[t] = v /\ \A u \in Token \ {t} : wallet'[u] = wallet[u]
  BY <1>2
<1> HIDE DEF w
<1>4. v \in [Address -> Nat]
  BY <1>1
<1>5. \A a \in Address :
        v[a] = CASE from # to /\ a = from -> w[a] - amount
                 [] from # to /\ a = to -> w[a] + amount
                 [] OTHER -> w[a]
  BY <1>1
<1> HIDE DEF v
<1>6. wallet' \in [Token -> [Address -> Nat]]
  BY <1>2, <1>4
<1> QED BY <1>3, <1>5, <1>6 DEF w

-----------------------------------------------------------------------------
\* What a creator may withdraw, and what it was tipped, are i128 amounts.
LEMMA MigratedType ==
  ASSUME TypeOK, NEW c \in Creator, NEW t \in Token
  PROVE  /\ MigratedBalance(c, t) \in Amount
         /\ MigratedTotal(c, t) \in Amount
         /\ MigratedFee(t) \in Nat
BY JarAssumption
DEF TypeOK, MigratedBalance, MigratedTotal, MigratedFee, HasV1, HasV1Fee, Amount

\* Writing a creator's migrated balance and removing its v1 entry changes what
\* that creator may withdraw of that token, and nothing else.
LEMMA BalanceWrite ==
  ASSUME TypeOK, NEW c \in Creator, NEW t \in Token,
         \A d \in Creator, u \in Token :
           ~(d = c /\ u = t) => balance'[d][u] = balance[d][u],
         creatorBalance' = ClearV1(creatorBalance, c, t), token' = token
  PROVE  \A d \in Creator, u \in Token :
           MigratedBalance(d, u)' =
             IF d = c /\ u = t THEN balance'[c][t] ELSE MigratedBalance(d, u)
BY DEF TypeOK, ClearV1, MigratedBalance, HasV1

\* The same for what it was ever tipped.
LEMMA TotalWrite ==
  ASSUME TypeOK, NEW c \in Creator, NEW t \in Token,
         \A d \in Creator, u \in Token :
           ~(d = c /\ u = t) => total'[d][u] = total[d][u],
         creatorTotal' = ClearV1(creatorTotal, c, t), token' = token
  PROVE  \A d \in Creator, u \in Token :
           MigratedTotal(d, u)' =
             IF d = c /\ u = t THEN total'[c][t] ELSE MigratedTotal(d, u)
BY DEF TypeOK, ClearV1, MigratedTotal, HasV1

\* The same for the fees of a token.
LEMMA FeeWrite ==
  ASSUME TypeOK, NEW t \in Token, NEW f \in Int,
         feeBalance' = [feeBalance EXCEPT ![t] = f],
         legacyFee' = ClearV1Fee(t), token' = token
  PROVE  \A u \in Token : MigratedFee(u)' = IF u = t THEN f ELSE MigratedFee(u)
<1>1. \A u \in Token : HasV1Fee(u)' => HasV1Fee(u) /\ u # t
  BY DEF HasV1Fee, ClearV1Fee
<1>2. \A u \in Token \ {t} : HasV1Fee(u)' <=> HasV1Fee(u)
  BY DEF HasV1Fee, ClearV1Fee
<1>3. \A u \in Token : HasV1Fee(u)' => legacyFee' = legacyFee
  BY DEF HasV1Fee, ClearV1Fee
<1>4. feeBalance'[t] = f /\ \A u \in Token \ {t} : feeBalance'[u] = feeBalance[u]
  BY DEF TypeOK
<1> QED BY <1>1, <1>2, <1>3, <1>4 DEF MigratedFee

-----------------------------------------------------------------------------
\* What the jar owes in a token is a natural number.
LEMMA OwedType ==
  ASSUME balance \in [Creator -> [Token -> Amount]],
         creatorBalance \in [Creator -> Amount \cup {None}],
         feeBalance \in [Token -> Amount],
         legacyFee \in Amount \cup {None}, NEW t \in Token
  PROVE  /\ SumFunction([c \in Creator |-> MigratedBalance(c, t)]) \in Nat
         /\ MigratedFee(t) \in Nat
<1> DEFINE owed == [c \in Creator |-> MigratedBalance(c, t)]
<1>1. owed \in [Creator -> Nat]
  BY DEF MigratedBalance, HasV1, Amount
<1>2. IsFiniteSet(Creator)
  BY JarAssumption
<1> HIDE DEF owed
<1>3. SumFunction(owed) \in Nat
  BY <1>1, <1>2, SumNat
<1>4. MigratedFee(t) \in Nat
  BY JarAssumption DEF MigratedFee, HasV1Fee, Amount
<1> QED BY <1>3, <1>4 DEF owed

\* The same from the type invariant.
LEMMA LiabilityType ==
  ASSUME TypeOK, NEW t \in Token
  PROVE  /\ SumFunction([c \in Creator |-> MigratedBalance(c, t)]) \in Nat
         /\ MigratedFee(t) \in Nat
BY OwedType DEF TypeOK

\* A step that changes one creator's balance and the fees of one token keeps
\* the jar solvent when the jar's own balance changes by the same amounts.
LEMMA SolventOne ==
  ASSUME TypeOK, TypeOK', Solvent, NEW c \in Creator, NEW t \in Token,
         NEW db \in Int, NEW df \in Int,
         \A d \in Creator, u \in Token :
           MigratedBalance(d, u)' =
             IF d = c /\ u = t THEN MigratedBalance(c, t) + db
             ELSE MigratedBalance(d, u),
         \A u \in Token :
           MigratedFee(u)' = IF u = t THEN MigratedFee(t) + df ELSE MigratedFee(u),
         \A u \in Token \ {t} : wallet'[u][Jar] = wallet[u][Jar],
         wallet'[t][Jar] >= wallet[t][Jar] + db + df
  PROVE  Solvent'
<1> SUFFICES ASSUME NEW u \in Token
             PROVE  wallet'[u][Jar] >= Liabilities(u)'
  BY DEF Solvent
<1> DEFINE owed == [d \in Creator |-> MigratedBalance(d, u)]
           next == [d \in Creator |-> MigratedBalance(d, u)']
<1>0. /\ SumFunction(owed) \in Nat /\ MigratedFee(u) \in Nat
      /\ wallet[u][Jar] \in Nat /\ wallet'[u][Jar] \in Nat
  <2>1. Jar \in Address
    BY JarAssumption
  <2>2. wallet[u][Jar] \in Nat /\ wallet'[u][Jar] \in Nat
    BY <2>1 DEF TypeOK
  <2>3. SumFunction(owed) \in Nat /\ MigratedFee(u) \in Nat
    BY LiabilityType
  <2> QED BY <2>2, <2>3
<1>1. wallet[u][Jar] >= SumFunction(owed) + MigratedFee(u)
  BY DEF Solvent, Liabilities
<1>2. Liabilities(u)' = SumFunction(next) + MigratedFee(u)'
  BY DEF Liabilities
<1>3. CASE u # t
  <2>1. next = owed /\ MigratedFee(u)' = MigratedFee(u)
    BY <1>3
  <2>2. wallet'[u][Jar] = wallet[u][Jar]
    BY <1>3
  <2> HIDE DEF owed, next
  <2> QED BY <1>0, <1>1, <1>2, <2>1, <2>2
<1>4. CASE u = t
  <2>1. /\ owed \in [Creator -> Int] /\ next \in [Creator -> Int]
        /\ \A d \in Creator \ {c} : next[d] = owed[d]
    BY <1>4, MigratedType DEF Amount
  <2>2. next[c] - owed[c] = db /\ owed[c] \in Int /\ next[c] \in Int
    BY <1>4, <2>1, MigratedType DEF Amount
  <2>3. IsFiniteSet(Creator) /\ Jar \in Address
    BY JarAssumption
  <2> HIDE DEF owed, next
  <2>4. SumFunction(next) = SumFunction(owed) + next[c] - owed[c]
    BY <2>1, <2>3, SumUpdate
  <2>5. SumFunction(next) = SumFunction(owed) + db
    BY <1>0, <2>2, <2>4
  <2>6. MigratedFee(u)' = MigratedFee(u) + df
    BY <1>4
  <2>7. wallet'[u][Jar] >= wallet[u][Jar] + db + df
    BY <1>4
  <2> QED BY <1>0, <1>1, <1>2, <2>5, <2>6, <2>7
<1> QED BY <1>3, <1>4

\* The same for a step that changes the fees of one token only.
LEMMA SolventFee ==
  ASSUME TypeOK, TypeOK', Solvent, NEW t \in Token, NEW df \in Int,
         \A d \in Creator, u \in Token :
           MigratedBalance(d, u)' = MigratedBalance(d, u),
         \A u \in Token :
           MigratedFee(u)' = IF u = t THEN MigratedFee(t) + df ELSE MigratedFee(u),
         \A u \in Token \ {t} : wallet'[u][Jar] = wallet[u][Jar],
         wallet'[t][Jar] >= wallet[t][Jar] + df
  PROVE  Solvent'
<1> SUFFICES ASSUME NEW u \in Token
             PROVE  wallet'[u][Jar] >= Liabilities(u)'
  BY DEF Solvent
<1> DEFINE owed == [d \in Creator |-> MigratedBalance(d, u)]
           next == [d \in Creator |-> MigratedBalance(d, u)']
<1>0. /\ SumFunction(owed) \in Nat /\ MigratedFee(u) \in Nat
      /\ wallet[u][Jar] \in Nat /\ wallet'[u][Jar] \in Nat
  <2>1. Jar \in Address
    BY JarAssumption
  <2>2. wallet[u][Jar] \in Nat /\ wallet'[u][Jar] \in Nat
    BY <2>1 DEF TypeOK
  <2>3. SumFunction(owed) \in Nat /\ MigratedFee(u) \in Nat
    BY LiabilityType
  <2> QED BY <2>2, <2>3
<1>1. wallet[u][Jar] >= SumFunction(owed) + MigratedFee(u)
  BY DEF Solvent, Liabilities
<1>2. Liabilities(u)' = SumFunction(next) + MigratedFee(u)'
  BY DEF Liabilities
<1>3. next = owed
  OBVIOUS
<1> HIDE DEF owed, next
<1>4. CASE u # t
  BY <1>0, <1>1, <1>2, <1>3, <1>4
<1>5. CASE u = t
  BY <1>0, <1>1, <1>2, <1>3, <1>5
<1> QED BY <1>4, <1>5

-----------------------------------------------------------------------------
\* A step that leaves the funds and the legacy token alone.
LEMMA FundFrame ==
  ASSUME UNCHANGED <<fundVars, token>>
  PROVE  /\ \A c \in Creator, t \in Token :
              /\ MigratedBalance(c, t)' = MigratedBalance(c, t)
              /\ MigratedTotal(c, t)' = MigratedTotal(c, t)
         /\ \A t \in Token : MigratedFee(t)' = MigratedFee(t)
         /\ Solvent => Solvent'
         /\ OwedWithinTotal => OwedWithinTotal'
<1>1. \A c \in Creator, t \in Token :
        /\ MigratedBalance(c, t)' = MigratedBalance(c, t)
        /\ MigratedTotal(c, t)' = MigratedTotal(c, t)
  BY DEF fundVars, MigratedBalance, MigratedTotal, HasV1
<1>2. \A t \in Token : MigratedFee(t)' = MigratedFee(t)
  BY DEF fundVars, MigratedFee, HasV1Fee
<1>3. ASSUME NEW t \in Token
      PROVE  Liabilities(t)' = Liabilities(t)
  <2>1. [c \in Creator |-> MigratedBalance(c, t)'] =
        [c \in Creator |-> MigratedBalance(c, t)]
    BY <1>1
  <2> QED BY <1>2, <2>1 DEF Liabilities
<1>4. Solvent => Solvent'
  BY <1>3 DEF Solvent, fundVars
<1>5. OwedWithinTotal => OwedWithinTotal'
  BY <1>1 DEF OwedWithinTotal
<1> QED BY <1>1, <1>2, <1>4, <1>5

\* A step that leaves the operators alone.
LEMMA OperatorFrame ==
  ASSUME UNCHANGED operatorVars, GrantsAccounted, OperatorWithinGrant
  PROVE  GrantsAccounted' /\ OperatorWithinGrant'
BY DEF operatorVars, GrantsAccounted, OperatorWithinGrant

\* A step that leaves the breaker and governance alone.
LEMMA PauseFrame ==
  ASSUME UNCHANGED pauseVars, PauseInv
  PROVE  PauseInv' /\ GovTypeOK' /\ PauseTypeOK' /\ seq' = seq /\ admin' = admin
<1>1. PauseInv'
  BY PauseInvStep
<1> QED BY <1>1 DEF PauseInv, pauseVars, govVars

\* Removing v1 entries puts none into a jar that was never initialized.
LEMMA ClearKeepsV1NeedsAdmin ==
  ASSUME TypeOK, V1NeedsAdmin, admin' = admin, NEW c \in Creator, NEW t,
         creatorBalance' = ClearV1(creatorBalance, c, t),
         creatorTotal' = ClearV1(creatorTotal, c, t),
         legacyFee' = legacyFee \/ legacyFee' = None
  PROVE  V1NeedsAdmin'
BY DEF TypeOK, V1NeedsAdmin, ClearV1

\* A v1 entry that is removed leaves entries of the right type.
LEMMA ClearV1Type ==
  ASSUME TypeOK, NEW c \in Creator, NEW t
  PROVE  /\ ClearV1(creatorBalance, c, t) \in [Creator -> Amount \cup {None}]
         /\ ClearV1(creatorTotal, c, t) \in [Creator -> Amount \cup {None}]
BY DEF TypeOK, ClearV1

\* A tip raises what one creator may withdraw of one token by the net amount and
\* what it was tipped by the whole, v1 entries included, and nothing else.
LEMMA TipEffect ==
  ASSUME TypeOK, NEW s \in Signer, NEW c \in Creator, NEW t \in Token,
         NEW amount \in Amounts, tip(s, c, t, amount)
  PROVE  \A d \in Creator, u \in Token :
           /\ MigratedBalance(d, u)' =
                IF d = c /\ u = t
                THEN MigratedBalance(c, t) + (amount - fee_for(amount, feeBps))
                ELSE MigratedBalance(d, u)
           /\ MigratedTotal(d, u)' =
                IF d = c /\ u = t THEN MigratedTotal(c, t) + amount
                ELSE MigratedTotal(d, u)
<1> DEFINE net == amount - fee_for(amount, feeBps)
<1>1. /\ balance' = [balance EXCEPT ![c][t] = MigratedBalance(c, t) + net]
      /\ total' = [total EXCEPT ![c][t] = MigratedTotal(c, t) + amount]
      /\ creatorBalance' = ClearV1(creatorBalance, c, t)
      /\ creatorTotal' = ClearV1(creatorTotal, c, t)
      /\ token' = token
  BY DEF tip, configVars
<1> HIDE DEF net
<1>2. \A d \in Creator, u \in Token :
        /\ ~(d = c /\ u = t) => balance'[d][u] = balance[d][u]
        /\ ~(d = c /\ u = t) => total'[d][u] = total[d][u]
  BY <1>1 DEF TypeOK
<1>3. /\ balance'[c][t] = MigratedBalance(c, t) + net
      /\ total'[c][t] = MigratedTotal(c, t) + amount
  BY <1>1 DEF TypeOK
<1>4. \A d \in Creator, u \in Token :
        MigratedBalance(d, u)' =
          IF d = c /\ u = t THEN balance'[c][t] ELSE MigratedBalance(d, u)
  BY <1>1, <1>2, BalanceWrite
<1>5. \A d \in Creator, u \in Token :
        MigratedTotal(d, u)' =
          IF d = c /\ u = t THEN total'[c][t] ELSE MigratedTotal(d, u)
  BY <1>1, <1>2, TotalWrite
<1> QED BY <1>3, <1>4, <1>5 DEF net

\* A tip keeps the invariant.
LEMMA TipStep ==
  ASSUME JarInv, NEW s \in Signer, NEW c \in Creator, NEW t \in Token,
         NEW amount \in Amounts, tip(s, c, t, amount)
  PROVE  JarInv'
<1> DEFINE fee == fee_for(amount, feeBps)
           net == amount - fee
<1>0. /\ TypeOK /\ PauseInv /\ V1NeedsAdmin /\ Solvent /\ OwedWithinTotal
      /\ GrantsAccounted /\ OperatorWithinGrant
  BY DEF JarInv
<1>1. amount \in Nat /\ amount > 0
  BY JarAssumption DEF tip
<1>2. /\ fee \in 0 .. amount /\ net \in 0 .. amount
      /\ feeBps = 0 => fee = 0
  <2>1. feeBps \in 0 .. MaxFeeBps
    BY <1>0 DEF TypeOK
  <2>2. fee \in 0 .. amount /\ (feeBps = 0 => fee = 0)
    BY <1>1, <2>1, FeeWithinTip
  <2> HIDE DEF fee
  <2>3. \A f \in 0 .. amount : amount - f \in 0 .. amount
    BY ONLY <1>1
  <2> QED BY ONLY <2>2, <2>3, Zenon
<1>3. s \in Address /\ Jar \in Address /\ s # Jar
  BY JarAssumption, GovernanceAssumption
<1> HIDE DEF fee
<1>4. /\ wallet' \in [Token -> [Address -> Nat]]
      /\ \A u \in Token \ {t} : wallet'[u] = wallet[u]
      /\ wallet'[t][Jar] = wallet[t][Jar] + amount
  <2>1. Transfer(t, s, Jar, amount) /\ wallet \in [Token -> [Address -> Nat]]
    BY <1>0 DEF tip, TypeOK
  <2> QED BY <1>1, <1>3, <2>1, TransferEffect
<1>5. /\ token' = token /\ UNCHANGED pauseVars
      /\ UNCHANGED <<configVars, payoutVars, operatorVars>>
  BY DEF tip, configVars
<1>6. /\ MigratedBalance(c, t) \in Amount /\ MigratedTotal(c, t) \in Amount
      /\ MigratedFee(t) \in Nat
  BY <1>0, MigratedType
<1>7. /\ balance' = [balance EXCEPT ![c][t] = MigratedBalance(c, t) + net]
      /\ total' = [total EXCEPT ![c][t] = MigratedTotal(c, t) + amount]
      /\ creatorBalance' = ClearV1(creatorBalance, c, t)
      /\ creatorTotal' = ClearV1(creatorTotal, c, t)
      /\ FitsI128(MigratedBalance(c, t) + net)
      /\ FitsI128(MigratedTotal(c, t) + amount)
  BY DEF tip, fee
<1>8. /\ MigratedBalance(c, t) + net \in Amount
      /\ MigratedTotal(c, t) + amount \in Amount
  BY <1>1, <1>2, <1>6, <1>7, JarAssumption DEF FitsI128, Amount
<1>9. \A d \in Creator, u \in Token :
        /\ MigratedBalance(d, u)' =
             IF d = c /\ u = t THEN MigratedBalance(c, t) + net
             ELSE MigratedBalance(d, u)
        /\ MigratedTotal(d, u)' =
             IF d = c /\ u = t THEN MigratedTotal(c, t) + amount
             ELSE MigratedTotal(d, u)
  BY <1>0, TipEffect DEF fee
<1>10. /\ \A u \in Token :
            MigratedFee(u)' = IF u = t THEN MigratedFee(t) + fee
                              ELSE MigratedFee(u)
       /\ feeBalance' \in [Token -> Amount]
       /\ legacyFee' \in {legacyFee, None}
  <2>1. CASE feeBps > 0
    <3>1. /\ FitsI128(MigratedFee(t) + fee)
          /\ feeBalance' = [feeBalance EXCEPT ![t] = MigratedFee(t) + fee]
          /\ legacyFee' = ClearV1Fee(t)
      BY <2>1 DEF tip, fee
    <3>2. MigratedFee(t) + fee \in Amount /\ MigratedFee(t) + fee \in Int
      BY <1>1, <1>2, <1>6, <3>1, JarAssumption DEF FitsI128, Amount
    <3>3. \A u \in Token :
            MigratedFee(u)' = IF u = t THEN MigratedFee(t) + fee
                              ELSE MigratedFee(u)
      BY <1>0, <1>5, <3>1, <3>2, FeeWrite
    <3>4. feeBalance' \in [Token -> Amount] /\ legacyFee' \in {legacyFee, None}
      BY <1>0, <3>1, <3>2 DEF TypeOK, ClearV1Fee
    <3> QED BY <3>3, <3>4
  <2>2. CASE ~(feeBps > 0)
    <3>1. UNCHANGED <<feeBalance, legacyFee>> /\ feeBps = 0
      BY <1>0, <2>2, JarAssumption DEF tip, TypeOK
    <3>2. \A u \in Token : MigratedFee(u)' = MigratedFee(u)
      BY <1>5, <3>1 DEF MigratedFee, HasV1Fee
    <3>3. fee = 0 /\ MigratedFee(t) + fee = MigratedFee(t)
      BY <1>2, <1>6, <3>1
    <3> QED BY <1>0, <3>1, <3>2, <3>3 DEF TypeOK
  <2> QED BY <2>1, <2>2
<1>11. TypeOK'
  <2>1. GovTypeOK' /\ PauseTypeOK'
    BY <1>0, <1>5, PauseFrame
  <2>2. /\ balance' \in [Creator -> [Token -> Amount]]
        /\ total' \in [Creator -> [Token -> Amount]]
    BY <1>0, <1>7, <1>8 DEF TypeOK
  <2>3. /\ creatorBalance' \in [Creator -> Amount \cup {None}]
        /\ creatorTotal' \in [Creator -> Amount \cup {None}]
    BY <1>0, <1>7, ClearV1Type
  <2> QED BY <1>0, <1>4, <1>5, <1>10, <2>1, <2>2, <2>3
          DEF TypeOK, configVars, payoutVars, operatorVars
<1>12. Solvent'
  <2>1. net \in Int /\ fee \in Int /\ wallet[t][Jar] \in Nat /\ net + fee = amount
    BY <1>0, <1>1, <1>2, <1>3 DEF TypeOK
  <2>2. wallet'[t][Jar] >= wallet[t][Jar] + net + fee
    BY <1>1, <1>4, <2>1
  <2>3. \A u \in Token \ {t} : wallet'[u][Jar] = wallet[u][Jar]
    BY <1>4
  <2> HIDE DEF net
  <2> QED BY <1>0, <1>9, <1>10, <1>11, <2>1, <2>2, <2>3, SolventOne
<1>13. OwedWithinTotal'
  <2>1. \A d \in Creator, u \in Token :
          /\ MigratedBalance(d, u) <= MigratedTotal(d, u)
          /\ MigratedBalance(d, u) \in Int /\ MigratedTotal(d, u) \in Int
    BY <1>0, MigratedType, JarAssumption DEF OwedWithinTotal, Amount
  <2>2. MigratedBalance(c, t) + net <= MigratedTotal(c, t) + amount
    BY <1>1, <1>2, <2>1
  <2> HIDE DEF net
  <2> QED BY <1>9, <2>1, <2>2 DEF OwedWithinTotal
<1>14. V1NeedsAdmin'
  <2>1. admin' = admin
    BY <1>5 DEF pauseVars, govVars
  <2> QED BY <1>0, <1>7, <1>10, <2>1, ClearKeepsV1NeedsAdmin
<1>15. PauseInv' /\ GrantsAccounted' /\ OperatorWithinGrant'
  BY <1>0, <1>5, PauseFrame, OperatorFrame
<1> QED BY <1>11, <1>12, <1>13, <1>14, <1>15 DEF JarInv

\* The payout address in force is an address.
LEMMA PayoutNowType ==
  ASSUME TypeOK, NEW c \in Creator
  PROVE  PayoutNow(c) \in Address
<1>1. c \in Address
  BY JarAssumption, GovernanceAssumption
<1>2. /\ payoutAddress[c] # None => payoutAddress[c] \in Address
      /\ pendingPayout[c] # None => pendingPayout[c].to \in Address
  BY DEF TypeOK, Payouts
<1> QED BY <1>1, <1>2 DEF PayoutNow, Matured

\* Drawing on an allowance keeps the grants accounted for: what is drawn was
\* left of the grant.
LEMMA AllowanceStep ==
  ASSUME TypeOK, GrantsAccounted, OperatorWithinGrant, NEW c \in Creator,
         NEW o, NEW amount \in Nat, amount > 0, UseAllowance(o, c, amount)
  PROVE  /\ operator' \in [Creator -> [Delegates -> Operators \cup {None}]]
         /\ grant' \in [Creator -> [Delegates -> Grants]]
         /\ GrantsAccounted' /\ OperatorWithinGrant'
<1> DEFINE op == operator[c][o]
           g == grant[c][o]
           left == IF op.allowance = amount THEN None
                   ELSE [op EXCEPT !.allowance = @ - amount]
<1>1. /\ o \in Delegates /\ op # None /\ op.allowance >= amount
      /\ op \in Operators /\ g \in Grants
  BY DEF UseAllowance, TypeOK, Operators
<1>2. /\ operator' = [operator EXCEPT ![c][o] = left]
      /\ grant' = [grant EXCEPT ![c][o] = [g EXCEPT !.drawn = g.drawn + amount]]
  BY DEF UseAllowance
<1>3. g.drawn >= 0 /\ op.allowance = g.given - g.drawn
  BY <1>1 DEF GrantsAccounted
<1>4. /\ op.allowance \in Int /\ g.given \in Int /\ g.drawn \in Int
  BY <1>1 DEF Operators, Grants
<1> DEFINE g2 == [g EXCEPT !.drawn = g.drawn + amount]
<1>5. /\ g2 \in Grants /\ g2.given = g.given /\ g2.drawn = g.drawn + amount
  BY <1>1, <1>4 DEF Grants
<1>6. /\ left \in Operators \cup {None}
      /\ left # None => left.allowance = op.allowance - amount
  BY <1>1, <1>4 DEF Operators
<1> HIDE DEF g2, left
<1>7. \A d \in Creator, p \in Delegates :
        /\ operator'[d][p] = IF d = c /\ p = o THEN left ELSE operator[d][p]
        /\ grant'[d][p] = IF d = c /\ p = o THEN g2 ELSE grant[d][p]
  BY <1>1, <1>2 DEF TypeOK, g2
<1>8. /\ operator' \in [Creator -> [Delegates -> Operators \cup {None}]]
      /\ grant' \in [Creator -> [Delegates -> Grants]]
  BY <1>2, <1>5, <1>6 DEF TypeOK, g2
<1>9. /\ g2.drawn >= 0 /\ g2.drawn <= g2.given
      /\ left # None => left.allowance = g2.given - g2.drawn
  BY <1>1, <1>3, <1>4, <1>5, <1>6
<1>10. GrantsAccounted'
  BY <1>7, <1>9 DEF GrantsAccounted
<1>11. OperatorWithinGrant'
  BY <1>7, <1>9 DEF OperatorWithinGrant
<1> QED BY <1>8, <1>10, <1>11

\* A withdrawal lowers what one creator may withdraw of one token by what is
\* paid, and no total.
LEMMA PayOutEffect ==
  ASSUME TypeOK, NEW s \in Signer, NEW c \in Creator, NEW t \in Token,
         NEW to \in Address, NEW amount \in Amounts \cup {None},
         PayOut(s, c, t, to, amount)
  PROVE  \A d \in Creator, u \in Token :
           /\ MigratedBalance(d, u)' =
                IF d = c /\ u = t
                THEN MigratedBalance(c, t)
                       - (IF amount = None THEN MigratedBalance(c, t) ELSE amount)
                ELSE MigratedBalance(d, u)
           /\ MigratedTotal(d, u)' = MigratedTotal(d, u)
<1> DEFINE left == MigratedBalance(c, t)
                     - (IF amount = None THEN MigratedBalance(c, t) ELSE amount)
<1>1. /\ balance' = [balance EXCEPT ![c][t] = left]
      /\ total' = [total EXCEPT ![c][t] = MigratedTotal(c, t)]
      /\ creatorBalance' = ClearV1(creatorBalance, c, t)
      /\ creatorTotal' = ClearV1(creatorTotal, c, t)
      /\ token' = token
  BY DEF PayOut, configVars
<1> HIDE DEF left
<1>2. \A d \in Creator, u \in Token :
        /\ ~(d = c /\ u = t) => balance'[d][u] = balance[d][u]
        /\ ~(d = c /\ u = t) => total'[d][u] = total[d][u]
  BY <1>1 DEF TypeOK
<1>3. balance'[c][t] = left /\ total'[c][t] = MigratedTotal(c, t)
  BY <1>1 DEF TypeOK
<1>4. \A d \in Creator, u \in Token :
        MigratedBalance(d, u)' =
          IF d = c /\ u = t THEN balance'[c][t] ELSE MigratedBalance(d, u)
  BY <1>1, <1>2, BalanceWrite
<1>5. \A d \in Creator, u \in Token :
        MigratedTotal(d, u)' =
          IF d = c /\ u = t THEN total'[c][t] ELSE MigratedTotal(d, u)
  BY <1>1, <1>2, TotalWrite
<1> QED BY <1>3, <1>4, <1>5 DEF left

\* A withdrawal keeps the invariant.
LEMMA PayOutStep ==
  ASSUME JarInv, NEW s \in Signer, NEW c \in Creator, NEW t \in Token,
         NEW to \in Address, NEW amount \in Amounts \cup {None},
         PayOut(s, c, t, to, amount)
  PROVE  JarInv'
<1> DEFINE owed == MigratedBalance(c, t)
           paid == IF amount = None THEN owed ELSE amount
<1>0. /\ TypeOK /\ PauseInv /\ V1NeedsAdmin /\ Solvent /\ OwedWithinTotal
      /\ GrantsAccounted /\ OperatorWithinGrant
  BY DEF JarInv
<1>1. owed \in Amount /\ MigratedTotal(c, t) \in Amount
  BY <1>0, MigratedType
<1>2. paid \in Nat /\ paid > 0 /\ paid <= owed /\ owed \in Nat
  <2>1. paid > 0 /\ paid <= owed
    BY DEF PayOut
  <2>2. paid \in Int /\ owed \in Nat
    BY <1>1, JarAssumption DEF Amount
  <2> QED BY <2>1, <2>2
<1>3. Jar \in Address
  BY JarAssumption
<1>4. /\ balance' = [balance EXCEPT ![c][t] = owed - paid]
      /\ total' = [total EXCEPT ![c][t] = MigratedTotal(c, t)]
      /\ creatorBalance' = ClearV1(creatorBalance, c, t)
      /\ creatorTotal' = ClearV1(creatorTotal, c, t)
      /\ Transfer(t, Jar, to, paid)
      /\ UNCHANGED <<pauseVars, configVars, feeBalance, legacyFee>>
      /\ token' = token
  BY DEF PayOut, configVars
<1>5. /\ s = c => UNCHANGED operatorVars
      /\ s # c => UseAllowance(s, c, paid)
  BY DEF PayOut
<1>6. ApplyMaturedPayout(c)
  BY DEF PayOut
<1> HIDE DEF owed, paid
<1>7. /\ wallet' \in [Token -> [Address -> Nat]]
      /\ \A u \in Token \ {t} : wallet'[u] = wallet[u]
      /\ wallet'[t][Jar] >= wallet[t][Jar] - paid
  <2>1. wallet \in [Token -> [Address -> Nat]]
    BY <1>0 DEF TypeOK
  <2>2. /\ wallet' \in [Token -> [Address -> Nat]]
        /\ \A u \in Token \ {t} : wallet'[u] = wallet[u]
        /\ wallet'[t][Jar] =
             CASE Jar # to /\ Jar = Jar -> wallet[t][Jar] - paid
               [] Jar # to /\ Jar = to -> wallet[t][Jar] + paid
               [] OTHER -> wallet[t][Jar]
    BY <1>2, <1>3, <1>4, <2>1, TransferEffect
  <2>3. wallet[t][Jar] \in Nat
    BY <1>3, <2>1
  <2> QED BY <1>2, <2>2, <2>3
<1>8. /\ operator' \in [Creator -> [Delegates -> Operators \cup {None}]]
      /\ grant' \in [Creator -> [Delegates -> Grants]]
      /\ GrantsAccounted' /\ OperatorWithinGrant'
  <2>1. CASE s = c
    BY <1>0, <1>5, <2>1, OperatorFrame DEF TypeOK, operatorVars
  <2>2. CASE s # c
    BY <1>0, <1>2, <1>5, <2>2, AllowanceStep
  <2> QED BY <2>1, <2>2
<1>9. /\ payoutAddress' \in [Creator -> Address \cup {None}]
      /\ pendingPayout' \in [Creator -> Payouts \cup {None}]
      /\ announced' \in [Creator -> Announcements \cup {None}]
  BY <1>0, <1>6 DEF ApplyMaturedPayout, Matured, TypeOK, payoutVars, Payouts
<1>10. owed - paid \in Amount
  BY <1>1, <1>2, JarAssumption DEF Amount
<1>11. TypeOK'
  <2>1. GovTypeOK' /\ PauseTypeOK'
    BY <1>0, <1>4, PauseFrame
  <2>2. /\ balance' \in [Creator -> [Token -> Amount]]
        /\ total' \in [Creator -> [Token -> Amount]]
    BY <1>0, <1>1, <1>4, <1>10 DEF TypeOK
  <2>3. /\ creatorBalance' \in [Creator -> Amount \cup {None}]
        /\ creatorTotal' \in [Creator -> Amount \cup {None}]
    BY <1>0, <1>4, ClearV1Type
  <2>4. UNCHANGED <<token, allowedTokens, feeBps, feeBalance, legacyFee>>
    BY <1>4 DEF configVars
  <2> QED BY <1>0, <1>7, <1>8, <1>9, <2>1, <2>2, <2>3, <2>4 DEF TypeOK
<1>12. \A d \in Creator, u \in Token :
        /\ MigratedBalance(d, u)' =
             IF d = c /\ u = t THEN owed - paid ELSE MigratedBalance(d, u)
        /\ MigratedTotal(d, u)' = MigratedTotal(d, u)
  BY <1>0, PayOutEffect DEF owed, paid
<1>13. Solvent'
  <2> DEFINE db == -paid
             df == 0
  <2>1. \A u \in Token : MigratedFee(u)' = MigratedFee(u) /\ MigratedFee(u) \in Nat
    BY <1>0, <1>4, LiabilityType DEF MigratedFee, HasV1Fee
  <2>2. \A u \in Token :
          MigratedFee(u)' = IF u = t THEN MigratedFee(t) + df ELSE MigratedFee(u)
    BY <2>1
  <2>3. /\ db \in Int /\ df \in Int /\ wallet[t][Jar] \in Nat
        /\ owed - paid = MigratedBalance(c, t) + db
    BY <1>0, <1>2, <1>3 DEF TypeOK, owed
  <2>4. wallet'[t][Jar] >= wallet[t][Jar] + db + df
    BY <1>2, <1>7, <2>3, <1>11, <1>3 DEF TypeOK
  <2>5. \A u \in Token \ {t} : wallet'[u][Jar] = wallet[u][Jar]
    BY <1>7
  <2>6. \A d \in Creator, u \in Token :
          MigratedBalance(d, u)' =
             IF d = c /\ u = t THEN MigratedBalance(c, t) + db
             ELSE MigratedBalance(d, u)
    BY <1>12, <2>3
  <2> HIDE DEF db, df
  <2> QED BY <1>0, <1>11, <2>2, <2>3, <2>4, <2>5, <2>6, SolventOne
<1>14. OwedWithinTotal'
  <2>1. \A d \in Creator, u \in Token :
          /\ MigratedBalance(d, u) <= MigratedTotal(d, u)
          /\ MigratedBalance(d, u) \in Int /\ MigratedTotal(d, u) \in Int
    BY <1>0, MigratedType, JarAssumption DEF OwedWithinTotal, Amount
  <2>2. owed - paid <= MigratedTotal(c, t)
    BY <1>2, <2>1 DEF owed
  <2> QED BY <1>12, <2>1, <2>2 DEF OwedWithinTotal
<1>15. PauseInv' /\ admin' = admin
  BY <1>0, <1>4, PauseFrame
<1>16. V1NeedsAdmin'
  BY <1>0, <1>4, <1>15, ClearKeepsV1NeedsAdmin
<1> QED BY <1>8, <1>11, <1>13, <1>14, <1>15, <1>16 DEF JarInv

\* A getter that migrates a creator's entries changes no amount.
LEMMA GetBalanceEffect ==
  ASSUME TypeOK, NEW c \in Creator, NEW t \in Token, get_balance(c, t)
  PROVE  \A d \in Creator, u \in Token :
           /\ MigratedBalance(d, u)' = MigratedBalance(d, u)
           /\ MigratedTotal(d, u)' = MigratedTotal(d, u)
<1>1. /\ balance' = [balance EXCEPT ![c][t] = MigratedBalance(c, t)]
      /\ total' = [total EXCEPT ![c][t] = MigratedTotal(c, t)]
      /\ creatorBalance' = ClearV1(creatorBalance, c, t)
      /\ creatorTotal' = ClearV1(creatorTotal, c, t)
      /\ token' = token
  BY DEF get_balance, configVars
<1>2. \A d \in Creator, u \in Token :
        /\ ~(d = c /\ u = t) => balance'[d][u] = balance[d][u]
        /\ ~(d = c /\ u = t) => total'[d][u] = total[d][u]
  BY <1>1 DEF TypeOK
<1>3. /\ balance'[c][t] = MigratedBalance(c, t)
      /\ total'[c][t] = MigratedTotal(c, t)
  BY <1>1 DEF TypeOK
<1>4. \A d \in Creator, u \in Token :
        MigratedBalance(d, u)' =
          IF d = c /\ u = t THEN balance'[c][t] ELSE MigratedBalance(d, u)
  BY <1>1, <1>2, BalanceWrite
<1>5. \A d \in Creator, u \in Token :
        MigratedTotal(d, u)' =
          IF d = c /\ u = t THEN total'[c][t] ELSE MigratedTotal(d, u)
  BY <1>1, <1>2, TotalWrite
<1> QED BY <1>3, <1>4, <1>5

\* A getter that migrates a creator's entries keeps the invariant.
LEMMA GetBalanceStep ==
  ASSUME JarInv, NEW c \in Creator, NEW t \in Token, get_balance(c, t)
  PROVE  JarInv'
<1>0. /\ TypeOK /\ PauseInv /\ V1NeedsAdmin /\ Solvent /\ OwedWithinTotal
      /\ GrantsAccounted /\ OperatorWithinGrant
  BY DEF JarInv
<1>1. MigratedBalance(c, t) \in Amount /\ MigratedTotal(c, t) \in Amount
  BY <1>0, MigratedType
<1>2. /\ balance' = [balance EXCEPT ![c][t] = MigratedBalance(c, t)]
      /\ total' = [total EXCEPT ![c][t] = MigratedTotal(c, t)]
      /\ creatorBalance' = ClearV1(creatorBalance, c, t)
      /\ creatorTotal' = ClearV1(creatorTotal, c, t)
      /\ UNCHANGED <<pauseVars, configVars, payoutVars, operatorVars, feeBalance,
                     legacyFee, wallet>>
      /\ token' = token
  BY DEF get_balance, configVars
<1>3. TypeOK'
  <2>1. GovTypeOK' /\ PauseTypeOK'
    BY <1>0, <1>2, PauseFrame
  <2>2. /\ balance' \in [Creator -> [Token -> Amount]]
        /\ total' \in [Creator -> [Token -> Amount]]
    BY <1>0, <1>1, <1>2 DEF TypeOK
  <2>3. /\ creatorBalance' \in [Creator -> Amount \cup {None}]
        /\ creatorTotal' \in [Creator -> Amount \cup {None}]
    BY <1>0, <1>2, ClearV1Type
  <2>4. UNCHANGED <<configVars, payoutVars, operatorVars, feeBalance, legacyFee,
                    wallet>>
    BY <1>2
  <2> QED BY <1>0, <2>1, <2>2, <2>3, <2>4
          DEF TypeOK, configVars, payoutVars, operatorVars
<1>4. \A d \in Creator, u \in Token :
        /\ MigratedBalance(d, u)' = MigratedBalance(d, u)
        /\ MigratedTotal(d, u)' = MigratedTotal(d, u)
  BY <1>0, GetBalanceEffect
<1>5. Solvent'
  <2>1. \A u \in Token : MigratedFee(u)' = MigratedFee(u)
    BY <1>2 DEF MigratedFee, HasV1Fee
  <2>2. ASSUME NEW u \in Token
        PROVE  wallet'[u][Jar] >= Liabilities(u)'
    <3>1. [d \in Creator |-> MigratedBalance(d, u)'] =
          [d \in Creator |-> MigratedBalance(d, u)]
      BY <1>4
    <3>2. Liabilities(u)' = Liabilities(u)
      BY <2>1, <3>1 DEF Liabilities
    <3> QED BY <1>0, <1>2, <3>2 DEF Solvent
  <2> QED BY <2>2 DEF Solvent
<1>6. OwedWithinTotal'
  BY <1>0, <1>4 DEF OwedWithinTotal
<1>7. PauseInv' /\ admin' = admin /\ GrantsAccounted' /\ OperatorWithinGrant'
  BY <1>0, <1>2, PauseFrame, OperatorFrame
<1>8. V1NeedsAdmin'
  BY <1>0, <1>2, <1>7, ClearKeepsV1NeedsAdmin
<1> QED BY <1>3, <1>5, <1>6, <1>7, <1>8 DEF JarInv

\* A step that only writes the fees of one token, and pays out no more than it
\* takes from them, keeps the invariant.
LEMMA FeeStep ==
  ASSUME JarInv, NEW t \in Token, NEW paid \in Nat,
         feeBalance' = [feeBalance EXCEPT ![t] = MigratedFee(t) - paid],
         MigratedFee(t) - paid \in Amount,
         legacyFee' = ClearV1Fee(t),
         wallet' \in [Token -> [Address -> Nat]],
         \A u \in Token \ {t} : wallet'[u] = wallet[u],
         wallet'[t][Jar] >= wallet[t][Jar] - paid,
         UNCHANGED <<pauseVars, configVars, payoutVars, operatorVars, balance,
                     total, creatorBalance, creatorTotal>>
  PROVE  JarInv'
<1>0. /\ TypeOK /\ PauseInv /\ V1NeedsAdmin /\ Solvent /\ OwedWithinTotal
      /\ GrantsAccounted /\ OperatorWithinGrant
  BY DEF JarInv
<1>1. token' = token /\ legacyFee' \in {legacyFee, None}
  BY DEF configVars, ClearV1Fee
<1>2. PauseInv' /\ GovTypeOK' /\ PauseTypeOK' /\ admin' = admin
  BY <1>0, PauseFrame
<1>3. feeBalance' \in [Token -> Amount]
  BY <1>0 DEF TypeOK
<1>4. TypeOK'
  BY <1>0, <1>1, <1>2, <1>3 DEF TypeOK, configVars, payoutVars, operatorVars
<1>5. \A d \in Creator, u \in Token :
        /\ MigratedBalance(d, u)' = MigratedBalance(d, u)
        /\ MigratedTotal(d, u)' = MigratedTotal(d, u)
  BY <1>1 DEF MigratedBalance, MigratedTotal, HasV1
<1>6. Solvent'
  <2> DEFINE df == -paid
  <2>0. MigratedFee(t) \in Nat
    BY <1>0, LiabilityType
  <2>1. /\ df \in Int
        /\ MigratedFee(t) - paid = MigratedFee(t) + df
        /\ MigratedFee(t) - paid \in Int
    BY <2>0
  <2>2. \A u \in Token :
          MigratedFee(u)' = IF u = t THEN MigratedFee(t) - paid ELSE MigratedFee(u)
    BY <1>0, <1>1, <2>1, FeeWrite
  <2>3. \A u \in Token :
          MigratedFee(u)' = IF u = t THEN MigratedFee(t) + df ELSE MigratedFee(u)
    BY <2>1, <2>2
  <2>4. Jar \in Address
    BY JarAssumption
  <2>5. wallet'[t][Jar] >= wallet[t][Jar] + df
    BY <1>0, <1>4, <2>4 DEF TypeOK
  <2>6. \A u \in Token \ {t} : wallet'[u][Jar] = wallet[u][Jar]
    OBVIOUS
  <2> HIDE DEF df
  <2> QED BY <1>0, <1>4, <1>5, <2>1, <2>3, <2>5, <2>6, SolventFee
<1>7. OwedWithinTotal'
  BY <1>0, <1>5 DEF OwedWithinTotal
<1>8. V1NeedsAdmin'
  BY <1>0, <1>1, <1>2 DEF V1NeedsAdmin
<1>9. GrantsAccounted' /\ OperatorWithinGrant'
  BY <1>0, OperatorFrame
<1> QED BY <1>2, <1>4, <1>6, <1>7, <1>8, <1>9 DEF JarInv

\* A getter that migrates the fee balance keeps the invariant.
LEMMA GetFeeStep ==
  ASSUME JarInv, NEW t \in Token, get_fee_balance(t)
  PROVE  JarInv'
<1>1. TypeOK /\ MigratedFee(t) \in Nat
  BY LiabilityType DEF JarInv
<1>2. MigratedFee(t) - 0 = MigratedFee(t) /\ MigratedFee(t) - 0 \in Amount
  BY <1>1, JarAssumption DEF get_fee_balance, FitsI128, Amount
<1>3. /\ wallet' = wallet /\ wallet' \in [Token -> [Address -> Nat]]
      /\ wallet'[t][Jar] >= wallet[t][Jar] - 0
  BY <1>1, JarAssumption DEF get_fee_balance, TypeOK
<1>4. /\ feeBalance' = [feeBalance EXCEPT ![t] = MigratedFee(t) - 0]
      /\ legacyFee' = ClearV1Fee(t)
      /\ UNCHANGED <<pauseVars, configVars, payoutVars, operatorVars, balance,
                     total, creatorBalance, creatorTotal>>
  BY <1>2 DEF get_fee_balance
<1> QED BY <1>2, <1>3, <1>4, FeeStep

\* A withdrawal of fees pays out no more than the token's fees.
LEMMA WithdrawFeesStep ==
  ASSUME JarInv, NEW s \in Signer, NEW t \in Token,
         NEW amount \in Amounts \cup {None}, withdraw_fees(s, t, amount)
  PROVE  JarInv'
<1> DEFINE owed == MigratedFee(t)
           paid == IF amount = None THEN owed ELSE amount
<1>1. TypeOK /\ owed \in Nat
  BY LiabilityType DEF JarInv
<1>2. paid \in Nat /\ paid > 0 /\ paid <= owed /\ owed - paid \in Amount
  <2>1. paid > 0 /\ paid <= owed /\ FitsI128(owed)
    BY DEF withdraw_fees
  <2>2. paid \in Int
    BY <1>1, JarAssumption
  <2> QED BY <1>1, <2>1, <2>2, JarAssumption DEF FitsI128, Amount
<1>3. /\ Transfer(t, Jar, feeCollector, paid)
      /\ feeBalance' = [feeBalance EXCEPT ![t] = owed - paid]
      /\ legacyFee' = ClearV1Fee(t)
      /\ UNCHANGED <<pauseVars, configVars, payoutVars, operatorVars, balance,
                     total, creatorBalance, creatorTotal>>
  BY DEF withdraw_fees
<1>4. Jar \in Address /\ feeCollector \in Address
  BY <1>1, JarAssumption DEF withdraw_fees, TypeOK, GovTypeOK
<1> HIDE DEF paid
<1>5. /\ wallet' \in [Token -> [Address -> Nat]]
      /\ \A u \in Token \ {t} : wallet'[u] = wallet[u]
      /\ wallet'[t][Jar] >= wallet[t][Jar] - paid
  <2>1. wallet \in [Token -> [Address -> Nat]]
    BY <1>1 DEF TypeOK
  <2>2. /\ wallet' \in [Token -> [Address -> Nat]]
        /\ \A u \in Token \ {t} : wallet'[u] = wallet[u]
        /\ wallet'[t][Jar] =
             CASE Jar # feeCollector /\ Jar = Jar -> wallet[t][Jar] - paid
               [] Jar # feeCollector /\ Jar = feeCollector -> wallet[t][Jar] + paid
               [] OTHER -> wallet[t][Jar]
    BY <1>2, <1>3, <1>4, <2>1, TransferEffect
  <2>3. wallet[t][Jar] \in Nat
    BY <1>4, <2>1
  <2> QED BY <1>2, <2>2, <2>3
<1> QED BY <1>2, <1>3, <1>5, FeeStep

-----------------------------------------------------------------------------
\* The steps that leave the funds alone keep their invariants.
LEMMA FundsStand ==
  ASSUME JarInv, TypeOK', PauseInv', UNCHANGED <<fundVars, token>>,
         admin' = None => admin = None, GrantsAccounted', OperatorWithinGrant'
  PROVE  JarInv'
<1>1. Solvent' /\ OwedWithinTotal'
  BY FundFrame DEF JarInv
<1>2. V1NeedsAdmin'
  BY DEF JarInv, V1NeedsAdmin, fundVars
<1> QED BY <1>1, <1>2 DEF JarInv

\* Configuration keeps the invariant.
LEMMA ConfigInvStep == ASSUME JarInv, ConfigStep PROVE JarInv'
<1>0. TypeOK /\ PauseInv /\ GrantsAccounted /\ OperatorWithinGrant
  BY DEF JarInv
<1>1. /\ UNCHANGED <<pauseVars, fundVars, token, payoutVars, operatorVars>>
      /\ feeBps' \in 0 .. MaxFeeBps /\ allowedTokens' \in Seq(Token)
  <2>1. ASSUME NEW a \in Signer, NEW bps \in FeeRates, set_fee(a, bps)
        PROVE  <1>1!:
    BY <1>0, <2>1, JarAssumption DEF set_fee, TypeOK
  <2>2. ASSUME NEW a \in Signer, NEW t \in Token, add_token(a, t)
        PROVE  <1>1!:
    BY <1>0, <2>2 DEF add_token, TypeOK
  <2>3. ASSUME NEW a \in Signer, NEW t \in Token, remove_token(a, t)
        PROVE  <1>1!:
    <3>1. PICK i \in DOMAIN allowedTokens : allowedTokens' = WithoutEntry(i)
      BY <2>3 DEF remove_token
    <3>2. WithoutEntry(i) \in Seq(Token)
      BY <1>0 DEF TypeOK, WithoutEntry
    <3> QED BY <1>0, <2>3, <3>1, <3>2 DEF remove_token, TypeOK
  <2> QED BY <2>1, <2>2, <2>3 DEF ConfigStep
<1>2. PauseInv' /\ GovTypeOK' /\ PauseTypeOK' /\ admin' = admin
  BY <1>0, <1>1, PauseFrame
<1>3. TypeOK'
  BY <1>0, <1>1, <1>2 DEF TypeOK, fundVars, payoutVars, operatorVars
<1>4. GrantsAccounted' /\ OperatorWithinGrant'
  BY <1>0, <1>1, OperatorFrame
<1> QED BY <1>1, <1>2, <1>3, <1>4, FundsStand

\* Payout announcements and grants keep the invariant.
LEMMA DelegationInvStep == ASSUME JarInv, DelegationStep PROVE JarInv'
<1>0. TypeOK /\ PauseInv /\ GrantsAccounted /\ OperatorWithinGrant /\ seq \in Ledger
  BY SeqIsLedger DEF JarInv, TypeOK, GovTypeOK
<1>1. UNCHANGED <<pauseVars, fundVars, configVars>>
  BY DEF DelegationStep, set_payout_address, cancel_payout_address,
         authorize_operator, revoke_operator
<1>2. /\ payoutAddress' \in [Creator -> Address \cup {None}]
      /\ pendingPayout' \in [Creator -> Payouts \cup {None}]
      /\ announced' \in [Creator -> Announcements \cup {None}]
  <2>1. ASSUME NEW c \in Creator, NEW p \in Payees, set_payout_address(c, p)
        PROVE  <1>2!:
    <3>1. AddU32(seq, PayoutDelay) \in Ledger /\ p \in Address
      BY <1>0, AddU32Type, JarAssumption
    <3> QED BY <1>0, <2>1, <3>1
            DEF set_payout_address, TypeOK, Payouts, Announcements
  <2>2. ASSUME NEW c \in Creator, cancel_payout_address(c)
        PROVE  <1>2!:
    BY <1>0, <2>2 DEF cancel_payout_address, TypeOK
  <2>3. ASSUME UNCHANGED payoutVars
        PROVE  <1>2!:
    BY <1>0, <2>3 DEF payoutVars, TypeOK
  <2> QED BY <2>1, <2>2, <2>3
          DEF DelegationStep, authorize_operator, revoke_operator
<1>3. /\ operator' \in [Creator -> [Delegates -> Operators \cup {None}]]
      /\ grant' \in [Creator -> [Delegates -> Grants]]
      /\ GrantsAccounted' /\ OperatorWithinGrant'
  <2>1. ASSUME NEW c \in Creator, NEW o \in Delegates, NEW a \in Amounts,
               NEW e \in Expiries, authorize_operator(c, o, a, e)
        PROVE  <1>3!:
    <3> DEFINE op == [allowance |-> a, expiry |-> e]
               g == [given |-> a, drawn |-> 0]
    <3>1. op \in Operators /\ g \in Grants
      BY JarAssumption DEF Operators, Grants
    <3>2. /\ operator' = [operator EXCEPT ![c][o] = op]
          /\ grant' = [grant EXCEPT ![c][o] = g]
      BY <2>1 DEF authorize_operator
    <3>3. /\ operator' \in [Creator -> [Delegates -> Operators \cup {None}]]
          /\ grant' \in [Creator -> [Delegates -> Grants]]
      BY <1>0, <3>1, <3>2 DEF TypeOK
    <3>4. g.drawn = 0 /\ op.allowance = g.given - g.drawn
      BY JarAssumption
    <3> HIDE DEF op, g
    <3>5. \A d \in Creator, p \in Delegates :
            /\ operator'[d][p] = IF d = c /\ p = o THEN op ELSE operator[d][p]
            /\ grant'[d][p] = IF d = c /\ p = o THEN g ELSE grant[d][p]
      BY <1>0, <3>2 DEF TypeOK
    <3>6. GrantsAccounted' /\ OperatorWithinGrant'
      BY <1>0, <3>4, <3>5 DEF GrantsAccounted, OperatorWithinGrant
    <3> QED BY <3>3, <3>6
  <2>2. ASSUME NEW c \in Creator, NEW o \in Delegates, revoke_operator(c, o)
        PROVE  <1>3!:
    <3> DEFINE g == [given |-> 0, drawn |-> 0]
    <3>1. g \in Grants /\ g.drawn = 0
      BY DEF Grants
    <3>2. /\ operator' = [operator EXCEPT ![c][o] = None]
          /\ grant' = [grant EXCEPT ![c][o] = g]
      BY <2>2 DEF revoke_operator
    <3> HIDE DEF g
    <3>3. /\ operator' \in [Creator -> [Delegates -> Operators \cup {None}]]
          /\ grant' \in [Creator -> [Delegates -> Grants]]
      BY <1>0, <3>1, <3>2 DEF TypeOK
    <3>4. \A d \in Creator, p \in Delegates :
            /\ operator'[d][p] = IF d = c /\ p = o THEN None ELSE operator[d][p]
            /\ grant'[d][p] = IF d = c /\ p = o THEN g ELSE grant[d][p]
      BY <1>0, <3>2 DEF TypeOK
    <3>5. GrantsAccounted' /\ OperatorWithinGrant'
      BY <1>0, <3>1, <3>4 DEF GrantsAccounted, OperatorWithinGrant
    <3> QED BY <3>3, <3>5
  <2>3. ASSUME UNCHANGED operatorVars
        PROVE  <1>3!:
    BY <1>0, <2>3, OperatorFrame DEF operatorVars, TypeOK
  <2> QED BY <2>1, <2>2, <2>3
          DEF DelegationStep, set_payout_address, cancel_payout_address
<1>4. PauseInv' /\ GovTypeOK' /\ PauseTypeOK' /\ admin' = admin
  BY <1>0, <1>1, PauseFrame
<1>5. TypeOK' /\ UNCHANGED <<fundVars, token>>
  BY <1>0, <1>1, <1>2, <1>3, <1>4 DEF TypeOK, fundVars, configVars
<1> QED BY <1>3, <1>4, <1>5, FundsStand

-----------------------------------------------------------------------------
\* Every step of the jar is a step of the breaker and governance, or leaves
\* them alone, and never takes the admin away.
LEMMA StepKeepsPauseInv ==
  ASSUME PauseInv, TypeOK, [Next]_vars
  PROVE  /\ PauseInv' /\ GovTypeOK' /\ PauseTypeOK'
         /\ admin' = None => admin = None
<1>1. \/ PauseStep
      \/ UNCHANGED breakerVars /\ \E a \in Signer, tl \in Timelocks : init(a, tl)
      \/ UNCHANGED pauseVars
  <2>1. FundStep => UNCHANGED pauseVars
    BY DEF FundStep, tip, tip_legacy, withdraw, withdraw_legacy, PayOut,
           get_balance, get_fee_balance, withdraw_fees
  <2>2. ConfigStep => UNCHANGED pauseVars
    BY DEF ConfigStep, set_fee, add_token, remove_token
  <2>3. DelegationStep => UNCHANGED pauseVars
    BY DEF DelegationStep, set_payout_address, cancel_payout_address,
           authorize_operator, revoke_operator
  <2>4. UNCHANGED vars => UNCHANGED pauseVars
    BY DEF vars
  <2> QED BY <2>1, <2>2, <2>3, <2>4 DEF Next, initialize
<1>2. [PauseNext]_pauseVars
  BY <1>1 DEF PauseNext, InitCall
<1>3. PauseInv'
  BY <1>2, PauseInvStep
<1>4. admin' = None => admin = None
  <2>1. CASE GovStep
    BY <2>1, GovernanceAssumption
    DEF GovStep, CloseLedger, execute_upgrade, accept_admin,
        cancel_admin_transfer, accept_fee_collector,
        cancel_fee_collector_transfer, cancel_upgrade, migrate, propose_admin,
        propose_fee_collector, propose_upgrade
  <2>2. CASE BreakerStep
    BY <2>2, BreakerKeepsGov DEF govVars
  <2>3. CASE \E a \in Signer, tl \in Timelocks : init(a, tl)
    BY <2>3 DEF init
  <2>4. CASE UNCHANGED pauseVars
    BY <2>4 DEF pauseVars, govVars
  <2> QED BY <1>1, <2>1, <2>2, <2>3, <2>4 DEF PauseStep
<1> QED BY <1>3, <1>4 DEF PauseInv

\* Initialization changes no amount: there is no v1 entry to come to life.
LEMMA InitializeEffect ==
  ASSUME V1NeedsAdmin, NEW t \in Token, NEW a \in Signer, NEW tl \in Timelocks,
         initialize(t, a, tl)
  PROVE  /\ \A c \in Creator, u \in Token :
              /\ MigratedBalance(c, u)' = MigratedBalance(c, u)
              /\ MigratedTotal(c, u)' = MigratedTotal(c, u)
         /\ \A u \in Token : MigratedFee(u)' = MigratedFee(u)
<1>1. admin = None /\ UNCHANGED fundVars
  BY DEF initialize, init
<1>2. /\ legacyFee = None
      /\ \A c \in Creator : creatorBalance[c] = None /\ creatorTotal[c] = None
  BY <1>1 DEF V1NeedsAdmin
<1>3. \A c \in Creator, u \in Token :
        /\ MigratedBalance(c, u)' = MigratedBalance(c, u)
        /\ MigratedTotal(c, u)' = MigratedTotal(c, u)
  BY <1>1, <1>2 DEF MigratedBalance, MigratedTotal, HasV1, fundVars
<1>4. \A u \in Token : MigratedFee(u)' = MigratedFee(u)
  BY <1>1, <1>2 DEF MigratedFee, HasV1Fee, fundVars
<1> QED BY <1>3, <1>4

\* Initialization keeps the invariant.
LEMMA InitializeStep ==
  ASSUME JarInv, NEW t \in Token, NEW a \in Signer, NEW tl \in Timelocks,
         initialize(t, a, tl)
  PROVE  JarInv'
<1>0. /\ TypeOK /\ PauseInv /\ V1NeedsAdmin /\ Solvent /\ OwedWithinTotal
      /\ GrantsAccounted /\ OperatorWithinGrant
  BY DEF JarInv
<1>1. PauseInv' /\ GovTypeOK' /\ PauseTypeOK'
  BY <1>0, StepKeepsPauseInv DEF Next
<1>2. /\ token' = t /\ allowedTokens' = <<t>> /\ admin = None
      /\ UNCHANGED <<fundVars, feeBps, payoutVars, operatorVars>>
  BY DEF initialize, init
<1>3. TypeOK'
  BY <1>0, <1>1, <1>2 DEF TypeOK, fundVars, payoutVars, operatorVars
<1>4. /\ legacyFee = None
      /\ \A c \in Creator : creatorBalance[c] = None /\ creatorTotal[c] = None
  BY <1>0, <1>2 DEF V1NeedsAdmin
<1>5. /\ \A c \in Creator, u \in Token :
           /\ MigratedBalance(c, u)' = MigratedBalance(c, u)
           /\ MigratedTotal(c, u)' = MigratedTotal(c, u)
      /\ \A u \in Token : MigratedFee(u)' = MigratedFee(u)
  BY <1>0, InitializeEffect
<1>7. Solvent'
  <2> SUFFICES ASSUME NEW u \in Token
               PROVE  wallet'[u][Jar] >= Liabilities(u)'
    BY DEF Solvent
  <2>1. [c \in Creator |-> MigratedBalance(c, u)'] =
        [c \in Creator |-> MigratedBalance(c, u)]
    BY <1>5
  <2>2. Liabilities(u)' = Liabilities(u)
    BY <1>5, <2>1 DEF Liabilities
  <2> QED BY <1>0, <1>2, <2>2 DEF Solvent, fundVars
<1>8. OwedWithinTotal'
  BY <1>0, <1>5 DEF OwedWithinTotal
<1>9. V1NeedsAdmin'
  BY <1>2, <1>4 DEF V1NeedsAdmin, fundVars
<1>10. GrantsAccounted' /\ OperatorWithinGrant'
  BY <1>0, <1>2, OperatorFrame
<1> QED BY <1>1, <1>3, <1>7, <1>8, <1>9, <1>10 DEF JarInv

\* The inductive step.
LEMMA JarInvStep == JarInv /\ [Next]_vars => JarInv'
<1> SUFFICES ASSUME JarInv, [Next]_vars PROVE JarInv'
  OBVIOUS
<1>0. TypeOK /\ PauseInv /\ GrantsAccounted /\ OperatorWithinGrant
  BY DEF JarInv
<1>1. CASE \E t \in Token, a \in Signer, tl \in Timelocks : initialize(t, a, tl)
  BY <1>1, InitializeStep
<1>2. CASE UNCHANGED jarVars
  <2>1. /\ PauseInv' /\ GovTypeOK' /\ PauseTypeOK'
        /\ admin' = None => admin = None
    BY <1>0, StepKeepsPauseInv
  <2>2. UNCHANGED <<fundVars, configVars, payoutVars, operatorVars>>
    BY <1>2 DEF jarVars
  <2>3. TypeOK' /\ token' = token
    BY <1>0, <2>1, <2>2
    DEF TypeOK, fundVars, configVars, payoutVars, operatorVars
  <2>4. GrantsAccounted' /\ OperatorWithinGrant'
    BY <1>0, <2>2, OperatorFrame
  <2> QED BY <2>1, <2>2, <2>3, <2>4, FundsStand
<1>3. CASE FundStep
  <2>0. ASSUME allowedTokens # <<>>
        PROVE  Head(allowedTokens) \in Token
    BY <1>0, <2>0 DEF TypeOK
  <2>1. ASSUME NEW s \in Signer, NEW c \in Creator, NEW a \in Amounts,
               \/ \E t \in Token : tip(s, c, t, a)
               \/ tip_legacy(s, c, a)
        PROVE  JarInv'
    BY <2>0, <2>1, TipStep DEF tip_legacy
  <2>2. ASSUME NEW s \in Signer, NEW c \in Creator, NEW to \in Address,
               NEW a \in Amounts \cup {None},
               \/ \E t \in Token : withdraw(s, c, t, to, a)
               \/ withdraw_legacy(s, c, to, a)
        PROVE  JarInv'
    BY <2>0, <2>2, PayOutStep DEF withdraw_legacy, withdraw
  <2>3. ASSUME NEW c \in Creator, NEW t \in Token, get_balance(c, t)
        PROVE  JarInv'
    BY <2>3, GetBalanceStep
  <2>4. ASSUME NEW t \in Token, get_fee_balance(t)
        PROVE  JarInv'
    BY <2>4, GetFeeStep
  <2>5. ASSUME NEW s \in Signer, NEW t \in Token,
               NEW a \in Amounts \cup {None}, withdraw_fees(s, t, a)
        PROVE  JarInv'
    BY <2>5, WithdrawFeesStep
  <2> QED BY <1>3, <2>1, <2>2, <2>3, <2>4, <2>5 DEF FundStep
<1>4. CASE ConfigStep
  BY <1>4, ConfigInvStep
<1>5. CASE DelegationStep
  BY <1>5, DelegationInvStep
<1> QED BY <1>1, <1>2, <1>3, <1>4, <1>5 DEF Next, vars

\* The jar starts in its invariant, new or just upgraded from v1.
LEMMA JarInvInit == Init => JarInv
<1> SUFFICES ASSUME Init PROVE JarInv
  OBVIOUS
<1> USE JarAssumption, GovernanceAssumption
<1>1. PauseInv /\ GovTypeOK /\ PauseTypeOK
  BY PauseInvInit DEF Init, PauseInv
<1>2. /\ balance \in [Creator -> [Token -> Amount]]
      /\ total \in [Creator -> [Token -> Amount]]
      /\ feeBalance \in [Token -> Amount]
      /\ \A c \in Creator, t \in Token : balance[c][t] = 0 /\ total[c][t] = 0
  BY DEF Init, Amount
<1>3. /\ token \in Token \cup {None} /\ allowedTokens \in Seq(Token)
      /\ creatorBalance \in [Creator -> Amount \cup {None}]
      /\ creatorTotal \in [Creator -> Amount \cup {None}]
      /\ legacyFee \in Amount \cup {None}
  <2>1. LegacyAmounts \subseteq Amount /\ <<>> \in Seq(Token)
    OBVIOUS
  <2>2. CASE EmptyStorage
    BY <2>1, <2>2 DEF EmptyStorage
  <2>3. CASE V1Storage
    <3>1. /\ creatorBalance \in [Creator -> LegacyAmounts \cup {None}]
          /\ creatorTotal \in [Creator -> LegacyAmounts \cup {None}]
          /\ legacyFee \in LegacyAmounts \cup {None}
          /\ token \in Token /\ allowedTokens = <<>>
      BY <2>3 DEF V1Storage
    <3> QED BY <2>1, <3>1
  <2> QED BY <2>2, <2>3 DEF Init
<1>4. /\ feeBps \in 0 .. MaxFeeBps
      /\ payoutAddress \in [Creator -> Address \cup {None}]
      /\ pendingPayout \in [Creator -> Payouts \cup {None}]
      /\ announced \in [Creator -> Announcements \cup {None}]
      /\ operator \in [Creator -> [Delegates -> Operators \cup {None}]]
      /\ grant \in [Creator -> [Delegates -> Grants]]
  BY DEF Init, Grants
<1>5. \A t \in Token : Liabilities(t) \in Nat
  <2> SUFFICES ASSUME NEW t \in Token PROVE Liabilities(t) \in Nat
    OBVIOUS
  <2> DEFINE owed == SumFunction([c \in Creator |-> MigratedBalance(c, t)])
  <2>1. owed \in Nat /\ MigratedFee(t) \in Nat
    BY <1>2, <1>3, OwedType
  <2>2. Liabilities(t) = owed + MigratedFee(t)
    BY DEF Liabilities
  <2> HIDE DEF owed
  <2> QED BY <2>1, <2>2
<1>6. /\ wallet \in [Token -> [Address -> Nat]]
      /\ \A t \in Token : wallet[t][Jar] = Liabilities(t)
  BY <1>5 DEF Init, Amount
<1>7. TypeOK
  BY <1>1, <1>2, <1>3, <1>4, <1>6 DEF TypeOK
<1>8. Solvent
  BY <1>5, <1>6 DEF Solvent
<1>9. OwedWithinTotal
  <2>1. CASE EmptyStorage
    BY <1>2, <2>1
    DEF EmptyStorage, OwedWithinTotal, MigratedBalance, MigratedTotal, HasV1
  <2>2. CASE V1Storage
    BY <1>2, <2>2
    DEF V1Storage, OwedWithinTotal, MigratedBalance, MigratedTotal, HasV1
  <2> QED BY <2>1, <2>2 DEF Init
<1>10. V1NeedsAdmin
  BY DEF Init, EmptyStorage, V1NeedsAdmin
<1>11. GrantsAccounted /\ OperatorWithinGrant
  <2>1. \A c \in Creator, o \in Delegates :
          operator[c][o] = None /\ grant[c][o].drawn = 0
    BY DEF Init
  <2> QED BY <2>1 DEF GrantsAccounted, OperatorWithinGrant
<1> QED BY <1>1, <1>7, <1>8, <1>9, <1>10, <1>11 DEF JarInv

\* The invariant in every reachable state.
THEOREM JarInvariant == Spec => []JarInv
BY JarInvInit, JarInvStep, PTL DEF Spec

\* Every storage entry keeps its type, and every amount its i128 range.
THEOREM JarTypeCorrect == Spec => []TypeOK
<1>1. JarInv => TypeOK
  BY DEF JarInv
<1> QED BY <1>1, JarInvariant, PTL

\* The jar can pay what it owes in every token, for any finite number of
\* creators, any amounts, fee rates and v1 storage.
THEOREM JarSolvent == Spec => []Solvent
<1>1. JarInv => Solvent
  BY DEF JarInv
<1> QED BY <1>1, JarInvariant, PTL

\* No creator can withdraw more than it was ever tipped.
THEOREM OwedStaysWithinTotal == Spec => []OwedWithinTotal
<1>1. JarInv => OwedWithinTotal
  BY DEF JarInv
<1> QED BY <1>1, JarInvariant, PTL

\* No operator draws more than its grant, over any withdrawals and tokens.
THEOREM OperatorsStayWithinGrants == Spec => []OperatorWithinGrant
<1>1. JarInv => OperatorWithinGrant
  BY DEF JarInv
<1> QED BY <1>1, JarInvariant, PTL
-----------------------------------------------------------------------------
\* What one step may do to a creator's money in a token: nothing, take a tip
\* in while tips are not paused, or pay part of it out while withdrawals are
\* not paused; the last two in a jar that was initialized.
Stands(c, t) ==
  /\ MigratedBalance(c, t)' = MigratedBalance(c, t)
  /\ MigratedTotal(c, t)' = MigratedTotal(c, t)
Tipped(c, t) ==
  /\ check_not_paused(TIPS) /\ admin # None
  /\ \E net, amount \in Nat :
       /\ MigratedBalance(c, t)' = MigratedBalance(c, t) + net
       /\ MigratedTotal(c, t)' = MigratedTotal(c, t) + amount
PaidOut(c, t) ==
  /\ check_not_paused(WITHDRAWALS) /\ admin # None
  /\ MigratedTotal(c, t)' = MigratedTotal(c, t)
  /\ \E paid \in Nat \ {0} :
       /\ MigratedBalance(c, t)' = MigratedBalance(c, t) - paid
       /\ Transfer(t, Jar, PayoutNow(c), paid)

\* A tip is money in for one creator and one token.
LEMMA TipMoves ==
  ASSUME TypeOK, NEW s \in Signer, NEW d \in Creator, NEW u \in Token,
         NEW amount \in Amounts, tip(s, d, u, amount),
         NEW c \in Creator, NEW t \in Token
  PROVE  Stands(c, t) \/ Tipped(c, t)
<1> DEFINE fee == fee_for(amount, feeBps)
<1>1. amount \in Nat /\ check_not_paused(TIPS) /\ admin # None
  BY JarAssumption DEF tip
<1>2. fee \in 0 .. amount
  BY <1>1, FeeWithinTip DEF TypeOK
<1>3. /\ MigratedBalance(c, t) \in Amount /\ MigratedTotal(c, t) \in Amount
      /\ MigratedBalance(c, t)' =
           IF c = d /\ t = u THEN MigratedBalance(d, u) + (amount - fee)
           ELSE MigratedBalance(c, t)
      /\ MigratedTotal(c, t)' =
           IF c = d /\ t = u THEN MigratedTotal(d, u) + amount
           ELSE MigratedTotal(c, t)
  BY MigratedType, TipEffect
<1> HIDE DEF fee
<1>4. CASE c = d /\ t = u
  <2>1. amount - fee \in Nat
    BY <1>1, <1>2
  <2> QED BY <1>1, <1>3, <1>4, <2>1 DEF Tipped
<1>5. CASE ~(c = d /\ t = u)
  BY <1>3, <1>5 DEF Stands
<1> QED BY <1>4, <1>5

\* A withdrawal is money out for one creator and one token.
LEMMA WithdrawMoves ==
  ASSUME TypeOK, NEW s \in Signer, NEW d \in Creator, NEW u \in Token,
         NEW to \in Address, NEW amount \in Amounts \cup {None},
         withdraw(s, d, u, to, amount), NEW c \in Creator, NEW t \in Token
  PROVE  Stands(c, t) \/ PaidOut(c, t)
<1> DEFINE owed == MigratedBalance(d, u)
           paid == IF amount = None THEN owed ELSE amount
<1>1. /\ check_not_paused(WITHDRAWALS) /\ admin # None /\ to = PayoutNow(d)
      /\ Transfer(u, Jar, to, paid) /\ paid > 0
      /\ PayOut(s, d, u, to, amount)
  BY DEF withdraw, PayOut
<1>2. owed \in Amount /\ paid \in Nat \ {0}
  BY <1>1, MigratedType, JarAssumption DEF Amount
<1>3. /\ MigratedBalance(c, t)' =
           IF c = d /\ t = u THEN owed - paid ELSE MigratedBalance(c, t)
      /\ MigratedTotal(c, t)' = MigratedTotal(c, t)
  BY <1>1, PayOutEffect
<1> HIDE DEF paid
<1>4. CASE c = d /\ t = u
  BY <1>1, <1>2, <1>3, <1>4 DEF PaidOut
<1>5. CASE ~(c = d /\ t = u)
  BY <1>3, <1>5 DEF Stands
<1> QED BY <1>4, <1>5

\* Every step of the jar, seen from one creator and one token.
LEMMA MoneyMoves ==
  ASSUME JarInv, [Next]_vars, NEW c \in Creator, NEW t \in Token
  PROVE  Stands(c, t) \/ Tipped(c, t) \/ PaidOut(c, t)
<1>0. TypeOK /\ V1NeedsAdmin
  BY DEF JarInv
<1>1. ASSUME NEW u \in Token, NEW a \in Signer, NEW tl \in Timelocks,
             initialize(u, a, tl)
      PROVE  Stands(c, t)
  BY <1>0, <1>1, InitializeEffect DEF Stands
<1>2. ASSUME UNCHANGED <<fundVars, token>>
      PROVE  Stands(c, t)
  BY <1>2, FundFrame DEF Stands
<1>3. CASE FundStep
  <2>0. ASSUME allowedTokens # <<>>
        PROVE  Head(allowedTokens) \in Token
    BY <1>0, <2>0 DEF TypeOK
  <2>1. ASSUME NEW s \in Signer, NEW d \in Creator, NEW a \in Amounts,
               \/ \E u \in Token : tip(s, d, u, a)
               \/ tip_legacy(s, d, a)
        PROVE  Stands(c, t) \/ Tipped(c, t)
    BY <1>0, <2>0, <2>1, TipMoves DEF tip_legacy
  <2>2. ASSUME NEW s \in Signer, NEW d \in Creator, NEW to \in Address,
               NEW a \in Amounts \cup {None},
               \/ \E u \in Token : withdraw(s, d, u, to, a)
               \/ withdraw_legacy(s, d, to, a)
        PROVE  Stands(c, t) \/ PaidOut(c, t)
    BY <1>0, <2>0, <2>2, WithdrawMoves DEF withdraw_legacy
  <2>3. ASSUME NEW d \in Creator, NEW u \in Token, get_balance(d, u)
        PROVE  Stands(c, t)
    BY <1>0, <2>3, GetBalanceEffect DEF Stands
  <2>4. ASSUME UNCHANGED <<balance, total, creatorBalance, creatorTotal, token>>
        PROVE  Stands(c, t)
    BY <2>4 DEF Stands, MigratedBalance, MigratedTotal, HasV1
  <2>5. ASSUME NEW u \in Token, get_fee_balance(u)
        PROVE  Stands(c, t)
    BY <2>4, <2>5 DEF get_fee_balance, configVars
  <2>6. ASSUME NEW s \in Signer, NEW u \in Token,
               NEW a \in Amounts \cup {None}, withdraw_fees(s, u, a)
        PROVE  Stands(c, t)
    BY <2>4, <2>6 DEF withdraw_fees, configVars
  <2> QED BY <1>3, <2>1, <2>2, <2>3, <2>5, <2>6 DEF FundStep
<1>4. CASE ConfigStep
  BY <1>2, <1>4 DEF ConfigStep, set_fee, add_token, remove_token
<1>5. CASE DelegationStep
  BY <1>2, <1>5 DEF DelegationStep, set_payout_address, cancel_payout_address,
                    authorize_operator, revoke_operator, configVars
<1>6. CASE UNCHANGED jarVars
  BY <1>2, <1>6 DEF jarVars, configVars
<1> QED BY <1>1, <1>3, <1>4, <1>5, <1>6 DEF Next, vars

\* A payout raises one balance outside the jar, the payout address's.
LEMMA PayeeGains ==
  ASSUME TypeOK, NEW c \in Creator, NEW t \in Token, NEW paid \in Nat,
         Transfer(t, Jar, PayoutNow(c), paid), NEW p \in Address
  PROVE  /\ p = PayoutNow(c) /\ p # Jar => wallet'[t][p] = wallet[t][p] + paid
         /\ wallet'[t][p] > wallet[t][p] => p = PayoutNow(c)
         /\ wallet[t][p] \in Nat
<1>1. Jar \in Address /\ PayoutNow(c) \in Address
  BY JarAssumption, PayoutNowType
<1>2. wallet \in [Token -> [Address -> Nat]] /\ wallet[t][p] \in Nat
  BY DEF TypeOK
<1> DEFINE to == PayoutNow(c)
<1> HIDE DEF to
<1>3. wallet'[t][p] =
        CASE Jar # to /\ p = Jar -> wallet[t][p] - paid
          [] Jar # to /\ p = to -> wallet[t][p] + paid
          [] OTHER -> wallet[t][p]
  BY <1>1, <1>2, TransferEffect DEF to
<1> QED BY <1>2, <1>3 DEF to

-----------------------------------------------------------------------------
\* A creator's total never falls: not by a withdrawal, a change of the fee or of
\* the allowlist, nor when a v1 entry replaces the (creator, token) entry.
THEOREM TotalsAreMonotone == Spec => TotalsNeverFall
<1>1. ASSUME JarInv, [Next]_vars, NEW c \in Creator, NEW t \in Token
      PROVE  MigratedTotal(c, t)' >= MigratedTotal(c, t)
  <2>1. MigratedTotal(c, t) \in Int
    BY <1>1, MigratedType, JarAssumption DEF JarInv, Amount
  <2> QED BY <1>1, <2>1, MoneyMoves DEF Stands, Tipped, PaidOut
<1>2. JarInv /\ [Next]_vars =>
        [\A c \in Creator, t \in Token :
           MigratedTotal(c, t)' >= MigratedTotal(c, t)]_vars
  BY <1>1
<1> QED BY <1>2, JarInvariant, PTL DEF Spec, TotalsNeverFall

\* A creator's balance falls only by what is paid to the payout address in force.
THEOREM BalancesFallByPayout == Spec => BalanceFallsOnlyByPayout
<1> DEFINE Paid(c, t) ==
      LET drop == MigratedBalance(c, t) - MigratedBalance(c, t)'
          payee == PayoutNow(c)
      IN  drop > 0 => \/ payee = Jar
                      \/ wallet'[t][payee] = wallet[t][payee] + drop
<1>1. ASSUME JarInv, [Next]_vars, NEW c \in Creator, NEW t \in Token
      PROVE  Paid(c, t)
  <2>1. TypeOK /\ MigratedBalance(c, t) \in Int
    BY <1>1, MigratedType, JarAssumption DEF JarInv, Amount
  <2>2. CASE PaidOut(c, t)
    <3>1. PICK paid \in Nat \ {0} :
            /\ MigratedBalance(c, t)' = MigratedBalance(c, t) - paid
            /\ Transfer(t, Jar, PayoutNow(c), paid)
      BY <2>2 DEF PaidOut
    <3>2. MigratedBalance(c, t) - MigratedBalance(c, t)' = paid
      BY <2>1, <3>1
    <3>3. PayoutNow(c) # Jar =>
            wallet'[t][PayoutNow(c)] = wallet[t][PayoutNow(c)] + paid
      BY <2>1, <3>1, PayeeGains, PayoutNowType
    <3> QED BY <3>2, <3>3
  <2>3. CASE ~PaidOut(c, t)
    <3>1. PICK net \in Nat :
            MigratedBalance(c, t)' = MigratedBalance(c, t) + net
      BY <1>1, <2>1, <2>3, MoneyMoves DEF Stands, Tipped
    <3>2. ~(MigratedBalance(c, t) - MigratedBalance(c, t)' > 0)
      BY <2>1, <3>1
    <3> QED BY <3>2
  <2> QED BY <2>2, <2>3
<1>2. JarInv /\ [Next]_vars =>
        [\A c \in Creator, t \in Token : Paid(c, t)]_vars
  BY <1>1
<1> QED BY <1>2, JarInvariant, PTL DEF Spec, BalanceFallsOnlyByPayout

\* The payout addresses and the operators change only while withdrawals are not
\* paused.
LEMMA DelegationGated ==
  ASSUME TypeOK, [Next]_vars, WITHDRAWALS \in effective_pause_flags
  PROVE  UNCHANGED <<payoutVars, operatorVars>>
<1>1. CASE FundStep
  BY <1>1
  DEF FundStep, tip, tip_legacy, withdraw, withdraw_legacy, get_balance,
      get_fee_balance, withdraw_fees, check_not_paused
<1>2. CASE ConfigStep
  BY <1>2 DEF ConfigStep, set_fee, add_token, remove_token
<1>3. ~DelegationStep
  BY DEF DelegationStep, set_payout_address, cancel_payout_address,
         authorize_operator, revoke_operator, check_not_paused
<1>4. CASE UNCHANGED jarVars
  BY <1>4 DEF jarVars
<1> QED BY <1>1, <1>2, <1>3, <1>4 DEF Next, vars, initialize

\* A pause freezes what it names: withdrawals no creator's money, payout address
\* or operator, tips no total, in every transaction of anybody.
THEOREM PausesFreeze == Spec => PausedMeansFrozen
<1> DEFINE Frozen ==
      /\ WITHDRAWALS \in effective_pause_flags =>
           /\ UNCHANGED <<payoutVars, operatorVars>>
           /\ \A c \in Creator, t \in Token :
                MigratedBalance(c, t)' >= MigratedBalance(c, t)
      /\ TIPS \in effective_pause_flags =>
           \A c \in Creator, t \in Token :
             MigratedTotal(c, t)' = MigratedTotal(c, t)
<1>1. ASSUME JarInv, [Next]_vars
      PROVE  Frozen
  <2>1. ASSUME WITHDRAWALS \in effective_pause_flags
        PROVE  UNCHANGED <<payoutVars, operatorVars>>
    BY <1>1, <2>1, DelegationGated DEF JarInv
  <2>2. ASSUME WITHDRAWALS \in effective_pause_flags,
               NEW c \in Creator, NEW t \in Token
        PROVE  MigratedBalance(c, t)' >= MigratedBalance(c, t)
    <3>1. MigratedBalance(c, t) \in Int
      BY <1>1, MigratedType, JarAssumption DEF JarInv, Amount
    <3> QED BY <1>1, <2>2, <3>1, MoneyMoves
            DEF Stands, Tipped, PaidOut, check_not_paused
  <2>3. ASSUME TIPS \in effective_pause_flags,
               NEW c \in Creator, NEW t \in Token
        PROVE  MigratedTotal(c, t)' = MigratedTotal(c, t)
    BY <1>1, <2>3, MoneyMoves DEF Stands, Tipped, PaidOut, check_not_paused
  <2> QED BY <2>1, <2>2, <2>3
<1>2. JarInv /\ [Next]_vars => [Frozen]_vars
  BY <1>1
<1> QED BY <1>2, JarInvariant, PTL DEF Spec, PausedMeansFrozen

-----------------------------------------------------------------------------
\* Every pending payout address stays the announced one, due PayoutDelay ledgers
\* after its announcement, provided no such ledger wraps.
LEMMA AnnouncedStep ==
  ASSUME NoPayoutWrap, TypeOK, PayoutsAnnounced, [Next]_vars
  PROVE  PayoutsAnnounced'
<1>1. ASSUME UNCHANGED payoutVars
      PROVE  PayoutsAnnounced'
  BY <1>1 DEF payoutVars, PayoutsAnnounced
<1>2. ASSUME NEW c \in Creator, ApplyMaturedPayout(c)
      PROVE  PayoutsAnnounced'
  <2>1. CASE Matured(c)
    BY <1>2, <2>1 DEF ApplyMaturedPayout, PayoutsAnnounced, TypeOK
  <2>2. CASE ~Matured(c)
    BY <1>1, <1>2, <2>2 DEF ApplyMaturedPayout
  <2> QED BY <2>1, <2>2
<1>3. CASE FundStep
  BY <1>1, <1>2, <1>3
  DEF FundStep, tip, tip_legacy, withdraw, withdraw_legacy, PayOut, get_balance,
      get_fee_balance, withdraw_fees
<1>4. CASE ConfigStep
  BY <1>1, <1>4 DEF ConfigStep, set_fee, add_token, remove_token
<1>5. ASSUME NEW c \in Creator, NEW p \in Payees, set_payout_address(c, p)
      PROVE  PayoutsAnnounced'
  <2>1. seq \in Ledger /\ seq + PayoutDelay < U32
    BY SeqIsLedger, JarAssumption, GovernanceAssumption
    DEF TypeOK, GovTypeOK, NoPayoutWrap, Ledger
  <2>2. AddU32(seq, PayoutDelay) = seq + PayoutDelay
    BY <2>1, AddU32Exact, JarAssumption, GovernanceAssumption DEF Ledger
  <2> DEFINE pend == [to |-> p, effective |-> seq + PayoutDelay]
             ann == [to |-> p, at |-> seq]
  <2>3. /\ pendingPayout' = [pendingPayout EXCEPT ![c] = pend]
        /\ announced' = [announced EXCEPT ![c] = ann]
    BY <1>5, <2>2 DEF set_payout_address
  <2>4. ann # None /\ ann.to = pend.to /\ pend.effective = ann.at + PayoutDelay
    BY <2>1, JarAssumption DEF Announcements
  <2> HIDE DEF pend, ann
  <2>5. \A d \in Creator :
          /\ pendingPayout'[d] = IF d = c THEN pend ELSE pendingPayout[d]
          /\ announced'[d] = IF d = c THEN ann ELSE announced[d]
    BY <2>3 DEF TypeOK
  <2> QED BY <2>4, <2>5 DEF PayoutsAnnounced
<1>6. ASSUME NEW c \in Creator, cancel_payout_address(c)
      PROVE  PayoutsAnnounced'
  BY <1>6 DEF cancel_payout_address, PayoutsAnnounced, TypeOK
<1>7. CASE DelegationStep
  BY <1>1, <1>5, <1>6, <1>7 DEF DelegationStep, authorize_operator, revoke_operator
<1>8. CASE UNCHANGED jarVars
  BY <1>1, <1>8 DEF jarVars
<1> QED BY <1>1, <1>3, <1>4, <1>7, <1>8 DEF Next, vars, initialize

\* The pending payout addresses in every reachable state.
THEOREM PayoutsAreAnnounced ==
  ASSUME NoPayoutWrap PROVE Spec => []PayoutsAnnounced
<1>1. Init => PayoutsAnnounced
  BY DEF Init, PayoutsAnnounced
<1>2. JarInv /\ PayoutsAnnounced /\ [Next]_vars => PayoutsAnnounced'
  BY AnnouncedStep DEF JarInv
<1> QED BY <1>1, <1>2, JarInvariant, PTL DEF Spec

\* Nobody gains by a payout but an address that was in force already, or was
\* announced a whole delay ago and neither cancelled nor replaced since.
THEOREM PayoutsAreDelayed ==
  ASSUME NoPayoutWrap PROVE Spec => PayoutDelayed
<1> DEFINE Due(c, t, p) ==
      (/\ MigratedBalance(c, t)' < MigratedBalance(c, t)
       /\ wallet[t][p]' > wallet[t][p])
      => \/ p = payoutAddress[c]
         \/ p = c /\ payoutAddress[c] = None
         \/ /\ announced[c] # None
            /\ announced[c].to = p
            /\ announced[c].at + PayoutDelay <= seq
<1>1. ASSUME JarInv, PayoutsAnnounced, [Next]_vars, NEW c \in Creator,
             NEW t \in Token, NEW p \in Address
      PROVE  Due(c, t, p)
  <2> SUFFICES ASSUME MigratedBalance(c, t)' < MigratedBalance(c, t),
                      wallet'[t][p] > wallet[t][p]
               PROVE  \/ p = payoutAddress[c]
                      \/ p = c /\ payoutAddress[c] = None
                      \/ /\ announced[c] # None
                         /\ announced[c].to = p
                         /\ announced[c].at + PayoutDelay <= seq
    OBVIOUS
  <2>1. TypeOK /\ MigratedBalance(c, t) \in Int
    BY <1>1, MigratedType, JarAssumption DEF JarInv, Amount
  <2>2. PaidOut(c, t)
    BY <1>1, <2>1, MoneyMoves DEF Stands, Tipped
  <2>3. PICK paid \in Nat \ {0} : Transfer(t, Jar, PayoutNow(c), paid)
    BY <2>2 DEF PaidOut
  <2>4. p = PayoutNow(c)
    BY <2>1, <2>3, PayeeGains
  <2>5. CASE Matured(c)
    <3>1. p = pendingPayout[c].to /\ pendingPayout[c] # None
          /\ seq >= pendingPayout[c].effective
      BY <2>4, <2>5 DEF PayoutNow, Matured
    <3>2. /\ announced[c] # None /\ announced[c].to = p
          /\ pendingPayout[c].effective = announced[c].at + PayoutDelay
      BY <1>1, <3>1 DEF PayoutsAnnounced
    <3>3. pendingPayout[c].effective \in Nat /\ seq \in Nat
      BY <2>1, <3>1, SeqIsLedger, GovernanceAssumption
      DEF TypeOK, GovTypeOK, Payouts, Ledger
    <3> QED BY <3>1, <3>2, <3>3
  <2>6. CASE ~Matured(c)
    BY <2>4, <2>6 DEF PayoutNow
  <2> QED BY <2>5, <2>6
<1>2. JarInv /\ PayoutsAnnounced /\ [Next]_vars =>
        [\A c \in Creator, t \in Token, p \in Address : Due(c, t, p)]_vars
  BY <1>1
<1> QED BY <1>2, JarInvariant, PayoutsAreAnnounced, PTL DEF Spec, PayoutDelayed

-----------------------------------------------------------------------------
\* Everything withdraw(c, c, t, PayoutNow(c), None) asks of the state but the
\* pause flag: what FundsReachable says without ENABLED.
WholeBalancePayable ==
  \A c \in Creator, t \in Token :
    MigratedBalance(c, t) > 0 =>
      /\ admin # None
      /\ PayoutNow(c) \in Address
      /\ wallet[t][Jar] >= MigratedBalance(c, t)

\* A jar that was never initialized owes nobody anything.
OwesNothingYet ==
  admin = None => \A c \in Creator, t \in Token : MigratedBalance(c, t) = 0

LEMMA OwesNothingYetStep ==
  ASSUME JarInv, OwesNothingYet, [Next]_vars
  PROVE  OwesNothingYet'
<1> SUFFICES ASSUME admin' = None, NEW c \in Creator, NEW t \in Token
             PROVE  MigratedBalance(c, t)' = 0
  BY DEF OwesNothingYet
<1>1. admin = None
  BY StepKeepsPauseInv DEF JarInv
<1>2. MigratedBalance(c, t) = 0
  BY <1>1 DEF OwesNothingYet
<1> QED BY <1>1, <1>2, MoneyMoves DEF Stands, Tipped, PaidOut

\* One creator's balance is within what the jar holds of the token.
LEMMA BalanceCovered ==
  ASSUME TypeOK, Solvent, NEW c \in Creator, NEW t \in Token
  PROVE  wallet[t][Jar] >= MigratedBalance(c, t)
<1> DEFINE owed == [d \in Creator |-> MigratedBalance(d, t)]
<1>1. owed \in [Creator -> Nat] /\ IsFiniteSet(Creator)
  BY MigratedType, JarAssumption DEF Amount
<1>2. wallet[t][Jar] >= SumFunction(owed) + MigratedFee(t)
  BY DEF Solvent, Liabilities
<1>3. SumFunction(owed) \in Nat /\ MigratedFee(t) \in Nat /\ wallet[t][Jar] \in Nat
  <2>1. Jar \in Address
    BY JarAssumption
  <2> QED BY <2>1, LiabilityType DEF TypeOK
<1>4. owed[c] = MigratedBalance(c, t) /\ owed[c] \in Nat
  BY <1>1
<1> HIDE DEF owed
<1>5. owed[c] <= SumFunction(owed)
  BY <1>1, SumBoundsSummand
<1> QED BY <1>2, <1>3, <1>4, <1>5

\* Whatever a creator is owed of any token, allowed or removed, migrated or not,
\* it can take at once as soon as withdrawals are not paused.
THEOREM WholeBalancesPayable == Spec => []WholeBalancePayable
<1>1. Init => OwesNothingYet
  BY DEF Init, EmptyStorage, OwesNothingYet, MigratedBalance, HasV1
<1>2. JarInv /\ OwesNothingYet /\ [Next]_vars => OwesNothingYet'
  BY OwesNothingYetStep
<1>3. JarInv /\ OwesNothingYet => WholeBalancePayable
  <2> SUFFICES ASSUME JarInv, OwesNothingYet, NEW c \in Creator, NEW t \in Token,
                      MigratedBalance(c, t) > 0
               PROVE  /\ admin # None
                      /\ PayoutNow(c) \in Address
                      /\ wallet[t][Jar] >= MigratedBalance(c, t)
    BY DEF WholeBalancePayable
  <2>1. admin # None
    BY DEF OwesNothingYet
  <2> QED BY <2>1, PayoutNowType, BalanceCovered DEF JarInv
<1> QED BY <1>1, <1>2, <1>3, JarInvariant, PTL DEF Spec
=============================================================================
