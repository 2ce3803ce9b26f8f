-------------------------- MODULE TipJarGovernance --------------------------
(***************************************************************************)
(* Who rules the tip jar: the admin and the two-step transfer of the admin *)
(* role, the fee collector and its two-step transfer, the time-locked      *)
(* upgrade of the contract's WASM, and the storage schema version.         *)
(*                                                                         *)
(* A contract call is one atomic transaction: it either changes the state  *)
(* as a whole or panics and leaves no trace, so a call that panics is not  *)
(* a step.  A step is a call that succeeds, or the close of a ledger.      *)
(* Ledger arithmetic is u32 and wraps: the workspace's release profile     *)
(* sets no overflow-checks.  U32 is the number of u32 values, scaled down. *)
(***************************************************************************)
EXTENDS Integers

CONSTANTS
  Address,         \* accounts and contracts
  Signer,          \* the addresses that can authorize a call
  None,            \* an absent storage entry
  Wasm,            \* WASM hashes
  AdminCandidates,      \* whom propose_admin is called with
  CollectorCandidates,  \* whom propose_fee_collector is called with
  Hashes,               \* what propose_upgrade is called with
  Timelocks,       \* the upgrade_timelock_ledgers that init is called with
  TransferExpiry,  \* ADMIN_TRANSFER_EXPIRY_LEDGERS
  U32,             \* number of values of a u32
  MaxLedger        \* bound: the last ledger a behaviour reaches

DataVersion == 2

Ledger == 0 .. U32 - 1
Offers == [to : Address, expiry : Ledger]
Upgrades == [hash : Wasm, unlock : Ledger]
Origins == [by : Address, at : Ledger]

ASSUME GovernanceAssumption ==
  /\ U32 \in Nat \ {0}
  /\ MaxLedger \in Ledger
  /\ TransferExpiry \in Ledger
  /\ Timelocks \subseteq Ledger
  /\ Signer \subseteq Address
  /\ AdminCandidates \subseteq Address
  /\ CollectorCandidates \subseteq Address
  /\ Hashes \subseteq Wasm
  /\ None \notin Address
  /\ None \notin Offers
  /\ None \notin Upgrades
  /\ None \notin Origins
  /\ None \notin [to : Address, until : Ledger]

\* No deadline computed below wraps.  With a timelock near the largest u32, which
\* init accepts, one does, and UpgradeTimelocked fails.
NoWrap ==
  /\ MaxLedger + TransferExpiry < U32
  /\ \A tl \in Timelocks : MaxLedger + tl < U32

VARIABLES
  seq,                  \* env.ledger().sequence()
  admin,                \* DataKey::Admin
  pendingAdmin,         \* DataKey::PendingAdmin
  feeCollector,         \* DataKey::FeeCollector
  pendingFeeCollector,  \* DataKey::PendingFeeCollector
  timelock,             \* DataKey::UpgradeTimelockLedgers
  pendingUpgrade,       \* DataKey::PendingUpgrade
  wasm,                 \* the code the host runs for this contract
  dataVersion,          \* DataKey::DataVersion
  origin                \* history, read by properties only: who made each
                        \* pending proposal, and in which ledger

govVars == <<seq, admin, pendingAdmin, feeCollector, pendingFeeCollector,
             timelock, pendingUpgrade, wasm, dataVersion, origin>>

AddU32(x, y) == (x + y) % U32

\* require_auth by the caller, then require_admin.
RequireAdmin(caller) == admin # None /\ caller = admin

-----------------------------------------------------------------------------
Fresh ==
  /\ admin = None
  /\ timelock = None
  /\ dataVersion = None

\* A jar that an earlier build initialized and that was just upgraded to this
\* one: the schema version entry is the earlier build's.
UpgradedFromV1 ==
  /\ admin \in Signer
  /\ timelock \in Timelocks \ {0}
  /\ dataVersion = 1

GovInit ==
  /\ seq = 0
  /\ Fresh \/ UpgradedFromV1
  /\ pendingAdmin = None
  /\ feeCollector = None
  /\ pendingFeeCollector = None
  /\ pendingUpgrade = None
  /\ wasm \in Wasm
  /\ origin = [admin |-> None, collector |-> None, upgrade |-> None]

\* The network closes a ledger.
CloseLedger ==
  /\ seq < MaxLedger
  /\ seq' = seq + 1
  /\ UNCHANGED <<admin, pendingAdmin, feeCollector, pendingFeeCollector,
                 timelock, pendingUpgrade, wasm, dataVersion, origin>>

init(a, tl) ==
  /\ admin = None
  /\ tl # 0
  /\ admin' = a
  /\ timelock' = tl
  /\ dataVersion' = DataVersion
  /\ UNCHANGED <<seq, pendingAdmin, feeCollector, pendingFeeCollector,
                 pendingUpgrade, wasm, origin>>

-----------------------------------------------------------------------------
\* Mutant: a new proposal silently replaces the one in flight.
propose_admin_overwrites(caller, new) ==
  /\ RequireAdmin(caller)
  /\ pendingAdmin' = [to |-> new, expiry |-> AddU32(seq, TransferExpiry)]
  /\ origin' = [origin EXCEPT !.admin = [by |-> caller, at |-> seq]]
  /\ UNCHANGED <<seq, admin, feeCollector, pendingFeeCollector, timelock,
                 pendingUpgrade, wasm, dataVersion>>

propose_admin(caller, new) ==
  /\ RequireAdmin(caller)
  /\ pendingAdmin = None
  /\ pendingAdmin' = [to |-> new, expiry |-> AddU32(seq, TransferExpiry)]
  /\ origin' = [origin EXCEPT !.admin = [by |-> caller, at |-> seq]]
  /\ UNCHANGED <<seq, admin, feeCollector, pendingFeeCollector, timelock,
                 pendingUpgrade, wasm, dataVersion>>

\* Mutant: the accepted proposal is not removed.
accept_admin_keeps_offer(new) ==
  /\ pendingAdmin # None
  /\ pendingAdmin.to = new
  /\ ~(seq > pendingAdmin.expiry)
  /\ admin' = new
  /\ UNCHANGED <<seq, pendingAdmin, feeCollector, pendingFeeCollector, timelock,
                 pendingUpgrade, wasm, dataVersion, origin>>

accept_admin(new) ==
  /\ pendingAdmin # None
  /\ pendingAdmin.to = new
  /\ ~(seq > pendingAdmin.expiry)
  /\ admin' = new
  /\ pendingAdmin' = None
  /\ origin' = [origin EXCEPT !.admin = None]
  /\ UNCHANGED <<seq, feeCollector, pendingFeeCollector, timelock,
                 pendingUpgrade, wasm, dataVersion>>

cancel_admin_transfer(caller) ==
  /\ RequireAdmin(caller)
  /\ pendingAdmin # None
  /\ pendingAdmin' = None
  /\ origin' = [origin EXCEPT !.admin = None]
  /\ UNCHANGED <<seq, admin, feeCollector, pendingFeeCollector, timelock,
                 pendingUpgrade, wasm, dataVersion>>

-----------------------------------------------------------------------------
propose_fee_collector(caller, new) ==
  /\ RequireAdmin(caller)
  /\ feeCollector # new
  /\ pendingFeeCollector = None
  /\ pendingFeeCollector' =
       [to |-> new, expiry |-> AddU32(seq, TransferExpiry)]
  /\ origin' = [origin EXCEPT !.collector = [by |-> caller, at |-> seq]]
  /\ UNCHANGED <<seq, admin, pendingAdmin, feeCollector, timelock,
                 pendingUpgrade, wasm, dataVersion>>

\* Mutant: the expiry is not enforced for the collector.
accept_fee_collector_late(new) ==
  /\ pendingFeeCollector # None
  /\ pendingFeeCollector.to = new
  /\ feeCollector' = new
  /\ pendingFeeCollector' = None
  /\ origin' = [origin EXCEPT !.collector = None]
  /\ UNCHANGED <<seq, admin, pendingAdmin, timelock, pendingUpgrade, wasm,
                 dataVersion>>

accept_fee_collector(new) ==
  /\ pendingFeeCollector # None
  /\ pendingFeeCollector.to = new
  /\ ~(seq > pendingFeeCollector.expiry)
  /\ feeCollector' = new
  /\ pendingFeeCollector' = None
  /\ origin' = [origin EXCEPT !.collector = None]
  /\ UNCHANGED <<seq, admin, pendingAdmin, timelock, pendingUpgrade, wasm,
                 dataVersion>>

cancel_fee_collector_transfer(caller) ==
  /\ RequireAdmin(caller)
  /\ pendingFeeCollector # None
  /\ pendingFeeCollector' = None
  /\ origin' = [origin EXCEPT !.collector = None]
  /\ UNCHANGED <<seq, admin, pendingAdmin, feeCollector, timelock,
                 pendingUpgrade, wasm, dataVersion>>

-----------------------------------------------------------------------------
propose_upgrade(caller, hash) ==
  /\ RequireAdmin(caller)
  /\ pendingUpgrade = None
  /\ timelock # None
  /\ pendingUpgrade' = [hash |-> hash, unlock |-> AddU32(seq, timelock)]
  /\ origin' = [origin EXCEPT !.upgrade = [by |-> caller, at |-> seq]]
  /\ UNCHANGED <<seq, admin, pendingAdmin, feeCollector, pendingFeeCollector,
                 timelock, wasm, dataVersion>>

cancel_upgrade(caller) ==
  /\ RequireAdmin(caller)
  /\ pendingUpgrade # None
  /\ pendingUpgrade' = None
  /\ origin' = [origin EXCEPT !.upgrade = None]
  /\ UNCHANGED <<seq, admin, pendingAdmin, feeCollector, pendingFeeCollector,
                 timelock, wasm, dataVersion>>

\* Mutant: the timelock check is off by one ledger.
execute_upgrade_early ==
  /\ pendingUpgrade # None
  /\ ~(seq + 1 < pendingUpgrade.unlock)
  /\ pendingUpgrade' = None
  /\ wasm' = pendingUpgrade.hash
  /\ origin' = [origin EXCEPT !.upgrade = None]
  /\ UNCHANGED <<seq, admin, pendingAdmin, feeCollector, pendingFeeCollector,
                 timelock, dataVersion>>

\* Anyone may call this.  The successor code is taken to keep the storage and
\* the entry points of this module.
execute_upgrade ==
  /\ pendingUpgrade # None
  /\ ~(seq < pendingUpgrade.unlock)
  /\ pendingUpgrade' = None
  /\ wasm' = pendingUpgrade.hash
  /\ origin' = [origin EXCEPT !.upgrade = None]
  /\ UNCHANGED <<seq, admin, pendingAdmin, feeCollector, pendingFeeCollector,
                 timelock, dataVersion>>

\* Mutant: every call bumps the version.
migrate_bumps(caller) ==
  /\ RequireAdmin(caller)
  /\ dataVersion' = (IF dataVersion = None THEN 1 ELSE dataVersion) + 1
  /\ UNCHANGED <<seq, admin, pendingAdmin, feeCollector, pendingFeeCollector,
                 timelock, pendingUpgrade, wasm, origin>>

\* An absent version reads as 1; the call is a no-op at DataVersion and above.
migrate(caller) ==
  /\ RequireAdmin(caller)
  /\ dataVersion = None \/ dataVersion < DataVersion
  /\ dataVersion' = DataVersion
  /\ UNCHANGED <<seq, admin, pendingAdmin, feeCollector, pendingFeeCollector,
                 timelock, pendingUpgrade, wasm, origin>>

-----------------------------------------------------------------------------
InitCall == \E a \in Signer, tl \in Timelocks : init(a, tl)

\* Every governance step but init, which also writes other components' state.
GovStep ==
  \/ CloseLedger
  \/ execute_upgrade
  \/ \E a \in Signer :
       \/ accept_admin(a)
       \/ cancel_admin_transfer(a)
       \/ accept_fee_collector(a)
       \/ cancel_fee_collector_transfer(a)
       \/ cancel_upgrade(a)
       \/ migrate(a)
       \/ \E b \in AdminCandidates : propose_admin(a, b)
       \/ \E b \in CollectorCandidates : propose_fee_collector(a, b)
       \/ \E h \in Hashes : propose_upgrade(a, h)

GovNext == InitCall \/ GovStep

GovSpec == GovInit /\ [][GovNext]_govVars

-----------------------------------------------------------------------------
GovTypeOK ==
  /\ seq \in 0 .. MaxLedger
  /\ admin \in Address \cup {None}
  /\ pendingAdmin \in Offers \cup {None}
  /\ feeCollector \in Address \cup {None}
  /\ pendingFeeCollector \in Offers \cup {None}
  /\ timelock \in Timelocks \cup {None}
  /\ pendingUpgrade \in Upgrades \cup {None}
  /\ wasm \in Wasm
  /\ dataVersion \in {1, DataVersion, None}
  /\ origin \in [admin : Origins \cup {None}, collector : Origins \cup {None},
                 upgrade : Origins \cup {None}]

\* A pending admin transfer was proposed by the present admin: accept_admin
\* consumes the proposal, so no offer outlives the admin that made it and a
\* former admin cannot hand the role on.  (Upgrade and collector proposals do
\* outlive their proposer; see UpgradeTimelocked.)
NoStaleAdminOffer == pendingAdmin # None => origin.admin.by = admin

\* Whoever runs execute_upgrade, and however the admin role moved meanwhile,
\* the code changes only when the whole configured timelock has passed since
\* propose_upgrade.
UpgradeTimelocked ==
  [][wasm' # wasm => /\ origin.upgrade # None
                     /\ seq >= origin.upgrade.at + timelock]_govVars

\* The deadlines in storage are exactly those the proposals were made with,
\* and a role transfer or an upgrade is pending only in an initialized jar.
DeadlinesExact ==
  /\ pendingAdmin # None =>
       /\ origin.admin # None /\ admin # None
       /\ pendingAdmin.expiry = origin.admin.at + TransferExpiry
  /\ pendingFeeCollector # None =>
       /\ origin.collector # None /\ admin # None
       /\ pendingFeeCollector.expiry = origin.collector.at + TransferExpiry
  /\ pendingUpgrade # None =>
       /\ origin.upgrade # None /\ timelock # None
       /\ pendingUpgrade.unlock = origin.upgrade.at + timelock
  /\ timelock # None => admin # None

\* The inductive invariant behind the theorems of TipJarProofs.
GovInv == GovTypeOK /\ NoStaleAdminOffer /\ DeadlinesExact

\* Both roles are handed over as Handover promises: only to the party the one
\* open offer names, and within TransferExpiry ledgers of the offer.
OfferOf(p) ==
  IF p = None THEN None ELSE [to |-> p.to, until |-> p.expiry]

AdminRole == INSTANCE Handover
  WITH Party <- Address, Nobody <- None, Window <- TransferExpiry,
       now <- seq, holder <- admin, offer <- OfferOf(pendingAdmin)

CollectorRole == INSTANCE Handover
  WITH Party <- Address, Nobody <- None, Window <- TransferExpiry,
       now <- seq, holder <- feeCollector,
       offer <- OfferOf(pendingFeeCollector)

AdminHandover == AdminRole!Spec
CollectorHandover == CollectorRole!Spec
=============================================================================
