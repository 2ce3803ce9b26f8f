----------------------------- MODULE Companions -----------------------------
(***************************************************************************)
(* The programs that the repository keeps beside the tip jar: the limit    *)
(* order, derivatives and risk contracts, the security monitor, the backup *)
(* tools and the migration toolkit.  They share no state, so that a        *)
(* behaviour exercises one of them, chosen at the start.                   *)
(***************************************************************************)
EXTENDS LimitOrders, Derivatives, RiskManagement, SecurityMonitor, Backup,
        Migration

VARIABLE focus      \* the program this behaviour exercises

vars == <<focus, limitVars, derivVars, riskVars, monitorVars, backupVars, migrationVars>>

Init ==
  /\ focus \in {"limit orders", "derivatives", "risk", "monitor", "backup", "migration"}
  /\ LimitInit
  /\ DerivInit
  /\ RiskInit
  /\ MonitorInit
  /\ BackupInit
  /\ MigrationInit
  /\ focus # "backup" => ~incremental
  /\ focus # "migration" => ~jar.source.paused /\ DOMAIN jar.source.entries = Settings

Scheduling ==
  /\ focus = "backup"
  /\ Scheduler
  /\ UNCHANGED <<focus, limitVars, derivVars, riskVars, monitorVars, migrationVars>>

Next ==
  /\ UNCHANGED focus
  /\ \/ /\ focus = "limit orders" /\ LimitNext
        /\ UNCHANGED <<derivVars, riskVars, monitorVars, backupVars, migrationVars>>
     \/ /\ focus = "derivatives" /\ DerivNext
        /\ UNCHANGED <<limitVars, riskVars, monitorVars, backupVars, migrationVars>>
     \/ /\ focus = "risk" /\ RiskNext
        /\ UNCHANGED <<limitVars, derivVars, monitorVars, backupVars, migrationVars>>
     \/ /\ focus = "monitor" /\ MonitorNext
        /\ UNCHANGED <<limitVars, derivVars, riskVars, backupVars, migrationVars>>
     \/ /\ focus = "backup" /\ BackupNext
        /\ UNCHANGED <<limitVars, derivVars, riskVars, monitorVars, migrationVars>>
     \/ /\ focus = "migration" /\ MigrationNext
        /\ UNCHANGED <<limitVars, derivVars, riskVars, monitorVars, backupVars>>

\* The scheduler's timer fires, and a request ends, sooner or later.
Spec == Init /\ [][Next]_vars /\ WF_vars(Scheduling)

-----------------------------------------------------------------------------
CompanionsTypeOK ==
  /\ LimitTypeOK
  /\ DerivTypeOK
  /\ RiskTypeOK
  /\ MonitorTypeOK
  /\ BackupTypeOK
  /\ MigrationTypeOK

\* An order is closed once, whoever calls first: fills and refunds of limit orders
\* account for the whole pool, match_orders, settle_order and cancel_order close a
\* derivative order for one another, and a position stays within its order.  However
\* updates, resets and inits of the risk contract follow one another, its running total
\* is in step with the profiles, and no score is stale.
ContractsInStep ==
  /\ PoolAccounted
  /\ ClosedOneWay
  /\ EnteredWithinOrder
  /\ TotalInStep
  /\ ScoreFollowsExposure

\* Calls of check_transaction interleaved at the monitor's locks, with edits of its
\* lists and resets: nobody blacklisted all along passes, the breaker is open at its
\* threshold and announced once, and the window holds but for late callers.
MonitorHolds ==
  /\ BlockedAllAlong
  /\ TrippedAtThreshold
  /\ OneAlertPerTrip
  /\ WindowHeld

\* Whatever changed, failed or crashed between requests, a difference rebuilds what
\* was fetched, and pruning keeps the backup that was just made.
BackupsUsable ==
  /\ DiffsRebuild
  /\ LatestKept

\* Full backups catch up with the contract once it rests, in spite of every fault.
BackedUpAtLast == focus = "backup" => EventuallyBackedUp
=============================================================================
