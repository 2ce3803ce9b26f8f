------------------------------- MODULE Backup -------------------------------
(***************************************************************************)
(* The backup tools: a scheduler runs the state exporter every interval,   *)
(* which reads the contract's entries in two requests and writes a full    *)
(* snapshot or a difference to an earlier one; old files are pruned.  The  *)
(* contract changes meanwhile, requests fail, and the scheduler crashes.   *)
(***************************************************************************)
EXTENDS Integers, Sequences, FiniteSets

CONSTANTS
  InstanceKeys,     \* keys of instance storage
  PersistentKeys,   \* keys of persistent storage
  Value,            \* stored values
  Modes,            \* the values --incremental is given
  Encrypt,          \* --encrypt
  SameDir,          \* whether the scheduler runs in its own output directory
  MaxBackups,       \* --max-backups, 0 for no limit
  MaxChanges,       \* bound: changes of the contract's storage
  MaxFaults,        \* bound: requests and removals that fail
  MaxCrashes        \* bound: crashes of the scheduler

Key == InstanceKeys \cup PersistentKeys
Entries == UNION {[K -> Value] : K \in SUBSET Key}
NoEntries == [k \in {} |-> k]

ASSUME BackupAssumption ==
  /\ InstanceKeys \cap PersistentKeys = {}
  /\ Modes \subseteq BOOLEAN
  /\ Encrypt \in BOOLEAN /\ SameDir \in BOOLEAN
  /\ {MaxBackups, MaxChanges, MaxFaults, MaxCrashes} \subseteq Nat

VARIABLES
  incremental,  \* --incremental, for the life of the scheduler's set-up
  ledger,     \* external: the contract's entries
  files,      \* the output directory, oldest first
  last,       \* last_backup_id of the scheduler; 0 is None
  stage,         \* where the scheduler and its exporter are
  instance, persistent,   \* what the exporter has fetched
  changes, faults, crashes  \* how often each has happened

environment == <<incremental, ledger, changes>>
backupVars == <<environment, files, last, stage, instance, persistent,
                faults, crashes>>

Only(f, K) == [k \in DOMAIN f \cap K |-> f[k]]
Joined(f, g) == [k \in DOMAIN f \cup DOMAIN g |->
                   IF k \in DOMAIN g THEN g[k] ELSE f[k]]

BackupInit ==
  /\ incremental \in Modes
  /\ ledger = NoEntries
  /\ files = <<>>
  /\ last = 0
  /\ stage = "sleep"
  /\ instance = NoEntries /\ persistent = NoEntries
  /\ changes = 0 /\ faults = 0 /\ crashes = 0

\* A transaction writes or removes an entry.
Change(k) ==
  /\ changes < MaxChanges
  /\ changes' = changes + 1
  /\ \/ \E v \in Value : ledger' = Joined(ledger, [x \in {k} |-> v])
     \/ k \in DOMAIN ledger /\ ledger' = Only(ledger, Key \ {k})
  /\ UNCHANGED <<incremental, files, last, stage, instance, persistent,
                 faults, crashes>>

Fault == faults < MaxFaults /\ faults' = faults + 1

-----------------------------------------------------------------------------
\* The next cycle begins.
Cycle ==
  /\ stage = "sleep"
  /\ stage' = "instance"
  /\ UNCHANGED <<environment, files, last, instance, persistent, faults,
                 crashes>>

\* A request returns the entries, or an error that ends the cycle, or an answer
\* without a result, which counts as no entries.
Fetched(entries, result) ==
  \/ result' = entries /\ UNCHANGED faults
  \/ Fault /\ result' = NoEntries

RequestFails ==
  /\ stage \in {"instance", "persistent"}
  /\ Fault
  /\ stage' = "sleep"
  /\ UNCHANGED <<environment, files, last, instance, persistent,
                 crashes>>

fetch_contract_entries ==
  /\ stage = "instance"
  /\ Fetched(Only(ledger, InstanceKeys), instance)
  /\ stage' = "persistent"
  /\ UNCHANGED <<environment, files, last, persistent, crashes>>

fetch_persistent_entries ==
  /\ stage = "persistent"
  /\ Fetched(Only(ledger, PersistentKeys), persistent)
  /\ stage' = "write"
  /\ UNCHANGED <<environment, files, last, instance, crashes>>

Current == Joined(instance, persistent)

\* Mutant: entries whose value changed are not in the difference.
compute_diff_misses_modified(base) ==
  [changed |-> Only(Current, DOMAIN Current \ DOMAIN base),
   removed |-> DOMAIN base \ DOMAIN Current]

\* compute_diff: added and modified entries, and removed keys.
compute_diff(base) ==
  [changed |-> Only(Current,
                 {k \in DOMAIN Current : k \in DOMAIN base => base[k] # Current[k]}),
   removed |-> DOMAIN base \ DOMAIN Current]

UseIncremental == incremental /\ last # 0

\* The base is looked up by its name in the working directory, and must be a
\* full snapshot in clear text.
Bases == {f \in DOMAIN files : files[f].name = last /\ files[f].kind = "full"
                               /\ SameDir /\ ~Encrypt}

\* Backup ids are told apart by their timestamps.
FreshName ==
  LET used == {last} \cup UNION {{files[f].name, files[f].base} : f \in DOMAIN files}
      free == (1 .. Cardinality(used) + 1) \ used
  IN  CHOOSE n \in free : \A m \in free : n <= m

NewFile(kind, entries, removed) ==
  [name |-> FreshName, kind |-> kind, entries |-> entries, removed |-> removed,
   base |-> IF kind = "diff" THEN last ELSE 0, state |-> Current]

\* The exporter writes its file and exits.
Write ==
  /\ stage = "write"
  /\ IF UseIncremental
     THEN \E f \in Bases :
            LET diff == compute_diff(files[f].entries)
            IN  files' = Append(files, NewFile("diff", diff.changed, diff.removed))
     ELSE files' = Append(files, NewFile("full", Current, {}))
  /\ last' = FreshName
  /\ stage' = "prune"
  /\ UNCHANGED <<environment, instance, persistent, faults,
                 crashes>>

\* Without a base that it can read the exporter fails.
NoBase ==
  /\ stage = "write"
  /\ UseIncremental /\ Bases = {}
  /\ stage' = "sleep"
  /\ UNCHANGED <<environment, files, last, instance, persistent,
                 faults, crashes>>

\* Mutant: the newest files are removed.
Kept_oldest == SubSeq(files, 1, MaxBackups)

Kept == SubSeq(files, Len(files) - MaxBackups + 1, Len(files))

\* The oldest files go.  A removal that fails ends the scheduler.
prune_old_backups ==
  /\ stage = "prune"
  /\ IF MaxBackups = 0 \/ Len(files) <= MaxBackups
     THEN stage' = "sleep" /\ UNCHANGED <<files, faults>>
     ELSE \/ files' = Kept /\ stage' = "sleep" /\ UNCHANGED faults
          \/ Fault /\ stage' = "stopped" /\ UNCHANGED files
  /\ UNCHANGED <<environment, last, instance, persistent,
                 crashes>>

\* The scheduler crashes and is started again; a file that was being written is
\* left torn.
Crash ==
  /\ crashes < MaxCrashes
  /\ crashes' = crashes + 1
  /\ \/ UNCHANGED files
     \/ stage = "write" /\ files' = Append(files, NewFile("torn", NoEntries, {}))
  /\ last' = 0
  /\ stage' = "sleep"
  /\ instance' = NoEntries /\ persistent' = NoEntries
  /\ UNCHANGED <<environment, faults>>

-----------------------------------------------------------------------------
Scheduler ==
  \/ Cycle
  \/ RequestFails
  \/ fetch_contract_entries
  \/ fetch_persistent_entries
  \/ Write
  \/ NoBase
  \/ prune_old_backups

BackupNext ==
  \/ \E k \in Key : Change(k)
  \/ Scheduler
  \/ Crash

\* The scheduler's timer fires, and a request ends, sooner or later.
BackupSpec ==
  BackupInit /\ [][BackupNext]_backupVars /\ WF_backupVars(Scheduler)

-----------------------------------------------------------------------------
BackupTypeOK ==
  /\ incremental \in Modes
  /\ ledger \in Entries /\ instance \in Entries /\ persistent \in Entries
  /\ \A f \in DOMAIN files :
       /\ files[f].kind \in {"full", "diff", "torn"}
       /\ files[f].entries \in Entries /\ files[f].removed \subseteq Key
  /\ MaxBackups > 0 => Len(files) <= MaxBackups + 1 + crashes
  /\ last \in Nat
  /\ stage \in {"sleep", "instance", "persistent", "write", "prune", "stopped"}
  /\ changes \in 0 .. MaxChanges
  /\ faults \in 0 .. MaxFaults /\ crashes \in 0 .. MaxCrashes

\* The full snapshots a file is a difference to.
BasesOf(f) == {b \in DOMAIN files :
                 files[b].kind = "full" /\ files[b].name = files[f].base}

\* What a difference makes of its base, and what file f stands for.
Applied(base, f) == Only(Joined(base, files[f].entries), Key \ files[f].removed)
Restorable(f, state) ==
  \/ files[f].kind = "full" /\ files[f].entries = state
  \/ /\ files[f].kind = "diff"
     /\ \E b \in BasesOf(f) : Applied(files[b].entries, f) = state

\* compute_diff loses nothing: with its base, a difference gives back exactly
\* the entries the exporter had fetched, whatever was pruned, torn by a crash or
\* changed in the contract in between.
DiffsRebuild ==
  \A f \in DOMAIN files :
    files[f].kind = "diff" /\ BasesOf(f) # {} => Restorable(f, files[f].state)

\* prune_old_backups never removes the backup that was just made.
LatestKept == last # 0 => \E f \in DOMAIN files : files[f].name = last

\* Full backups survive every fault: once the contract rests and requests
\* succeed again, the newest file is a backup of its state, unless a removal
\* that failed ended the scheduler.  (With --incremental it is not so: the base
\* of the second difference is a difference, which the exporter cannot read.)
EventuallyBackedUp ==
  ~incremental =>
    <>[](\/ stage = "stopped"
         \/ files # <<>> /\ Restorable(Len(files), ledger))

\* The inductive invariant behind BackupTypeOK: only a crash, or the backup that
\* was just made, exceeds the limit.
File == [name : Nat \ {0}, kind : {"full", "diff", "torn"}, entries : Entries,
         removed : SUBSET Key, base : Nat, state : Entries]
FilesCounted ==
  MaxBackups > 0 =>
    Len(files) <= MaxBackups + crashes + (IF stage \in {"prune", "stopped"} THEN 1 ELSE 0)

\* The inductive invariant behind DiffsRebuild: no two files share a name, and a
\* difference gives back what was fetched with whatever base of its it finds.
NamesUnique == \A f, g \in DOMAIN files : files[f].name = files[g].name => f = g
DiffsFit ==
  \A f \in DOMAIN files :
    files[f].kind = "diff" =>
      \A b \in BasesOf(f) : Applied(files[b].entries, f) = files[f].state

\* The inductive invariant behind LatestKept: the backup just made is the newest file.
LatestIsLast == last # 0 => files # <<>> /\ files[Len(files)].name = last

BackupInv ==
  /\ BackupTypeOK /\ files \in Seq(File) /\ FilesCounted
  /\ NamesUnique /\ DiffsFit
  /\ LatestIsLast
=============================================================================
