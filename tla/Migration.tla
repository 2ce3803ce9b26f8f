----------------------------- MODULE Migration ------------------------------
(***************************************************************************)
(* The migration toolkit (scripts/migrate): an operator exports a source   *)
(* contract into a snapshot file, transforms it, and imports it into a     *)
(* target contract; import backs the target up, pauses it, writes record   *)
(* after record, verifies, and unpauses, or rolls back.  There is one      *)
(* operator and one command at a time, and users' transactions between any *)
(* two calls of the tool.  The formats of the records are abstracted to    *)
(* what the commands tell apart: settings of the instance storage, which   *)
(* are always there and which a failed read turns into the default;        *)
(* records, which it leaves out; worthless records, which the transform    *)
(* drops; and expired locks, which it cancels.                             *)
(***************************************************************************)
EXTENDS Naturals, Sequences

CONSTANTS
  Settings,         \* entries of the instance storage
  Records,          \* entries of the persistent storage
  ZeroValue,        \* a zero balance or total, a cancelled subscription, a refunded tip
  Live,             \* ordinary contents
  Expired,          \* a time lock that is past its unlock time
  Cancelled,        \* the same lock, cancelled
  Missing,          \* a file that is not there, or that cannot be parsed
  MaxCommands,      \* bound: commands of the operator
  MaxUserCalls,     \* bound: changes made by users
  MaxBadCalls       \* bound: calls that fail, and crashes of the tool

VARIABLES
  jar,              \* the source and the target contract
  snapshots,        \* the snapshot files, by the name the configuration gives them
  step,             \* where the running command is
  reading,          \* the contract the export reads
  got,              \* what the export has read so far
  unread,           \* what it has not read yet
  from,             \* the file that is being written to the target
  todo,             \* the entries of it that are not written yet
  automatic,        \* whether import_state called rollback, or the operator
  history,          \* the statuses in the history file
  commands, userCalls, badCalls

migrationVars == <<jar, snapshots, step, reading, got, unread, from, todo, automatic,
                   history, commands, userCalls, badCalls>>
fileVars == <<snapshots, history>>
exportVars == <<reading, got, unread>>
importVars == <<from, todo, automatic>>

Entry == Settings \cup Records
Contents == {ZeroValue, Live, Expired, Cancelled}
Storage == UNION {[Settings \cup S -> Contents] : S \in SUBSET Records}
Snapshot == [paused : BOOLEAN, entries : Storage]
Put(f, k, v) == [x \in {k} \cup DOMAIN f |-> IF x = k THEN v ELSE f[x]]

CallFails == badCalls < MaxBadCalls /\ badCalls' = badCalls + 1
CallWorks == UNCHANGED badCalls

MigrationInit ==
  /\ jar \in [source : [paused : BOOLEAN,
                        entries : [Settings -> {Live}] \cup [Entry -> {Live}]],
              target : {[paused |-> FALSE, entries |-> [k \in Settings |-> ZeroValue]]}]
  /\ snapshots = [export |-> Missing, transformed |-> Missing, backup |-> Missing]
  /\ step = "idle"
  /\ reading = "source"
  /\ got = [k \in {} |-> Live]
  /\ unread = {}
  /\ from = "transformed"
  /\ todo = {}
  /\ automatic = FALSE
  /\ history = <<>>
  /\ commands = 0
  /\ userCalls = 0
  /\ badCalls = 0

\* A user's transaction on a contract that is not paused.
user_call(c, k, v) ==
  /\ userCalls < MaxUserCalls
  /\ ~jar[c].paused
  /\ userCalls' = userCalls + 1
  /\ jar' = [jar EXCEPT ![c].entries = Put(@, k, v)]
  /\ UNCHANGED <<fileVars, step, exportVars, importVars, commands, badCalls>>

Command == step = "idle" /\ commands < MaxCommands /\ commands' = commands + 1
At(s) == step = s /\ UNCHANGED <<commands, userCalls>>

-----------------------------------------------------------------------------
(* export_state, of the source for its own sake, of the target as backup *)

BeginReading(c) ==
  /\ step' = "reading"
  /\ reading' = c
  /\ got' = [k \in {} |-> Live]
  /\ unread' = Entry

run_export ==
  /\ Command
  /\ BeginReading("source")
  /\ UNCHANGED <<jar, fileVars, importVars, userCalls, badCalls>>

\* A read that fails is answered with the default: a setting counts as zero, a
\* record as absent.
Defaulted(k) == IF k \in Settings THEN Put(got, k, ZeroValue) ELSE got

Stored(k) ==
  LET entries == jar[reading].entries
  IN  IF k \in DOMAIN entries THEN Put(got, k, entries[k]) ELSE got

read_entry(k) ==
  /\ At("reading")
  /\ k \in unread
  /\ unread' = unread \ {k}
  /\ \/ got' = Stored(k) /\ CallWorks
     \/ got' = Defaulted(k) /\ CallFails
  /\ UNCHANGED <<jar, fileVars, step, reading, importVars>>

\* The file that an export of contract c writes: create_backup reuses export_state.
OutputOf(c) == IF c = "source" THEN "export" ELSE "backup"

\* The export's last step seals the snapshot and writes the file, in one piece unless
\* the write fails.  The pause flag was read with the settings, and is false if it
\* could not be read.
finish_reading ==
  /\ At("reading")
  /\ unread = {}
  /\ \/ /\ \E p \in {FALSE, jar[reading].paused} :
             /\ snapshots' = [snapshots EXCEPT ![OutputOf(reading)] =
                                [paused |-> p, entries |-> got]]
             /\ IF p = jar[reading].paused THEN CallWorks ELSE CallFails
        /\ step' = IF reading = "source" THEN "idle" ELSE "pause"
     \/ /\ snapshots' = [snapshots EXCEPT ![OutputOf(reading)] = Missing]
        /\ step' = "idle"
        /\ CallFails
  /\ UNCHANGED <<jar, history, exportVars, importVars>>

\* The admin, the token list or the ledger sequence cannot be read.
give_up_reading ==
  /\ At("reading")
  /\ step' = "idle"
  /\ CallFails
  /\ UNCHANGED <<jar, fileVars, exportVars, importVars>>

-----------------------------------------------------------------------------
(* transform *)

\* The rules from version 1 to version 2 that change what a record says.
Transformed(entries) ==
  LET kept == {k \in DOMAIN entries : k \in Settings \/ entries[k] # ZeroValue}
  IN  [k \in kept |-> IF k \in Records /\ entries[k] = Expired THEN Cancelled
                                                             ELSE entries[k]]

run_transform ==
  /\ Command
  /\ snapshots.export # Missing
  /\ snapshots' = [snapshots EXCEPT !.transformed =
                 [snapshots.export EXCEPT !.entries = Transformed(@)]]
  /\ UNCHANGED <<jar, history, step, exportVars, importVars, userCalls, badCalls>>

-----------------------------------------------------------------------------
(* import_state *)

\* A history file that cannot be parsed counts as empty and is overwritten.
append_history_entry(status) ==
  history' = IF history = Missing THEN <<status>> ELSE Append(history, status)

run_import_dry ==
  /\ Command
  /\ snapshots.transformed # Missing
  /\ append_history_entry("DryRun")
  /\ UNCHANGED <<jar, snapshots, step, exportVars, importVars, userCalls, badCalls>>

run_import ==
  /\ Command
  /\ snapshots.transformed # Missing
  /\ BeginReading("target")
  /\ UNCHANGED <<jar, fileVars, importVars, userCalls, badCalls>>

\* A call to the target that fails may yet have taken effect.
WithOrWithout(contract) == jar' = [jar EXCEPT !.target = contract] \/ UNCHANGED jar

BeginWriting(file) ==
  /\ from' = file
  /\ todo' = DOMAIN snapshots[file].entries

pause_target ==
  /\ At("pause")
  /\ LET paused == [jar.target EXCEPT !.paused = TRUE]
     IN  \/ /\ jar' = [jar EXCEPT !.target = paused]
            /\ step' = "writing"
            /\ BeginWriting("transformed")
            /\ UNCHANGED automatic
            /\ CallWorks
         \/ /\ WithOrWithout(paused)
            /\ step' = "idle"
            /\ UNCHANGED importVars
            /\ CallFails
  /\ UNCHANGED <<fileVars, exportVars>>

\* A rollback that fails is recorded as RolledBack all the same.
EndRollback ==
  /\ step' = "idle"
  /\ IF automatic THEN append_history_entry("RolledBack") ELSE UNCHANGED history
  /\ UNCHANGED automatic

BeginRollback ==
  /\ step' = "rollback"
  /\ automatic' = TRUE
  /\ UNCHANGED history

FailedWriting_resumed ==
  IF from = "transformed" THEN BeginRollback
                          ELSE step' = "unpause" /\ UNCHANGED <<automatic, history>>

FailedWriting == IF from = "transformed" THEN BeginRollback ELSE EndRollback

\* do_import writes one record after another and stops at the first that fails.
write_entry(k) ==
  /\ At("writing")
  /\ k \in todo
  /\ LET written == [jar.target EXCEPT !.entries = Put(@, k, snapshots[from].entries[k])]
     IN  \/ /\ jar' = [jar EXCEPT !.target = written]
            /\ todo' = todo \ {k}
            /\ UNCHANGED <<step, automatic, history>>
            /\ CallWorks
         \/ /\ WithOrWithout(written)
            /\ FailedWriting
            /\ todo' = {}
            /\ CallFails
  /\ UNCHANGED <<snapshots, exportVars, from>>

AllWritten ==
  /\ At("writing")
  /\ todo = {}
  /\ step' = IF from = "transformed" THEN "verify" ELSE "unpause"
  /\ UNCHANGED <<jar, fileVars, exportVars, importVars, badCalls>>

Landed(snapshot, contract) ==
  \A k \in DOMAIN snapshot.entries :
    k \in DOMAIN contract.entries /\ contract.entries[k] = snapshot.entries[k]

\* Verification compares every record, and the pause flag, which a failed read makes
\* false.  A failed read of anything else is a finding.
Clean(pausedRead) ==
  /\ Landed(snapshots.transformed, jar.target)
  /\ pausedRead = snapshots.transformed.paused

verify_migration ==
  /\ At("verify")
  /\ \/ CallWorks /\ IF Clean(jar.target.paused)
                     THEN step' = "unpause" /\ UNCHANGED <<automatic, history>>
                     ELSE BeginRollback
     \/ CallFails /\ Clean(FALSE) /\ step' = "unpause" /\ UNCHANGED <<automatic, history>>
     \/ CallFails /\ BeginRollback
  /\ UNCHANGED <<jar, snapshots, exportVars, from, todo>>

unpause_target ==
  /\ At("unpause")
  /\ LET unpaused == [jar.target EXCEPT !.paused = FALSE]
     IN  \/ /\ jar' = [jar EXCEPT !.target = unpaused]
            /\ IF from = "transformed"
                 THEN step' = "record" /\ UNCHANGED <<automatic, history>>
                 ELSE EndRollback
            /\ CallWorks
         \/ /\ WithOrWithout(unpaused)
            /\ IF from = "transformed"
                 THEN step' = "idle" /\ UNCHANGED <<automatic, history>>
                 ELSE EndRollback
            /\ CallFails
  /\ UNCHANGED <<snapshots, exportVars, from, todo>>

\* The report is written before the history: without the one there is not the other.
record_success ==
  /\ At("record")
  /\ step' = "idle"
  /\ \/ append_history_entry("Success") /\ CallWorks
     \/ UNCHANGED history /\ CallFails
  /\ UNCHANGED <<jar, snapshots, exportVars, importVars>>

-----------------------------------------------------------------------------
(* rollback *)

run_rollback ==
  /\ Command
  /\ snapshots.backup # Missing
  /\ step' = "rollback"
  /\ automatic' = FALSE
  /\ UNCHANGED <<jar, fileVars, exportVars, from, todo, userCalls, badCalls>>

\* The backup is read back from its file, and its checksum may not agree.
rollback ==
  /\ At("rollback")
  /\ \/ /\ snapshots.backup # Missing
        /\ step' = "writing"
        /\ BeginWriting("backup")
        /\ UNCHANGED <<automatic, history>>
        /\ CallWorks
     \/ /\ EndRollback
        /\ UNCHANGED <<from, todo>>
        /\ CallFails
  /\ UNCHANGED <<jar, snapshots, exportVars>>

\* The tool dies; a history file it was writing is left torn.
crash_migration ==
  /\ At(step)
  /\ step # "idle"
  /\ CallFails
  /\ step' = "idle"
  /\ history' \in IF step = "record" THEN {history, Missing} ELSE {history}
  /\ UNCHANGED <<jar, snapshots, exportVars, importVars>>

MigrationNext ==
  \/ \E c \in {"source", "target"}, k \in Entry, v \in {ZeroValue, Expired} :
        user_call(c, k, v)
  \/ run_export
  \/ \E k \in Entry : read_entry(k)
  \/ finish_reading
  \/ give_up_reading
  \/ run_transform
  \/ run_import_dry
  \/ run_import
  \/ pause_target
  \/ \E k \in Entry : write_entry(k)
  \/ AllWritten
  \/ verify_migration
  \/ unpause_target
  \/ record_success
  \/ run_rollback
  \/ rollback
  \/ crash_migration

-----------------------------------------------------------------------------
MigrationTypeOK ==
  /\ \A c \in {"source", "target"} : jar[c] \in Snapshot
  /\ \A f \in DOMAIN snapshots : snapshots[f] \in Snapshot \cup {Missing}
  /\ step \in {"idle", "reading", "pause", "writing", "verify", "unpause", "record",
               "rollback"}
  /\ from \in {"transformed", "backup"}
  /\ todo \subseteq Entry
  /\ unread \subseteq Entry
  /\ history \in {Missing} \cup Seq({"DryRun", "RolledBack", "Success"})

\* Whatever failed, crashed or was tried again, users are let back into the target
\* only when the whole snapshot or the whole backup is in it (import_state and rollback
\* unpause after the last write, and a failed write never leads to an unpause).
NeverHalfImported ==
  [][jar.target.paused /\ ~jar'.target.paused =>
       \E f \in {"transformed", "backup"} :
         snapshots[f] # Missing /\ Landed(snapshots[f], jar'.target)]_migrationVars

\* The inductive invariant behind NeverHalfImported: while the target is paused,
\* what has been written of a snapshot is in it.
Arrived(f, K) ==
  /\ snapshots[f] # Missing
  /\ \A k \in DOMAIN snapshots[f].entries \cap K :
       k \in DOMAIN jar.target.entries
         /\ jar.target.entries[k] = snapshots[f].entries[k]
ImportSound ==
  /\ step = "writing" /\ jar.target.paused => Arrived(from, Entry \ todo)
  /\ step \in {"verify", "unpause"} /\ jar.target.paused => Arrived(from, Entry)
  /\ step = "verify" => from = "transformed"
  /\ (step = "reading" /\ reading = "target") \/ step = "pause"
       => snapshots.transformed # Missing
  /\ step = "writing" =>
       snapshots[from] # Missing /\ todo \subseteq DOMAIN snapshots[from].entries

\* Behind MigrationTypeOK: a snapshot that is being read has the settings read so far.
ReadingSound ==
  /\ reading \in {"source", "target"}
  /\ step = "reading" =>
       /\ got \in [DOMAIN got -> Contents] /\ DOMAIN got \subseteq Entry
       /\ Settings \ unread \subseteq DOMAIN got

MigrationInv ==
  /\ MigrationTypeOK
  /\ DOMAIN jar = {"source", "target"}
  /\ DOMAIN snapshots = {"export", "transformed", "backup"}
  /\ ReadingSound /\ ImportSound
=============================================================================
