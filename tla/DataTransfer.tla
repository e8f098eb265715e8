---------------------------- MODULE DataTransfer -----------------------------
(***************************************************************************)
(* pwf data export and import.  An export writes a directory: the          *)
(* database, the settings, and a manifest at the end.  An import stages a  *)
(* migrated copy of the database beside the live one, stops the server if  *)
(* it runs, removes the companions of the live database, puts the copy in  *)
(* its place, copies the settings and starts the server again.  Any step   *)
(* may fail or be the last before the process dies, and the server and its *)
(* supervisor go on on their own.  Databases and settings are told by the  *)
(* snapshot they came from.                                                *)
(***************************************************************************)
EXTENDS Naturals, FiniteSets

CONSTANTS
    Snapshots,        \* the directories; each is written and read at most once
    Own,              \* what was there at the beginning
    Nothing,          \* no file
    MaxTransferFaults \* how often a step fails, a process dies or a server crashes

ASSUME FaultsAssumption == MaxTransferFaults \in Nat

VARIABLES
    bundle,    \* what each directory holds
    export,    \* how far each export is
    import,    \* how far each import is
    restart,   \* was_active of each import
    staged,    \* the file pwf.sqlite3.import
    database,  \* the file pwf.sqlite3
    log,       \* the database that the write-ahead log at its path belongs to
    settings,  \* config.toml and titles.toml
    daemon,    \* the registered server
    faults,
    mixed      \* history: two imports, or an import and a start, at one time

exporting == <<bundle, export>>
importing == <<import, restart, staged, settings>>
live == <<database, log, daemon>>
transferVars == <<exporting, importing, live, faults, mixed>>

Origins == Snapshots \cup {Own}
Parts == {"database", "settings", "manifest"}
SettingsFiles == {"config", "titles"}
StagedFiles == [of: Snapshots, migrated: BOOLEAN]

ASSUME SnapshotsAssumption ==
    /\ Own \notin Snapshots
    /\ Nothing \notin Origins /\ Nothing \notin StagedFiles
    /\ \A parts \in SUBSET Parts : Nothing # parts

ExportEnds == {"exported", "failed"}
ImportEnds == {"imported", "failed"}
ExportSteps == ExportEnds \cup {"waiting", "database", "settings", "manifest", "cleaning"}
StagingSteps == {"removing", "copying", "migrating"}
Finishing == {"finishing", "companions", "replacing", "config", "titles"}
ImportSteps == ImportEnds \cup StagingSteps \cup Finishing \cup {"waiting", "asking", "stopping", "starting"}

TransferTypeOK ==
    /\ bundle \in [Snapshots -> (SUBSET Parts) \cup {Nothing}]
    /\ export \in [Snapshots -> ExportSteps]
    /\ import \in [Snapshots -> ImportSteps]
    /\ restart \in [Snapshots -> BOOLEAN]
    /\ staged \in StagedFiles \cup {Nothing}
    /\ database \in Origins
    /\ log \in Origins \cup {Nothing}
    /\ settings \in [SettingsFiles -> Origins]
    /\ daemon \in {"off", "on", "restarting"}
    /\ faults \in 0 .. MaxTransferFaults
    /\ mixed \in BOOLEAN

TransferInit ==
    /\ bundle = [s \in Snapshots |-> Nothing]
    /\ export = [s \in Snapshots |-> "waiting"]
    /\ import = [s \in Snapshots |-> "waiting"]
    /\ restart = [s \in Snapshots |-> FALSE]
    /\ staged = Nothing
    /\ database = Own
    /\ log \in {Own, Nothing}
    /\ settings = [f \in SettingsFiles |-> Own]
    /\ daemon \in {"off", "on"}
    /\ daemon = "on" => log = Own
    /\ faults = 0
    /\ mixed = FALSE

Fault == faults < MaxTransferFaults /\ faults' = faults + 1

-----------------------------------------------------------------------------
(* Export. *)

Exports(s, p) == export' = [export EXCEPT ![s] = p]

CreateDirectory(s) ==
    /\ export[s] = "waiting"
    /\ bundle' = [bundle EXCEPT ![s] = {}]
    /\ Exports(s, "database")
    /\ UNCHANGED <<importing, live, faults, mixed>>

\* VACUUM INTO, the copies of the settings, and the manifest at the end.
WritePart(s) ==
    /\ export[s] \in Parts
    /\ bundle' = [bundle EXCEPT ![s] = @ \cup {export[s]}]
    /\ Exports(s, CASE export[s] = "database" -> "settings"
                    [] export[s] = "settings" -> "manifest"
                    [] export[s] = "manifest" -> "exported")
    /\ UNCHANGED <<importing, live, faults, mixed>>

\* A part fails, perhaps half written; the directory goes.  If the process dies
\* instead, it stays as it is.
ExportFails(s) ==
    /\ export[s] \in Parts
    /\ Fault
    /\ \/ Exports(s, "cleaning")
       \/ Exports(s, "failed")
    /\ UNCHANGED <<bundle, importing, live, mixed>>

RemoveDirectory(s) ==
    /\ export[s] = "cleaning"
    /\ bundle' \in {[bundle EXCEPT ![s] = left] : left \in {bundle[s], Nothing}}
    /\ Exports(s, "failed")
    /\ UNCHANGED <<importing, live, faults, mixed>>

-----------------------------------------------------------------------------
(* Import. *)

Imports(s, p) == import' = [import EXCEPT ![s] = p]

UnderWay == {s \in Snapshots : import[s] \notin ImportEnds \cup {"waiting"}}

\* read_manifest.
StartImport(s) ==
    /\ import[s] = "waiting"
    /\ bundle[s] # Nothing
    /\ mixed' = (mixed \/ UnderWay # {})
    /\ Imports(s, IF "manifest" \in bundle[s] THEN "removing" ELSE "failed")
    /\ UNCHANGED <<exporting, restart, staged, settings, live, faults>>

\* What an earlier import left behind goes.
RemoveStaged(s) ==
    /\ import[s] = "removing"
    /\ staged' = Nothing
    /\ Imports(s, "copying")
    /\ UNCHANGED <<exporting, restart, settings, live, faults, mixed>>

\* The copy needs a new file.
CopySnapshot(s) ==
    /\ import[s] = "copying"
    /\ IF staged = Nothing /\ "database" \in bundle[s]
       THEN staged' = [of |-> s, migrated |-> FALSE] /\ Imports(s, "migrating")
       ELSE staged' = Nothing /\ Imports(s, "failed")
    /\ UNCHANGED <<exporting, restart, settings, live, faults, mixed>>

\* The copy is migrated and its integrity checked; if not, it is removed.
MigrateStaged(s) ==
    /\ import[s] = "migrating"
    /\ staged # Nothing
    /\ \/ staged' = [staged EXCEPT !.migrated = TRUE] /\ Imports(s, "asking")
       \/ staged' = Nothing /\ Imports(s, "failed")
    /\ UNCHANGED <<exporting, restart, settings, live, faults, mixed>>

\* is_registered_server_active: a server that its supervisor is about to start
\* again counts as failed, and so as inactive.
AskForServer(s) ==
    /\ import[s] = "asking"
    /\ restart' = [restart EXCEPT ![s] = daemon = "on"]
    /\ Imports(s, IF daemon = "on" THEN "stopping" ELSE "finishing")
    /\ UNCHANGED <<exporting, staged, settings, live, faults, mixed>>

\* A server that stops in time takes its log along; one that is killed for
\* being late leaves it.
StopServer(s) ==
    /\ import[s] = "stopping"
    /\ daemon' = "off"
    /\ log' \in {log, Nothing}
    /\ Imports(s, "finishing")
    /\ UNCHANGED <<exporting, restart, staged, settings, database, faults, mixed>>

CheckStaged(s) ==
    /\ import[s] = "finishing"
    /\ Imports(s, IF staged # Nothing THEN "companions" ELSE "failed")
    /\ UNCHANGED <<exporting, restart, staged, settings, live, faults, mixed>>

\* Mutant: the companions of the replaced database stay.
KeepCompanions(s) ==
    /\ import[s] = "companions"
    /\ Imports(s, "replacing")
    /\ UNCHANGED <<exporting, restart, staged, settings, live, faults, mixed>>

\* The log would be applied to whatever is at the path of its database.
RemoveCompanions(s) ==
    /\ import[s] = "companions"
    /\ log' = Nothing
    /\ Imports(s, "replacing")
    /\ UNCHANGED <<exporting, restart, staged, settings, database, daemon, faults, mixed>>

ReplaceDatabase(s) ==
    /\ import[s] = "replacing"
    /\ IF staged # Nothing
       THEN database' = staged.of /\ Imports(s, "config")
       ELSE UNCHANGED database /\ Imports(s, "failed")
    /\ staged' = Nothing
    /\ UNCHANGED <<exporting, restart, settings, log, daemon, faults, mixed>>

RestoreSettings(s) ==
    /\ import[s] \in SettingsFiles
    /\ settings' = [settings EXCEPT ![import[s]] = IF "settings" \in bundle[s] THEN s ELSE @]
    /\ Imports(s, IF import[s] = "config" THEN "titles"
                  ELSE IF restart[s] THEN "starting" ELSE "imported")
    /\ UNCHANGED <<exporting, restart, staged, live, faults, mixed>>

\* A server opens the database and has a log for it, or continues the one that
\* it finds.
Opens == daemon' = "on" /\ log' = IF log = Nothing THEN database ELSE log

StartServer(s) ==
    /\ import[s] = "starting"
    /\ Opens
    /\ Imports(s, "imported")
    /\ UNCHANGED <<exporting, restart, staged, settings, database, faults, mixed>>

\* A step fails or the process dies; the staged file stays behind, and a server
\* that was stopped stays stopped.
ImportFails(s) ==
    /\ s \in UnderWay
    /\ Fault
    /\ Imports(s, "failed")
    /\ UNCHANGED <<exporting, restart, staged, settings, live, mixed>>

-----------------------------------------------------------------------------
(* The server and its supervisor. *)

ServerDies ==
    /\ daemon = "on"
    /\ Fault
    /\ daemon' = "restarting"
    /\ UNCHANGED <<exporting, importing, database, log, mixed>>

\* The supervisor starts the server again, or somebody starts it.
SomebodyStarts ==
    /\ daemon # "on"
    /\ mixed' = (mixed \/ \E s \in UnderWay : import[s] \in Finishing)
    /\ Opens
    /\ UNCHANGED <<exporting, importing, database, faults>>

TransferNext ==
    \/ \E s \in Snapshots :
         \/ CreateDirectory(s) \/ WritePart(s) \/ ExportFails(s) \/ RemoveDirectory(s)
         \/ StartImport(s) \/ RemoveStaged(s) \/ CopySnapshot(s) \/ MigrateStaged(s)
         \/ AskForServer(s) \/ StopServer(s) \/ CheckStaged(s) \/ RemoveCompanions(s)
         \/ ReplaceDatabase(s) \/ RestoreSettings(s) \/ StartServer(s) \/ ImportFails(s)
    \/ ServerDies
    \/ SomebodyStarts

TransferSpec == TransferInit /\ [][TransferNext]_transferVars

-----------------------------------------------------------------------------
\* Unless two imports overlap, or a server starts under one: the log beside the
\* database is never one of another database, wherever an import stopped; and
\* an import that reports success was one of a complete export, with its
\* database and both of its settings files in place (snapshot.rs
\* replace_database_file, data.rs export and finish_import).
ImportsAreWhole ==
    ~mixed =>
        /\ log \in {database, Nothing}
        /\ \A s \in Snapshots : import[s] = "imported" =>
             /\ bundle[s] = Parts
             /\ (\A other \in Snapshots \ {s} : import[other] = "waiting") =>
                  database = s /\ settings = [f \in SettingsFiles |-> s]

=============================================================================
