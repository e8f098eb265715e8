---------------------------- MODULE ServerUpgrade -----------------------------
(***************************************************************************)
(* Releases of the server and the one database they share.  A server binds *)
(* its endpoint, asks whether the migrations that were applied are a       *)
(* beginning of its own, applies the rest in one transaction, and serves.  *)
(* The supervisor starts the registered server again when it fails, but    *)
(* not when it refuses the database.  Commands of the client install a     *)
(* release, and restart or start the registered one.  A second server may  *)
(* run in the foreground, at the same endpoint or at another.              *)
(***************************************************************************)
EXTENDS Naturals, Sequences

Seqs == INSTANCE SequencesExt

CONSTANTS
    Catalog,      \* the migrations of each release
    Unit,         \* the registered server
    Foreground,   \* a server that somebody starts
    NoRelease,
    MaxServerCommands,
    MaxServerFailures

Releases == DOMAIN Catalog
Processes == {Unit, Foreground}
Migrations == UNION {Seqs!ToSet(Catalog[r]) : r \in Releases}
Ledgers == {<<>>} \cup {Catalog[r] : r \in Releases}

ASSUME CatalogAssumption ==
    /\ \A r \in Releases : Catalog[r] \in Seq(Migrations)
    /\ NoRelease \notin Releases \cup Processes /\ Unit # Foreground
ASSUME UpgradeBounds == MaxServerCommands \in Nat /\ MaxServerFailures \in Nat

VARIABLES
    ledger,      \* the migrations in the database
    pending,     \* the ledger in the open transaction
    writer,      \* who has it
    startup,     \* how far each server is
    release,     \* what each server is
    installed,   \* what the registration names
    apart,       \* the server in the foreground has an endpoint of its own
    command,     \* the command of the client
    commands,
    failures,
    doomed       \* history: a server that served was stopped for a release
                 \* that the database refuses

upgradeVars ==
    <<ledger, pending, writer, startup, release, installed, apart, command,
      commands, failures, doomed>>

NotRunning == {"off", "failed", "restarting"}
Migrating == {"validating", "applying", "committing"}
ServerPhases == NotRunning \cup Migrating \cup {"binding", "checking", "beginning", "verifying", "serving"}

CommandSteps == {"preflight", "stopping", "installing", "starting", "waiting", "asking", "ready", "failed"}
NoCommand == [kind |-> "none", release |-> NoRelease, step |-> "failed", served |-> FALSE]

Bound(p) == startup[p] \notin NotRunning \cup {"binding"}

UpgradeTypeOK ==
    /\ ledger \in Seq(Migrations) /\ pending \in Seq(Migrations)
    /\ writer \in Processes \cup {NoRelease}
    /\ startup \in [Processes -> ServerPhases]
    /\ release \in [Processes -> Releases \cup {NoRelease}]
    /\ installed \in Releases \cup {NoRelease}
    /\ command.step \in CommandSteps
    /\ \A p \in Processes : (writer = p) <=> startup[p] \in Migrating
    /\ ~apart => ~(Bound(Unit) /\ Bound(Foreground))
    /\ failures \in 0 .. MaxServerFailures /\ commands \in 0 .. MaxServerCommands

UpgradeInit ==
    /\ ledger \in Ledgers
    /\ pending = <<>>
    /\ writer = NoRelease
    /\ startup = [p \in Processes |-> "off"]
    /\ release = [p \in Processes |-> NoRelease]
    /\ installed = NoRelease
    /\ apart \in BOOLEAN
    /\ command = NoCommand
    /\ commands = 0
    /\ failures = 0
    /\ doomed = FALSE

-----------------------------------------------------------------------------
(* One server. *)

Reaches(p, to) == startup' = [startup EXCEPT ![p] = to]

\* The supervisor starts the registered server again unless it ended with the
\* code for a database that it refuses.
Exits(p, how) ==
    /\ Reaches(p, IF p = Foreground THEN "off" ELSE how)
    /\ writer' = IF writer = p THEN NoRelease ELSE writer
    /\ pending' = IF writer = p THEN <<>> ELSE pending

\* validate_prefix.
Compatible(r, applied) == Seqs!IsPrefix(applied, Catalog[r])

around == <<release, installed, apart, command, commands, doomed>>

\* Mutant: a server takes the endpoint from another one.
BindEndpointAnyway(p) ==
    /\ startup[p] = "binding"
    /\ Reaches(p, "checking") /\ UNCHANGED <<writer, pending>>
    /\ UNCHANGED <<around, ledger, failures>>

BindEndpoint(p) ==
    /\ startup[p] = "binding"
    /\ IF ~apart /\ \E other \in Processes \ {p} : Bound(other)
       THEN Exits(p, "restarting")
       ELSE Reaches(p, "checking") /\ UNCHANGED <<writer, pending>>
    /\ UNCHANGED <<around, ledger, failures>>

\* Without writing; a database that is not there has no migrations.
CheckCompatible(p) ==
    /\ startup[p] = "checking"
    /\ IF Compatible(release[p], ledger)
       THEN Reaches(p, "beginning") /\ UNCHANGED <<writer, pending>>
       ELSE Exits(p, "failed")
    /\ UNCHANGED <<around, ledger, failures>>

\* BEGIN IMMEDIATE waits for the other writer, but not for ever.
BeginUpgrade(p) ==
    /\ startup[p] = "beginning"
    /\ \/ /\ writer = NoRelease
          /\ writer' = p /\ pending' = ledger
          /\ Reaches(p, "validating")
       \/ /\ writer # NoRelease
          /\ Exits(p, "restarting")
    /\ UNCHANGED <<around, ledger, failures>>

\* The other writer may have changed what was checked.
ValidateUpgrade(p) ==
    /\ startup[p] = "validating"
    /\ IF Compatible(release[p], pending)
       THEN Reaches(p, "applying") /\ UNCHANGED <<writer, pending>>
       ELSE Exits(p, "restarting")
    /\ UNCHANGED <<around, ledger, failures>>

Apply(p) ==
    /\ startup[p] = "applying"
    /\ IF pending = Catalog[release[p]]
       THEN Reaches(p, "committing") /\ UNCHANGED pending
       ELSE /\ pending' = SubSeq(Catalog[release[p]], 1, Len(pending) + 1)
            /\ UNCHANGED startup
    /\ UNCHANGED <<around, ledger, writer, failures>>

CommitUpgrade(p) ==
    /\ startup[p] = "committing"
    /\ ledger' = pending
    /\ Reaches(p, "verifying")
    /\ writer' = NoRelease /\ pending' = <<>>
    /\ UNCHANGED <<around, failures>>

\* check_database_ready, and the server serves.
VerifyUpgrade(p) ==
    /\ startup[p] = "verifying"
    /\ IF ledger = Catalog[release[p]]
       THEN Reaches(p, "serving") /\ UNCHANGED <<writer, pending>>
       ELSE Exits(p, "restarting")
    /\ UNCHANGED <<around, ledger, failures>>

\* A failure or the end of the process; an open transaction is rolled back.
ServerFails(p) ==
    /\ startup[p] \notin NotRunning
    /\ failures < MaxServerFailures
    /\ failures' = failures + 1
    /\ Exits(p, "restarting")
    /\ UNCHANGED <<around, ledger>>

ServerStep(p) ==
    \/ BindEndpoint(p) \/ CheckCompatible(p) \/ BeginUpgrade(p) \/ ValidateUpgrade(p) \/ Apply(p)
    \/ CommitUpgrade(p) \/ VerifyUpgrade(p) \/ ServerFails(p)

-----------------------------------------------------------------------------
(* The supervisor, and who starts a server by hand. *)

StartUnit ==
    /\ Reaches(Unit, "binding")
    /\ release' = [release EXCEPT ![Unit] = installed]

Supervise ==
    /\ startup[Unit] = "restarting"
    /\ StartUnit
    /\ UNCHANGED <<ledger, pending, writer, installed, apart, command, commands, failures, doomed>>

RunInForeground ==
    /\ release[Foreground] = NoRelease
    /\ \E r \in Releases : release' = [release EXCEPT ![Foreground] = r]
    /\ Reaches(Foreground, "binding")
    /\ UNCHANGED <<ledger, pending, writer, installed, apart, command, commands, failures, doomed>>

-----------------------------------------------------------------------------
(* One command of the client after the other. *)

releases == <<ledger, pending, writer, startup, release, installed, apart, failures>>

CommandAt(step) == command' = [command EXCEPT !.step = step]

Command(kind, r) ==
    /\ command.step \in {"ready", "failed"}
    /\ commands < MaxServerCommands
    /\ commands' = commands + 1
    /\ command' = [kind |-> kind, release |-> r, step |-> "preflight", served |-> FALSE]
    /\ UNCHANGED <<releases, doomed>>

\* The doctor of the executable that is about to run: of the sibling for an
\* installation, of the registered one otherwise, which must be of the release
\* of the client.
Healthy(kind) ==
    /\ kind # "install" => installed = command.release
    /\ Compatible(command.release, ledger)

Preflight ==
    /\ command.step = "preflight"
    /\ command' = [command EXCEPT
          !.step = IF ~Healthy(command.kind) THEN "failed"
                   ELSE IF command.kind = "start" THEN "starting" ELSE "stopping",
          !.served = startup[Unit] = "serving"]
    /\ UNCHANGED <<releases, commands, doomed>>

StopUnit ==
    /\ command.step = "stopping"
    /\ Exits(Unit, "off")
    /\ doomed' = (doomed \/ (command.served /\ startup[Unit] = "serving"
                               /\ ~Compatible(command.release, ledger)))
    /\ CommandAt(IF command.kind = "install" THEN "installing" ELSE "starting")
    /\ UNCHANGED <<ledger, release, installed, apart, commands, failures>>

Register ==
    /\ command.step = "installing"
    /\ installed' = command.release
    /\ CommandAt("starting")
    /\ UNCHANGED <<ledger, pending, writer, startup, release, apart, commands, failures, doomed>>

StartRegistered ==
    /\ command.step = "starting"
    /\ IF startup[Unit] \in NotRunning THEN StartUnit ELSE UNCHANGED <<startup, release>>
    /\ CommandAt("waiting")
    /\ UNCHANGED <<ledger, pending, writer, installed, apart, commands, failures, doomed>>

\* wait_ready: a server that failed, or that waits to be started again, ends the
\* command; one that stopped is examined first.
AskSupervisor ==
    /\ command.step = "waiting"
    /\ CommandAt(IF startup[Unit] \in {"failed", "restarting"}
                \/ (startup[Unit] = "off" /\ ~Healthy("start"))
             THEN "failed" ELSE "asking")
    /\ UNCHANGED <<releases, commands, doomed>>

\* Whoever serves at the endpoint answers.
Answering ==
    {p \in Processes : startup[p] = "serving" /\ (p = Unit \/ ~apart)}

AskHealth ==
    /\ command.step = "asking"
    /\ \/ /\ Answering = {}
          /\ CommandAt("waiting")
       \/ \E p \in Answering :
             CommandAt(IF release[p] = command.release THEN "ready" ELSE "failed")
    /\ UNCHANGED <<releases, commands, doomed>>

\* A deadline, or a subprocess that fails.
CommandFails ==
    /\ command.step \notin {"ready", "failed"}
    /\ CommandAt("failed")
    /\ UNCHANGED <<releases, commands, doomed>>

UpgradeNext ==
    \/ \E p \in Processes : ServerStep(p)
    \/ Supervise \/ RunInForeground
    \/ \E kind \in {"install", "restart", "start"}, r \in Releases : Command(kind, r)
    \/ Preflight \/ StopUnit \/ Register \/ StartRegistered
    \/ AskSupervisor \/ AskHealth \/ CommandFails

UpgradeSpec == UpgradeInit /\ [][UpgradeNext]_upgradeVars

-----------------------------------------------------------------------------
\* The database never holds a part of an upgrade: its migrations are none, or
\* all those of one release (migrations.rs migrate_database).
UpgradesAreWhole == ledger \in Ledgers

\* With one endpoint, the database of a server that serves is the one of its
\* release, and no other server changes it meanwhile: whoever would migrate it
\* must own the endpoint first (lib.rs run_resident).
ServesItsRelease ==
    ~apart => \A p \in Processes : startup[p] = "serving" => ledger = Catalog[release[p]]

\* With one endpoint, a command never stops the registered server that has
\* served since its preflight for a release that cannot serve the database
\* (server.rs run, "Check the sibling server and database without changing
\* registration or stopping the service").
StopsOnlyForASuccessor == ~apart => ~doomed

=============================================================================
