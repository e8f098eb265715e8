---------------------------- MODULE Installation -----------------------------
(***************************************************************************)
(* The file of the database between releases of the server, exports and    *)
(* imports: what DataTransfer and ServerUpgrade promise of it together.    *)
(***************************************************************************)
EXTENDS DataTransfer, ServerUpgrade

\* The database is always one that some release or some snapshot left behind as
\* a whole: no import mixes two of them, no upgrade leaves a part of itself, a
\* server with its own endpoint serves the schema it was built for, and is
\* never stopped for a release that the database refuses (snapshot.rs,
\* migrations.rs, lib.rs run_resident, server.rs run).
DatabaseStaysWhole ==
    /\ TransferTypeOK /\ UpgradeTypeOK
    /\ ImportsAreWhole /\ UpgradesAreWhole /\ ServesItsRelease /\ StopsOnlyForASuccessor

=============================================================================
