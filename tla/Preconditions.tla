----------------------------- MODULE Preconditions -----------------------------
(***************************************************************************)
(* ValidatePreConditions of src/src/queryanalysis/validation: on which     *)
(* servers the query monitoring starts.                                    *)
(*                                                                         *)
(* A server is a record: whether it is Azure SQL, its major version, or    *)
(* NoVersion when the text of @@VERSION has none, whether that text has    *)
(* the word "azure" in it, its databases, and what the login may do.       *)
(***************************************************************************)
EXTENDS Integers

CONSTANT NoVersion

versionCompatibility == 90
firstSupportedVersion == 14
dmvOnlyFirstSupportedVersion == 13
azureFirstSupportedVersion == 12
MaxSystemDatabaseID == 4

checkSQLServerVersion(server, isDMVOnlyMode) ==
    /\ server.major # NoVersion
    /\ server.major >= IF server.mentionsAzure THEN azureFirstSupportedVersion
                       ELSE IF isDMVOnlyMode THEN dmvOnlyFirstSupportedVersion
                       ELSE firstSupportedVersion

UserDatabases(server) == {database \in server.databases : database.id > MaxSystemDatabaseID}

\* sys.databases is read in no particular order, and an error that ends the
\* rows looks like their end: GetDatabaseDetails may return any part of them.
Listings(server) == SUBSET UserDatabases(server)

\* A bug this code could have had: the last unsupported level is let through.
CompatibleFrom90(details) ==
    \A database \in details : database.level >= versionCompatibility

checkDatabaseCompatibility(details) ==
    \A database \in details : database.level > versionCompatibility

checkPermissions(server) == server.sysadmin \/ server.viewServerState

\* checkSQLServerLoginEnabled never says no, it can only fail.
ValidatePreConditions(server, isDMVOnlyMode, details) ==
    /\ checkSQLServerVersion(server, isDMVOnlyMode)
    /\ checkDatabaseCompatibility(details)
    /\ checkPermissions(server)

-----------------------------------------------------------------------------
(* What is required: of the version by README.md:82-89.  The level no      *)
(* document states; the log only says "Some databases are not compatible". *)

SupportedVersion(server, isDMVOnlyMode) ==
    /\ server.major # NoVersion
    /\ server.major >= IF server.azure THEN 12 ELSE IF isDMVOnlyMode THEN 13 ELSE 14

UserDatabasesCompatible(server) ==
    \A database \in server.databases : database.id > 4 => database.level > 90
=============================================================================
