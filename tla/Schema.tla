---- MODULE Schema ----
(***************************************************************************)
(* The schema of the local database.  Every command first brings it up to  *)
(* date: it reads the version once and then runs the scripts after it, one *)
(* transaction each, which set the version they bring.  Two commands may   *)
(* start at once.                                                          *)
(***************************************************************************)
EXTENDS Naturals

CONSTANTS
    Procs,         \* processes that open the database
    FirstVersion,  \* the version the file has
    LatestVersion, \* LATEST_SCHEMA_VERSION
    Rebuilds       \* scripts that rebuild a table and so find nothing in their way

ASSUME SchemaSorts ==
    /\ FirstVersion \in Nat /\ LatestVersion \in Nat /\ FirstVersion <= LatestVersion
    /\ Rebuilds \subseteq 1 .. LatestVersion

VARIABLES
    version,   \* PRAGMA user_version
    applied,   \* scripts whose tables are there
    target     \* the next script of a process, 0 for a process not in migrate

schemaVars == <<version, applied, target>>

SchemaInit ==
    /\ version = FirstVersion /\ applied = 1 .. FirstVersion
    /\ target = [p \in Procs |-> 0]

\* Mutant: the scripts start one too late.
MigrateReadLate(p) ==
    /\ target[p] = 0 /\ version + 1 < LatestVersion
    /\ target' = [target EXCEPT ![p] = version + 2]
    /\ UNCHANGED <<version, applied>>

MigrateRead(p) ==
    /\ target[p] = 0 /\ version < LatestVersion
    /\ target' = [target EXCEPT ![p] = version + 1]
    /\ UNCHANGED <<version, applied>>

\* CREATE TABLE fails on a table that is there; 0011 makes a new one and puts it in place.
Runs(n) == n \notin applied \/ n \in Rebuilds

MigrateScript(p) ==
    /\ target[p] # 0 /\ Runs(target[p])
    /\ version' = target[p] /\ applied' = applied \cup {target[p]}
    /\ target' = [target EXCEPT ![p] = IF @ = LatestVersion THEN 0 ELSE @ + 1]

\* The script is rolled back and the command ends in an error.
MigrateFail(p) ==
    /\ target[p] # 0 /\ ~Runs(target[p])
    /\ target' = [target EXCEPT ![p] = 0]
    /\ UNCHANGED <<version, applied>>

MigrateDies(p) ==
    /\ target[p] # 0
    /\ target' = [target EXCEPT ![p] = 0]
    /\ UNCHANGED <<version, applied>>

SchemaNext == \E p \in Procs : MigrateRead(p) \/ MigrateScript(p) \/ MigrateFail(p) \/ MigrateDies(p)
SchemaSpec == SchemaInit /\ [][SchemaNext]_schemaVars

----
\* However commands interleave or die, no script is passed over: the tables there are those of the
\* scripts up to some version, and the version is one of them (migrate).
ScriptsInOrder == version \in applied \cup {0} /\ \A n \in applied : 1 .. n \subseteq applied
====
