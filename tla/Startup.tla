-------------------------------- MODULE Startup --------------------------------
(***************************************************************************)
(* What happens between a launch and a serving application, under the      *)
(* instance lock: the launcher (src/scripts/workflow_platform.py), the     *)
(* server process (src/scripts/run_server.py), the lifespan of             *)
(* src/app/main.py, the protected migration                                *)
(* (src/scripts/migrate_database.py) and the backup and schema migration   *)
(* they share (src/app/database_maintenance.py).                           *)
(*                                                                         *)
(* A schema step changes tables and then records its version.  On SQLite   *)
(* the former is committed statement by statement, on PostgreSQL both are  *)
(* one transaction.  How a step changes tables is left out: shape is the   *)
(* set of steps whose changes are there.                                   *)
(***************************************************************************)
EXTENDS InstanceLock, Sequences

CONSTANTS
    Schema,         \* SCHEMA_VERSION
    Declared,       \* steps whose result create_all gives a new database
    NewTables,      \* those that create_all gives an old one: it lacks the table
    Structure,      \* those the recovery doctor looks for
    Keep,           \* _BACKUP_KEEP
    MaxFaults       \* bound on kills and on failures from outside

ASSUME StartupAssumption ==
    /\ Schema \in Nat \ {0} /\ Keep \in Nat \ {0} /\ MaxFaults \in Nat
    /\ NewTables \cup Structure \subseteq Declared /\ Declared \subseteq 1..Schema
    /\ None \notin Nat

VARIABLES
    backend,    \* "sqlite" or "postgresql"
    kind,       \* the launcher action of each process: "start" or "migrate"
    step,       \* where each launch is
    db,         \* the database
    found,      \* found[p]: the database as p inspected it
    backups,    \* published pre-migration backups, the oldest first
    copied,     \* copied[p]: p's backup before it is published
    result,     \* what the launcher reports
    faults

vars == <<lockVars, backend, kind, step, db, found, backups, copied, result, faults>>

Version  == 0..Schema + 1
Database == [tables : BOOLEAN, version : Version,
             ledger : Version \cup {None}, shape : SUBSET (1..Schema + 1)]
Fresh    == [tables |-> FALSE, version |-> 0, ledger |-> None, shape |-> {}]

Preparing == {"new", "prepared"}
Working   == {"inspect", "backup", "publish", "prune", "tables", "migrate",
              "mark", "sync", "health", "seed", "serve"}
Ended     == {"done", "failed"}

-----------------------------------------------------------------------------
Old(v, ledger) == [tables |-> TRUE, version |-> v, ledger |-> ledger, shape |-> 1..v]

Init ==
    /\ LockInit
    /\ backend \in {"sqlite", "postgresql"}
    /\ kind \in [Procs -> {"start", "migrate"}]
    /\ step = [p \in Procs |-> "new"]
    /\ db \in {Fresh} \cup {Old(v, v) : v \in Version}
              \cup {Old(v, None) : v \in {w \in Version : backend = "sqlite"}}
    /\ found = [p \in Procs |-> None]
    /\ copied = [p \in Procs |-> None]
    /\ backups = << >>
    /\ result = [p \in Procs |-> "none"]
    /\ faults = 0

Sqlite == backend = "sqlite"
Files  == <<found, backups, copied>>

To(p, l) == step' = [step EXCEPT ![p] = l]

\* p holds the lock and is at l.
Doing(p, l) == At(p, "hold") /\ step[p] = l

Report(p, r) == result' = [result EXCEPT ![p] = r]

-----------------------------------------------------------------------------
(* _execute and _bootstrap before the backend runs.                        *)
Prepare(p) ==
    /\ step[p] = "new"
    /\ To(p, "prepared")
    /\ UNCHANGED <<lockVars, backend, kind, db, Files, result, faults>>

PrepareFails(p) ==
    /\ step[p] = "new"
    /\ faults < MaxFaults /\ faults' = faults + 1
    /\ To(p, "done")
    /\ Report(p, "FAIL")
    /\ UNCHANGED <<lockVars, backend, kind, db, Files>>

(* _confirm_protected: only a migration asks.                              *)
Decline(p) ==
    /\ step[p] = "prepared" /\ kind[p] = "migrate"
    /\ To(p, "done")
    /\ Report(p, "CANCELLED")
    /\ UNCHANGED <<lockVars, backend, kind, db, Files, faults>>

RunBackend(p) ==
    /\ step[p] = "prepared"
    /\ Enter(p)
    /\ To(p, "inspect")
    /\ UNCHANGED <<backend, kind, db, Files, result, faults>>

Acquire(p) ==
    /\ AcquireStep(p)
    /\ UNCHANGED <<backend, kind, step, db, Files, result, faults>>

-----------------------------------------------------------------------------
(* The start of a server refuses a newer SQLite database before it touches *)
(* it, and a PostgreSQL database that is not exactly at Schema.            *)
MayGoOn(p) ==
    kind[p] = "start" =>
        IF Sqlite THEN db.version <= Schema ELSE db.version = Schema

Inspect(p) ==
    /\ Doing(p, "inspect")
    /\ found' = [found EXCEPT ![p] = db]
    /\ To(p, IF ~MayGoOn(p) THEN "failed"
             ELSE IF Sqlite THEN "backup"
             ELSE IF kind[p] = "start" THEN "health" ELSE "tables")
    /\ UNCHANGED <<lockVars, backend, kind, db, backups, copied, result, faults>>

(* backup_before_migration: copy and check, publish, prune.                *)
Backup(p) ==
    /\ Doing(p, "backup")
    /\ IF db.tables /\ found[p].version < Schema
       THEN copied' = [copied EXCEPT ![p] = db] /\ To(p, "publish")
       ELSE UNCHANGED copied /\ To(p, "tables")
    /\ UNCHANGED <<lockVars, backend, kind, db, found, backups, result, faults>>

Publish(p) ==
    /\ Doing(p, "publish")
    /\ backups' = Append(backups, copied[p])
    /\ copied' = [copied EXCEPT ![p] = None]
    /\ To(p, "prune")
    /\ UNCHANGED <<lockVars, backend, kind, db, found, result, faults>>

\* Variant: the list is sorted the wrong way round.
PruneNewest(p) ==
    /\ Doing(p, "prune")
    /\ backups' = IF Len(backups) > Keep THEN SubSeq(backups, 1, Keep) ELSE backups
    /\ To(p, "tables")
    /\ UNCHANGED <<lockVars, backend, kind, db, found, copied, result, faults>>

Prune(p) ==
    /\ Doing(p, "prune")
    /\ backups' = IF Len(backups) > Keep
                  THEN SubSeq(backups, Len(backups) - Keep + 1, Len(backups))
                  ELSE backups
    /\ To(p, "tables")
    /\ UNCHANGED <<lockVars, backend, kind, db, found, copied, result, faults>>

(* Base.metadata.create_all: tables that are missing, complete.  A new     *)
(* database gets all of them in one step here; SQLite commits one by one,  *)
(* and the next launch makes those that a kill has left out.               *)
CreateTables(p) ==
    /\ Doing(p, "tables")
    /\ \E D \in IF db.tables THEN SUBSET NewTables ELSE {Declared} :
         db' = [db EXCEPT !.tables = TRUE, !.shape = @ \cup D]
    /\ To(p, "migrate")
    /\ UNCHANGED <<lockVars, backend, kind, Files, result, faults>>

\* Variant: the marker alone.
RecordedMarkerOnly(v) == [db EXCEPT !.version = v]

(* _record_schema_version, if the driver binds the parameter :version, as  *)
(* sqlite3 does.                                                           *)
Recorded(v) == [db EXCEPT !.version = v, !.ledger = v]

(* apply_schema_migrations: a newer database is refused; the steps look at *)
(* the columns before they add any.                                        *)
RefuseNewer(p) ==
    /\ Doing(p, "migrate")
    /\ db.version > Schema
    /\ To(p, "failed")
    /\ UNCHANGED <<lockVars, backend, kind, db, Files, result, faults>>

\* Variant: columns are added without a look at what is there.
AlterBlindly(p) ==
    /\ Doing(p, "migrate")
    /\ db.version < Schema
    /\ db.version + 1 \notin db.shape
    /\ LET v == db.version + 1 IN
        IF Sqlite
        THEN db' = [db EXCEPT !.shape = @ \cup {v}] /\ To(p, "mark")
        ELSE db' = [Recorded(v) EXCEPT !.shape = @ \cup {v}] /\ UNCHANGED step
    /\ UNCHANGED <<lockVars, backend, kind, Files, result, faults>>

Alter(p) ==
    /\ Doing(p, "migrate")
    /\ db.version < Schema
    /\ LET v == db.version + 1 IN
        IF Sqlite
        THEN db' = [db EXCEPT !.shape = @ \cup {v}] /\ To(p, "mark")
        ELSE db' = [Recorded(v) EXCEPT !.shape = @ \cup {v}] /\ UNCHANGED step
    /\ UNCHANGED <<lockVars, backend, kind, Files, result, faults>>

\* Variant: the version is that of this build after the first step.
RecordTarget(p) ==
    /\ Doing(p, "mark")
    /\ db' = Recorded(Schema)
    /\ To(p, "migrate")
    /\ UNCHANGED <<lockVars, backend, kind, Files, result, faults>>

RecordVersion(p) ==
    /\ Doing(p, "mark")
    /\ db' = Recorded(db.version + 1)
    /\ To(p, "migrate")
    /\ UNCHANGED <<lockVars, backend, kind, Files, result, faults>>

\* The ledger of a database that has none yet.
SyncLedger(p) ==
    /\ Doing(p, "migrate")
    /\ db.version = Schema
    /\ db' = Recorded(Schema)
    /\ To(p, "health")
    /\ UNCHANGED <<lockVars, backend, kind, Files, result, faults>>

\* verify_database_health; the migration is done after it.
CheckHealth(p) ==
    /\ Doing(p, "health")
    /\ To(p, IF db.version # Schema THEN "failed"
             ELSE IF kind[p] = "start" THEN "seed" ELSE "done")
    /\ UNCHANGED <<lockVars, backend, kind, db, Files, result, faults>>

\* Seed data, the forced scan and the start-up batch.
Seed(p) ==
    /\ Doing(p, "seed")
    /\ To(p, "serve")
    /\ UNCHANGED <<lockVars, backend, kind, db, Files, result, faults>>

Stop(p) ==
    /\ Doing(p, "serve")
    /\ To(p, "done")
    /\ UNCHANGED <<lockVars, backend, kind, db, Files, result, faults>>

(* Any other exception between lock and service.                           *)
Fail(p) ==
    /\ At(p, "hold") /\ step[p] \in Working \ {"serve"}
    /\ faults < MaxFaults /\ faults' = faults + 1
    /\ To(p, "failed")
    /\ UNCHANGED <<lockVars, backend, kind, db, Files, result>>

Release(p) ==
    /\ \/ step[p] \in Ended /\ BeginRelease(p)
       \/ Unlink(p)
    /\ UNCHANGED <<backend, kind, step, db, Files, result, faults>>

Kill(p) ==
    /\ faults < MaxFaults /\ faults' = faults + 1
    /\ Die(p)
    /\ UNCHANGED <<backend, kind, step, db, Files, result>>

-----------------------------------------------------------------------------
(* uvicorn (a library) ends with 3 when the lifespan fails and with 1 when *)
(* the port cannot be bound; a migration that raises ends with 1.          *)
ExitCodes(p) ==
    IF pc[p] = "refused" THEN {3}
    ELSE IF pc[p] = "dead" THEN {-9}
    ELSE IF step[p] = "done" THEN {0}
    ELSE IF kind[p] = "start" THEN {1, 3} ELSE {1}

(* _execute after the backend has ended.                                   *)
Finish(p) ==
    /\ pc[p] \in {"refused", "left", "dead"} /\ result[p] = "none"
    /\ \E code \in ExitCodes(p) :
         Report(p, IF code = 0 \/ (kind[p] = "start" /\ code = 3) THEN "PASS" ELSE "FAIL")
    /\ UNCHANGED <<lockVars, backend, kind, step, db, Files, faults>>

(* What the recovery doctor reads of a backup it has just made of the      *)
(* database, and what it says (_schema_compatibility).                     *)
HasStructure == db.tables /\ Structure \subseteq db.shape

Observed == {db.version, db.ledger} \ {None}

SchemaVerdict ==
    IF \E v \in Observed : v > Schema THEN "future_schema"
    ELSE IF db.version = Schema /\ db.ledger \in {None, Schema} THEN "current"
    ELSE IF db.ledger = Schema /\ db.version = 0 THEN "marker_drift"
    ELSE IF HasStructure /\ db.version = 0 /\ db.ledger = None THEN "marker_unsynchronized"
    ELSE IF \A v \in Observed : v < Schema THEN "migration_required"
    ELSE "marker_mismatch"

Proceed(p) ==
    \/ Prepare(p) \/ RunBackend(p) \/ Acquire(p)
    \/ Inspect(p) \/ Backup(p) \/ Publish(p) \/ Prune(p)
    \/ CreateTables(p) \/ RefuseNewer(p) \/ Alter(p) \/ RecordVersion(p) \/ SyncLedger(p)
    \/ CheckHealth(p) \/ Seed(p)
    \/ Release(p) \/ Finish(p)

LaunchStep(p) ==
    Proceed(p) \/ PrepareFails(p) \/ Decline(p) \/ Stop(p) \/ Fail(p) \/ Kill(p)

\* The operating system: no step of a launch.
Reuse(p) ==
    /\ NumberChangesHands(p)
    /\ UNCHANGED <<backend, kind, step, db, Files, result, faults>>

Next == \E p \in Procs : LaunchStep(p) \/ Reuse(p)

(* Processes run until they serve or end; only people stop a server.       *)
Spec == Init /\ [][Next]_vars /\ \A p \in Procs : WF_vars(Proceed(p))

-----------------------------------------------------------------------------
TypeOK ==
    /\ LockTypeOK
    /\ backend \in {"sqlite", "postgresql"}
    /\ kind \in [Procs -> {"start", "migrate"}]
    /\ step \in [Procs -> Preparing \cup Working \cup Ended]
    /\ db \in Database
    /\ found \in [Procs -> Database \cup {None}]
    /\ copied \in [Procs -> Database \cup {None}]
    /\ backups \in Seq(Database) /\ Len(backups) <= Keep + 1 + faults
    /\ result \in [Procs -> {"none", "PASS", "FAIL", "CANCELLED"}]
    /\ faults \in 0..MaxFaults

(* A server that serves has the schema of this build in full, whatever     *)
(* was killed half way through earlier migrations, and only one does.      *)
ServedIsCurrent ==
    \A p \in Procs : Doing(p, "serve") =>
        /\ db.version = Schema /\ db.shape = 1..Schema
        /\ \A q \in Procs \ {p} : ~At(q, "hold")

(* "Before every supported SQLite schema migration, the application        *)
(* creates a consistent checked database backup"                           *)
(* (docs/RECOVERY_AND_TRANSFER.md:7): from the first change to an existing *)
(* database on, the state it had before is among the backups that are kept.*)
EveryChangeHasBackup ==
    \A p \in Procs :
        At(p, "hold") /\ step[p] \in Working /\ Sqlite
            /\ found[p] # None /\ found[p].tables /\ db.shape # found[p].shape
        => \E i \in DOMAIN backups : backups[i] = found[p]

(* The doctor's verdict and what a launch makes of the database agree,     *)
(* wherever earlier launches were killed: a future schema is exactly one   *)
(* that is refused, a current one is complete, "Current schema structures  *)
(* are present" (backup_restore.py:158) is true, and the two markers never *)
(* contradict each other.                                                  *)
DoctorAgrees ==
    Sqlite /\ db.tables =>
        /\ SchemaVerdict = "future_schema" <=> db.version > Schema
        /\ SchemaVerdict = "current" => db.shape = 1..Schema
        /\ SchemaVerdict = "marker_unsynchronized" => Declared \subseteq db.shape
        /\ SchemaVerdict \notin {"marker_drift", "marker_mismatch"}

(* Every launch ends or serves: the remains of killed processes and of     *)
(* half-finished migrations are no obstacle.                               *)
EveryLaunchEnds ==
    \A p \in Procs :
        At(p, "create") ~> pc[p] \in {"refused", "dead", "left"} \/ step[p] = "serve"

(* "never misreport those as success" (run_server.py:178, of the exit      *)
(* codes of a failed start): a start that the launcher reports as PASS has *)
(* served, or has met an instance that was running.                        *)
FailedStartIsReported ==
    \A p \in Procs : kind[p] = "start" /\ step[p] = "failed" => result[p] # "PASS"
=============================================================================
