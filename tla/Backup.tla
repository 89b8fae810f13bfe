-------------------------------- MODULE Backup --------------------------------
(***************************************************************************)
(* Backups of SM-ERP's database (scripts/backup.sh) and restores from them *)
(* (scripts/restore.sh), while replicas start, serve and stop.             *)
(*                                                                         *)
(* A backup pipes pg_dump, which reads one snapshot, into a file; a run    *)
(* that fails removes its file, one that is killed leaves it truncated.    *)
(* A restore feeds a file to psql, which commits statement by statement:   *)
(* it drops the tables of the dump, creates them, copies their rows and    *)
(* adds their constraints, and stops at the first error.                   *)
(*                                                                         *)
(* Backups are begun one at a time, and so are restores.  What backup.sh   *)
(* does after the dump (a copy of .env, the deletion of files older than   *)
(* RETENTION_DAYS) is left out.                                            *)
(***************************************************************************)
EXTENDS Schema

CONSTANTS
    MaxBackups,   \* bound on the backups begun
    MaxRestores   \* bound on the restores begun

ASSUME BackupAssumption == MaxBackups \in Nat /\ MaxRestores \in Nat

(* What pg_dump reads: the tables, their rows and alembic's version; and   *)
(* whether it read them in the middle or in the wake of a restore.         *)
Dump == [tables : SUBSET Tables, data : [Tables -> SUBSET Rows], version : 0..2,
         torn : BOOLEAN]

File == [number : 1..MaxBackups, whole : BOOLEAN, dump : Dump]

NoFile == [number |-> 0]

VARIABLES
    files,       \* the *.sql.gz files of the backup directory
    backup,      \* what backup.sh does
    backups,     \* backups begun
    restore,     \* the statements restore.sh is at
    source,      \* the file it restores from
    todo,        \* tables those statements have yet to deal with
    outcome,     \* what the last restore reported
    restores,    \* restores begun
    inserted,    \* history: rows inserted since the restore began
    torn         \* history: what a failed restore left behind is still there

shelf   == <<files, backup, backups>>
given   == <<source, outcome, restores, inserted, torn>>
restoring == <<restore, todo, given>>
vars    == <<schema, shelf, restoring>>

Init ==
    /\ SchemaInit
    /\ files = {}
    /\ backup = "idle"
    /\ backups = 0
    /\ restore = "idle"
    /\ source = NoFile
    /\ todo = {}
    /\ outcome = "none"
    /\ restores = 0
    /\ inserted = {}
    /\ torn = FALSE

-----------------------------------------------------------------------------
(* The file the running backup writes.                                     *)
Current == CHOOSE f \in files : f.number = backups

(* backup.sh starts: pg_dump takes its snapshot, gzip opens the file.      *)
BackupStart ==
    /\ backup = "idle"
    /\ backups < MaxBackups
    /\ backups' = backups + 1
    /\ files' = files \cup
          {[number |-> backups + 1, whole |-> FALSE,
            dump |-> [tables |-> tables, data |-> data, version |-> version,
                      torn |-> torn \/ restore # "idle"]]}
    /\ backup' = "dumping"
    /\ UNCHANGED <<schema, restoring>>

BackupDone ==
    /\ backup = "dumping"
    /\ files' = (files \ {Current}) \cup
          {[Current EXCEPT !.whole = TRUE]}
    /\ backup' = "idle"
    /\ UNCHANGED <<schema, restoring, backups>>

(* pg_dump or gzip fails: the file goes, and the script exits.             *)
BackupFail ==
    /\ backup = "dumping"
    /\ files' = files \ {Current}
    /\ backup' = "idle"
    /\ UNCHANGED <<schema, restoring, backups>>

(* The script is killed; what it was dumping stays behind, truncated.      *)
BackupKilled ==
    /\ backup = "dumping"
    /\ backup' = "idle"
    /\ UNCHANGED <<schema, restoring, files, backups>>

-----------------------------------------------------------------------------
(* restore.sh starts on a file of the operator's choice.                   *)
RestoreStart ==
    /\ restore = "idle"
    /\ restores < MaxRestores
    /\ restores' = restores + 1
    /\ \E f \in files :
          /\ source' = f
          /\ todo' = f.dump.tables
    /\ restore' = "drop"
    /\ outcome' = "none"
    /\ UNCHANGED <<schema, shelf, inserted, torn>>

(* psql ends, with what restore.sh reports.  A failure leaves the schema   *)
(* torn, and so does a dump of a torn one, until every table is restored.  *)
RestoreEnds(result) ==
    /\ restore' = "idle"
    /\ source' = NoFile
    /\ todo' = {}
    /\ outcome' = result
    /\ inserted' = {}
    /\ restores' = restores
    /\ torn' = (result = "failed" \/ (source.dump.tables # Tables
                                        /\ (torn \/ source.dump.torn)))

(* psql goes on to the next kind of statement.                             *)
RestoreTurns(next) ==
    /\ todo = {}
    /\ restore' = next
    /\ todo' = source.dump.tables
    /\ UNCHANGED given

Stamped == source.dump.version > 0

(* DROP TABLE IF EXISTS, table by table; alembic_version is one of them.   *)
RestoreDrop ==
    /\ restore = "drop"
    /\ \/ \E t \in todo :
             /\ tables' = tables \ {t}
             /\ data' = [data EXCEPT ![t] = {}]
             /\ todo' = todo \ {t}
             /\ UNCHANGED <<version, restore, given>>
       \/ /\ RestoreTurns("create")
          /\ version' = IF Stamped THEN 0 ELSE version
          /\ UNCHANGED <<tables, data>>
    /\ UNCHANGED <<shelf, startup, crashes, rolledBack>>

(* CREATE TABLE fails where somebody has created the table meanwhile.      *)
RestoreCreate ==
    /\ restore = "create"
    /\ \/ \E t \in todo \ tables :
             /\ tables' = tables \cup {t}
             /\ todo' = todo \ {t}
             /\ UNCHANGED <<restore, given>>
       \/ /\ todo \cap tables # {}
          /\ RestoreEnds("failed")
          /\ tables' = tables
       \/ /\ RestoreTurns("copy")
          /\ tables' = tables
    /\ UNCHANGED <<shelf, data, version, startup, crashes, rolledBack>>

(* COPY adds the dump's rows to those the table has by now.                *)
RestoreCopy ==
    /\ restore = "copy"
    /\ \/ \E t \in todo :
             /\ data' = [data EXCEPT ![t] = @ \cup source.dump.data[t]]
             /\ todo' = todo \ {t}
             /\ UNCHANGED <<version, restore, given>>
       \/ /\ RestoreTurns("constrain")
          /\ version' = IF Stamped THEN source.dump.version ELSE version
          /\ data' = data
    /\ UNCHANGED <<shelf, tables, startup, crashes, rolledBack>>

(* The constraints and indexes, which rows inserted meanwhile may break.   *)
RestoreFinish ==
    /\ restore = "constrain"
    /\ \/ source.whole /\ RestoreEnds("ok")
       \/ inserted # {} /\ RestoreEnds("failed")
    /\ UNCHANGED <<schema, shelf>>

(* Mutant of RestoreTruncated: the script without its pipefail.            *)
RestoreTruncatedUnpiped ==
    /\ restore # "idle"
    /\ ~source.whole
    /\ RestoreEnds("ok")
    /\ UNCHANGED <<schema, shelf>>

(* A truncated file ends between any two statements.  psql is content with *)
(* that; gunzip is not, and with pipefail the restore has failed.          *)
RestoreTruncated ==
    /\ restore # "idle"
    /\ ~source.whole
    /\ RestoreEnds("failed")
    /\ UNCHANGED <<schema, shelf>>

(* The connection breaks, or the operator interrupts.                      *)
RestoreBreak ==
    /\ restore # "idle"
    /\ RestoreEnds("failed")
    /\ UNCHANGED <<schema, shelf>>

-----------------------------------------------------------------------------
BackupNext == BackupStart \/ BackupDone \/ BackupFail \/ BackupKilled

RestoreNext ==
    \/ RestoreStart \/ RestoreDrop \/ RestoreCreate \/ RestoreCopy
    \/ RestoreFinish \/ RestoreTruncated \/ RestoreBreak

(* The replicas; what they insert during a restore is remembered.  The     *)
(* operator, who restores, does not migrate at the same time.              *)
ServiceNext(r) ==
    /\ Replica(r)
    /\ inserted' = IF restore = "idle" THEN {}
                   ELSE inserted \cup UNION {data'[t] \ data[t] : t \in Tables}
    /\ UNCHANGED <<shelf, restore, source, todo, outcome, restores, torn>>

MigrateNext == restore = "idle" /\ Migrate /\ UNCHANGED <<shelf, restoring>>

Next ==
    \/ \E r \in Replicas : ServiceNext(r)
    \/ MigrateNext \/ BackupNext \/ RestoreNext

Spec == Init /\ [][Next]_vars

(* The cluster restarts what has stopped, and the database answers.        *)
FairSpec == Spec /\ \A r \in Replicas : WF_vars(ServiceNext(r) /\ Serve(r))

-----------------------------------------------------------------------------
(* Properties *)

(* Tables, files and the two scripts have their types.                     *)
TypeOK ==
    /\ SchemaTyped
    /\ \A f \in files : f \in File
    /\ backup \in {"idle", "dumping"}
    /\ backups \in 0..MaxBackups
    /\ restore \in {"idle", "drop", "create", "copy", "constrain"}
    /\ source = NoFile \/ source \in File
    /\ todo \subseteq Tables
    /\ outcome \in {"none", "ok", "failed"}
    /\ restores \in 0..MaxRestores
    /\ inserted \subseteq Rows
    /\ torn \in BOOLEAN

(* No restore is under way, nor is there anything left of a failed one.    *)
Settled == restore = "idle" /\ ~torn

(* Unless a restore is under way, or one failed and none has brought every *)
(* table back since, there are all the tables that the version of Alembic  *)
(* stands for, and a replica that serves has all the tables it needs,      *)
(* whatever versions were restored over each other; only an undone         *)
(* migration takes them from beneath it.                                   *)
SchemaComplete ==
    Settled =>
        /\ \A n \in 1..version : Revision(n) \subseteq tables
        /\ ~rolledBack /\ (\E r \in Replicas : replica[r] = "up")
              => tables = Tables

(* A restore that reports OK has brought every row of the dump back, and   *)
(* leaves no other row in the dump's tables but those inserted while it    *)
(* ran.                                                                    *)
RestoreBringsBack ==
    [][restore # "idle" /\ restore' = "idle" /\ outcome' = "ok" =>
          \A t \in source.dump.tables :
              /\ t \in tables
              /\ source.dump.data[t] \subseteq data[t]
              /\ data[t] \subseteq source.dump.data[t] \cup inserted]_vars
=============================================================================
