-------------------------------- MODULE Schema --------------------------------
(***************************************************************************)
(* How the tables of SM-ERP come to be: every replica runs create_all when *)
(* it starts (app/main.py, app/core/database.py), and an operator may run  *)
(* the two Alembic migrations (alembic/versions).                          *)
(*                                                                         *)
(* create_all looks every table up, which the model does at one instant,   *)
(* then creates what it found missing, in one transaction and without      *)
(* looking again.  PostgreSQL makes the second creator of a table wait and *)
(* fail, so a replica that loses such a race does not start, and is        *)
(* started again.  A migration creates its tables unconditionally, in one  *)
(* transaction with the version it records.                                *)
(***************************************************************************)
EXTENDS Integers, FiniteSets

CONSTANTS
    Replicas,         \* replicas of the service
    InitialTables,    \* the tables of revision 0001
    BusinessTables,   \* the tables of revision 0002
    Rows,             \* rows the application may insert
    MaxCrashes        \* bound on the times a replica stops

ASSUME SchemaAssumption ==
    /\ InitialTables \cap BusinessTables = {}
    /\ MaxCrashes \in Nat

Tables == InitialTables \cup BusinessTables

VARIABLES
    tables,      \* the tables there are
    data,        \* the rows of each table
    version,     \* the revision alembic_version names, 0 without that table
    replica,     \* what each replica does
    missing,     \* tables a starting replica has found missing
    crashes,     \* times a replica has stopped
    rolledBack   \* history: whether a migration was undone

database == <<tables, data, version>>
startup  == <<replica, missing>>
schema   == <<database, startup, crashes, rolledBack>>

SchemaInit ==
    /\ tables = {}
    /\ data = [t \in Tables |-> {}]
    /\ version = 0
    /\ replica = [r \in Replicas |-> "down"]
    /\ missing = [r \in Replicas |-> {}]
    /\ crashes = 0
    /\ rolledBack = FALSE

-----------------------------------------------------------------------------
(* lifespan calls init_db, and create_all looks every table up.            *)
Start(r) ==
    /\ replica[r] = "down"
    /\ replica' = [replica EXCEPT ![r] = "creating"]
    /\ missing' = [missing EXCEPT ![r] = Tables \ tables]
    /\ UNCHANGED <<database, crashes, rolledBack>>

(* The connection of init_db is closed, with what was looked up.           *)
Close(r) == missing' = [missing EXCEPT ![r] = {}]

(* Mutant of CreateAll: a start that once lost the race keeps repeating    *)
(* its statements.                                                         *)
CreateAllStubborn(r) ==
    /\ replica[r] = "creating"
    /\ missing[r] \cap tables = {}
    /\ tables' = tables \cup missing[r]
    /\ replica' = [replica EXCEPT ![r] = "up"]
    /\ Close(r)
    /\ UNCHANGED <<data, version, crashes, rolledBack>>

(* create_all creates and commits what it found missing, or finds a table  *)
(* that has come up since, and then the replica fails to start.            *)
CreateAll(r) ==
    /\ replica[r] = "creating"
    /\ \/ /\ missing[r] \cap tables = {}
          /\ tables' = tables \cup missing[r]
          /\ replica' = [replica EXCEPT ![r] = "up"]
       \/ /\ missing[r] \cap tables # {}
          /\ tables' = tables
          /\ replica' = [replica EXCEPT ![r] = "down"]
    /\ Close(r)
    /\ UNCHANGED <<data, version, crashes, rolledBack>>

(* A replica stops, whatever it is doing; an open transaction rolls back.  *)
Crash(r) ==
    /\ replica[r] # "down"
    /\ crashes < MaxCrashes
    /\ crashes' = crashes + 1
    /\ replica' = [replica EXCEPT ![r] = "down"]
    /\ Close(r)
    /\ UNCHANGED <<database, rolledBack>>

(* A handler of a serving replica inserts a row.                           *)
Insert(r) ==
    /\ replica[r] = "up"
    /\ \E t \in tables, x \in Rows :
          /\ \A u \in Tables : x \notin data[u]
          /\ data' = [data EXCEPT ![t] = @ \cup {x}]
    /\ UNCHANGED <<tables, version, startup, crashes, rolledBack>>

-----------------------------------------------------------------------------
(* The tables revision n creates.                                          *)
Revision(n) == IF n = 1 THEN InitialTables ELSE BusinessTables

Pending(n) == UNION {Revision(k) : k \in (version + 1)..n}

(* Mutant of Upgrade: head is stamped though only one revision was run.    *)
UpgradeOne(n) ==
    /\ n \in (version + 1)..2
    /\ Revision(version + 1) \cap tables = {}
    /\ tables' = tables \cup Revision(version + 1)
    /\ version' = n
    /\ UNCHANGED <<data, startup, crashes, rolledBack>>

(* alembic upgrade to revision n.  Where a table exists already it fails   *)
(* and leaves everything as it was.                                        *)
Upgrade(n) ==
    /\ n \in (version + 1)..2
    /\ Pending(n) \cap tables = {}
    /\ tables' = tables \cup Pending(n)
    /\ version' = n
    /\ UNCHANGED <<data, startup, crashes, rolledBack>>

(* Mutant of Downgrade: the version is lowered even below the first.       *)
DowngradeBelow ==
    /\ ~rolledBack
    /\ tables' = tables \ Revision(version)
    /\ data' = [t \in Tables |-> IF t \in Revision(version) THEN {} ELSE data[t]]
    /\ version' = version - 1
    /\ rolledBack' = TRUE
    /\ UNCHANGED <<startup, crashes>>

(* alembic downgrade by one revision, which takes the rows along.  It is   *)
(* done once at most: a bound.                                             *)
Downgrade ==
    /\ ~rolledBack
    /\ version > 0
    /\ Revision(version) \subseteq tables
    /\ tables' = tables \ Revision(version)
    /\ data' = [t \in Tables |-> IF t \in Revision(version) THEN {} ELSE data[t]]
    /\ version' = version - 1
    /\ rolledBack' = TRUE
    /\ UNCHANGED <<startup, crashes>>

Serve(r) == Start(r) \/ CreateAll(r)

Replica(r) == Serve(r) \/ Crash(r) \/ Insert(r)

Migrate == Downgrade \/ \E n \in 1..2 : Upgrade(n)

-----------------------------------------------------------------------------
SchemaTyped ==
    /\ tables \subseteq Tables
    /\ data \in [Tables -> SUBSET Rows]
    /\ \A t \in Tables \ tables : data[t] = {}
    /\ version \in 0..2
    /\ replica \in [Replicas -> {"down", "creating", "up"}]
    /\ missing \in [Replicas -> SUBSET Tables]
    /\ crashes \in 0..MaxCrashes
    /\ rolledBack \in BOOLEAN

(* Every replica comes to serve, though it may lose the race for a table,  *)
(* find one it was about to create, or be stopped again.                   *)
ReplicasStart == \A r \in Replicas : replica[r] # "up" ~> replica[r] = "up"
=============================================================================
