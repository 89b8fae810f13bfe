----------------------------- MODULE BackupProofs -----------------------------
(***************************************************************************)
(* Proofs about Backup and the Schema beneath it, for every set of         *)
(* replicas, tables and rows and any number of dumps and restores: the     *)
(* tables and Alembic's version agree, and a restore that reports success  *)
(* has brought the dump back.                                              *)
(*                                                                         *)
(* The invariant follows a restore through its statements.  While it runs, *)
(* its dump's tables are on their way back, and count as there; what an    *)
(* emptied table holds was inserted since.                                 *)
(***************************************************************************)
EXTENDS Backup, TLAPS

(* The tables of the dump that is being restored.                          *)
Restored == IF restore = "idle" THEN {} ELSE source.dump.tables

(* A table has the rows of the dump back, and none but those inserted.     *)
Back(t) ==
    /\ source.dump.data[t] \subseteq data[t]
    /\ data[t] \subseteq source.dump.data[t] \cup inserted

(* How far a restore has come. *)
Progress ==
    restore # "idle" =>
        /\ source \in File
        /\ todo \subseteq Restored
        /\ restore = "drop" =>
              \A t \in Restored \ todo : data[t] \subseteq inserted
        /\ restore = "create" =>
              /\ \A t \in Restored : data[t] \subseteq inserted
              /\ Restored \ todo \subseteq tables
        /\ restore \in {"copy", "constrain"} => Restored \subseteq tables
        /\ restore = "copy" =>
              /\ \A t \in todo : data[t] \subseteq inserted
              /\ \A t \in Restored \ todo : Back(t)
        /\ restore = "constrain" => \A t \in Restored : Back(t)

(* A dump not taken in the middle or in the wake of a restore is complete. *)
Sound(dump) ==
    ~dump.torn => \A n \in 1..dump.version : Revision(n) \subseteq dump.tables

DumpsSound ==
    /\ \A f \in files : Sound(f.dump)
    /\ restore # "idle" => Sound(source.dump)

(* Alembic's version stands for tables that are there or on their way.     *)
VersionTrue ==
    ~torn /\ (restore # "idle" => ~source.dump.torn) =>
        \A n \in 1..version : Revision(n) \subseteq tables \cup Restored

(* And a replica that starts or serves has or will create the others.      *)
ReplicasProvide ==
    /\ \A r \in Replicas : replica[r] = "up" => missing[r] = {}
    /\ ~rolledBack /\ ~torn =>
          \A r \in Replicas : replica[r] # "down" =>
              Tables \subseteq tables \cup missing[r] \cup Restored

(* The file that a running backup writes is there.                         *)
Dumping == backup = "dumping" => \E f \in files : f.number = backups

IInv == TypeOK /\ Dumping /\ Progress /\ DumpsSound /\ VersionTrue /\ ReplicasProvide

LEMMA InitInv == Init => IInv
<1> SUFFICES ASSUME Init PROVE IInv
  OBVIOUS
<1>1. TypeOK
  <2>1. rolledBack \in BOOLEAN /\ torn \in BOOLEAN
    BY Zenon DEF Init, SchemaInit
  <2>2. SchemaTyped
    BY <2>1, SchemaAssumption DEF Init, SchemaInit, SchemaTyped
  <2> QED
    BY <2>1, <2>2, BackupAssumption DEF Init, TypeOK
<1>2. /\ restore = "idle" /\ files = {} /\ version = 0 /\ backup = "idle"
      /\ replica = [r \in Replicas |-> "down"]
  BY DEF Init, SchemaInit
<1>3. Dumping /\ Progress /\ DumpsSound /\ ReplicasProvide
  BY <1>2 DEF Dumping, Progress, DumpsSound, ReplicasProvide
<1>4. VersionTrue
  <2>1. 1..version = {}
    BY <1>2
  <2> QED
    BY <2>1 DEF VersionTrue
<1> QED
  BY <1>1, <1>3, <1>4 DEF IInv

(* What the replicas do, none of which takes a table away.                 *)
LEMMA ServiceKeeps ==
  ASSUME IInv, NEW r \in Replicas, ServiceNext(r)
  PROVE  IInv'
<1>1. /\ TypeOK /\ Dumping /\ Progress /\ DumpsSound /\ VersionTrue
      /\ ReplicasProvide
  BY DEF IInv
<1>2. /\ UNCHANGED <<files, backup, backups>>
      /\ UNCHANGED <<restore, source, todo, outcome, restores, torn>>
      /\ Restored' = Restored
  BY DEF ServiceNext, shelf, Restored
<1>3. /\ version' = version /\ rolledBack' = rolledBack
      /\ tables \subseteq tables'
  BY DEF ServiceNext, Replica, Serve, Start, CreateAll, Crash, Insert,
         database, startup
<1>4. SchemaTyped'
  <2>1. SchemaTyped
    BY <1>1 DEF TypeOK
  <2>2. CASE Start(r)
    BY <2>1, <2>2 DEF Start, database, SchemaTyped
  <2>3. CASE CreateAll(r)
    BY <2>1, <2>3 DEF CreateAll, Close, SchemaTyped
  <2>4. CASE Crash(r)
    BY <2>1, <2>4, SchemaAssumption DEF Crash, Close, database, SchemaTyped
  <2>5. CASE Insert(r)
    BY <2>1, <2>5 DEF Insert, startup, SchemaTyped
  <2> QED
    BY <2>2, <2>3, <2>4, <2>5 DEF ServiceNext, Replica, Serve
<1>5. \A t \in Tables : data[t] \subseteq data'[t]
  BY <1>1 DEF TypeOK, SchemaTyped, ServiceNext, Replica, Serve, Start,
              CreateAll, Crash, Insert, database
<1>6. /\ inserted' \subseteq Rows
      /\ restore # "idle" =>
            /\ inserted \subseteq inserted'
            /\ \A t \in Tables : data'[t] \subseteq data[t] \cup inserted'
  <2>1. inserted' = IF restore = "idle" THEN {}
                    ELSE inserted \cup UNION {data'[t] \ data[t] : t \in Tables}
    BY DEF ServiceNext
  <2>2. /\ inserted \subseteq Rows
        /\ \A t \in Tables : data'[t] \subseteq Rows
    BY <1>1, <1>4 DEF TypeOK, SchemaTyped
  <2> QED
    BY <2>1, <2>2
<1>7. TypeOK'
  BY <1>1, <1>2, <1>4, <1>6 DEF TypeOK
<1>8. Dumping' /\ DumpsSound' /\ VersionTrue'
  BY <1>1, <1>2, <1>3 DEF Dumping, DumpsSound, VersionTrue
<1>9. Progress'
  <2> SUFFICES ASSUME restore # "idle"
               PROVE  Progress'
    BY <1>2 DEF Progress
  <2>1. source \in File /\ todo \subseteq Restored /\ Restored \subseteq Tables
    BY <1>1 DEF Progress, Restored, File, Dump
  <2>2. ASSUME NEW t \in Tables, Back(t)
        PROVE  Back(t)'
    BY <1>2, <1>5, <1>6, <2>2 DEF Back
  <2>3. \A t \in Tables : data[t] \subseteq inserted => data'[t] \subseteq inserted'
    BY <1>6
  <2> QED
    BY <1>1, <1>2, <1>3, <2>1, <2>2, <2>3 DEF Progress
<1>10. ReplicasProvide'
  <2>1. \A q \in Replicas : replica'[q] = "up" => missing'[q] = {}
    BY <1>1 DEF ReplicasProvide, TypeOK, SchemaTyped, ServiceNext, Replica, Serve,
                Start, CreateAll, Crash, Insert, startup, Close
  <2>2. ASSUME ~rolledBack, ~torn, NEW q \in Replicas, replica'[q] # "down"
        PROVE  Tables \subseteq tables' \cup missing'[q] \cup Restored
    <3>1. CASE q # r
      <4>1. replica'[q] = replica[q] /\ missing'[q] = missing[q]
        BY <1>1, <3>1 DEF TypeOK, SchemaTyped, ServiceNext, Replica, Serve,
                Start, CreateAll, Crash, Insert, startup, Close
      <4> QED
        BY <1>1, <1>3, <2>2, <4>1 DEF ReplicasProvide
    <3>2. CASE q = r
      <4>1. CASE Start(r)
        BY <1>1, <3>2, <4>1 DEF Start, TypeOK, SchemaTyped, database
      <4>2. CASE CreateAll(r)
        <5>1. tables' = tables \cup missing[r] /\ replica[r] # "down"
          BY <1>1, <2>2, <3>2, <4>2 DEF CreateAll, TypeOK, SchemaTyped
        <5> QED
          BY <1>1, <2>2, <3>2, <5>1 DEF ReplicasProvide
      <4>3. CASE Crash(r)
        BY <1>1, <2>2, <3>2, <4>3 DEF Crash, TypeOK, SchemaTyped
      <4>4. CASE Insert(r)
        BY <1>1, <2>2, <3>2, <4>4 DEF Insert, startup, ReplicasProvide
      <4> QED
        BY <4>1, <4>2, <4>3, <4>4 DEF ServiceNext, Replica, Serve
    <3> QED
      BY <3>1, <3>2
  <2> QED
    BY <1>2, <1>3, <2>1, <2>2 DEF ReplicasProvide
<1> QED
  BY <1>7, <1>8, <1>9, <1>10 DEF IInv

(* A migration, which records the revisions whose tables it creates and,   *)
(* undone, takes those of the last one only.                               *)
LEMMA MigrateKeeps ==
  ASSUME IInv, MigrateNext
  PROVE  IInv'
<1>1. /\ TypeOK /\ Dumping /\ Progress /\ DumpsSound /\ VersionTrue
      /\ ReplicasProvide
  BY DEF IInv
<1>2. /\ UNCHANGED <<files, backup, backups>>
      /\ UNCHANGED <<restore, source, todo, outcome, restores, inserted, torn>>
      /\ UNCHANGED <<replica, missing, crashes>>
      /\ restore = "idle" /\ Restored = {} /\ Restored' = {}
  BY DEF MigrateNext, Migrate, Upgrade, Downgrade, shelf, restoring, given,
         startup, Restored
<1>3. Dumping' /\ Progress' /\ DumpsSound'
  BY <1>1, <1>2 DEF Dumping, Progress, DumpsSound
<1>4. SchemaTyped /\ version \in 0..2
  BY <1>1 DEF TypeOK, SchemaTyped
<1>5. ~torn => \A n \in 1..version : Revision(n) \subseteq tables
  BY <1>1, <1>2 DEF VersionTrue
<1>6. ASSUME NEW n \in 1..2, Upgrade(n)
      PROVE  IInv'
  <2>1. /\ tables' = tables \cup Pending(n) /\ version' = n
        /\ data' = data /\ rolledBack' = rolledBack
        /\ \A k \in (version + 1)..n : Revision(k) \subseteq Pending(n)
        /\ Pending(n) \subseteq Tables
    BY <1>6 DEF Upgrade, Pending, Revision, Tables
  <2>2. SchemaTyped'
    BY <1>2, <1>4, <2>1 DEF SchemaTyped
  <2>3. VersionTrue'
    <3>1. ASSUME ~torn, NEW k \in 1..n
          PROVE  Revision(k) \subseteq tables'
      <4>1. k \in 1..version \/ k \in (version + 1)..n
        BY <1>4
      <4> QED
        BY <1>5, <2>1, <3>1, <4>1
    <3> QED
      BY <1>2, <2>1, <3>1 DEF VersionTrue
  <2>4. ReplicasProvide'
    BY <1>1, <1>2, <2>1 DEF ReplicasProvide
  <2>5. TypeOK'
    BY <1>1, <1>2, <2>2 DEF TypeOK
  <2> QED
    BY <1>3, <2>3, <2>4, <2>5 DEF IInv
<1>7. ASSUME Downgrade
      PROVE  IInv'
  <2>1. /\ tables' = tables \ Revision(version) /\ version' = version - 1
        /\ data' = [t \in Tables |-> IF t \in Revision(version) THEN {} ELSE data[t]]
        /\ rolledBack' = TRUE /\ version \in 1..2
    BY <1>4, <1>7 DEF Downgrade
  <2>2. SchemaTyped'
    BY <1>2, <1>4, <2>1 DEF SchemaTyped
  <2>3. VersionTrue'
    <3>1. ASSUME ~torn, NEW k \in 1..(version - 1)
          PROVE  Revision(k) \subseteq tables'
      <4>1. k = 1 /\ version = 2
        BY <2>1
      <4>2. Revision(k) \subseteq tables /\ Revision(k) \cap Revision(version) = {}
        BY <1>5, <3>1, <4>1, SchemaAssumption DEF Revision
      <4> QED
        BY <2>1, <4>2
    <3> QED
      BY <1>2, <2>1, <3>1 DEF VersionTrue
  <2>4. ReplicasProvide'
    BY <1>1, <1>2, <2>1 DEF ReplicasProvide
  <2>5. TypeOK'
    BY <1>1, <1>2, <2>2 DEF TypeOK
  <2> QED
    BY <1>3, <2>3, <2>4, <2>5 DEF IInv
<1> QED
  BY <1>6, <1>7 DEF MigrateNext, Migrate

(* backup.sh changes no table; a dump it takes while nothing is torn has   *)
(* the tables of its version.                                              *)
LEMMA BackupKeeps ==
  ASSUME IInv, BackupNext
  PROVE  IInv'
<1>1. /\ TypeOK /\ Dumping /\ Progress /\ DumpsSound /\ VersionTrue
      /\ ReplicasProvide
  BY DEF IInv
<1>2. /\ UNCHANGED <<tables, data, version, replica, missing, crashes, rolledBack>>
      /\ UNCHANGED <<restore, todo, source, outcome, restores, inserted, torn>>
      /\ Restored' = Restored
  BY DEF BackupNext, BackupStart, BackupDone, BackupFail, BackupKilled, schema,
         database, startup, restoring, given, Restored
<1>3. Progress' /\ VersionTrue' /\ ReplicasProvide'
  BY <1>1, <1>2 DEF Progress, Back, VersionTrue, ReplicasProvide
<1>4. SUFFICES /\ \A f \in files' : f \in File /\ Sound(f.dump)
               /\ Dumping'
               /\ backup' \in {"idle", "dumping"} /\ backups' \in 0..MaxBackups
  <2>1. SchemaTyped'
    BY <1>1, <1>2 DEF TypeOK, SchemaTyped
  <2>2. TypeOK'
    BY <1>1, <1>2, <1>4, <2>1 DEF TypeOK
  <2>3. DumpsSound'
    BY <1>1, <1>2, <1>4 DEF DumpsSound
  <2> QED
    BY <1>3, <1>4, <2>2, <2>3 DEF IInv
<1>5. /\ \A f \in files : f \in File /\ Sound(f.dump)
      /\ backup \in {"idle", "dumping"} /\ backups \in 0..MaxBackups
      /\ MaxBackups \in Nat
  BY <1>1, BackupAssumption DEF TypeOK, DumpsSound
<1>6. CASE BackupStart
  <2> DEFINE d == [tables |-> tables, data |-> data, version |-> version,
                   torn |-> torn \/ restore # "idle"]
             f == [number |-> backups + 1, whole |-> FALSE, dump |-> d]
  <2>1. /\ files' = files \cup {f} /\ backup' = "dumping"
        /\ backups' = backups + 1 /\ backups < MaxBackups
    BY <1>6 DEF BackupStart
  <2>2. d \in Dump
    BY <1>1 DEF TypeOK, SchemaTyped, Dump
  <2>3. Sound(d)
    BY <1>1 DEF Sound, VersionTrue, Restored
  <2>4. backups + 1 \in 1..MaxBackups
    BY <1>5, <2>1
  <2>5. f \in File /\ f.dump = d /\ f.number = backups + 1
    BY <2>2, <2>4 DEF File
  <2> HIDE DEF d, f
  <2> QED
    BY <1>5, <2>1, <2>3, <2>4, <2>5 DEF Dumping
<1>7. CASE BackupDone
  <2> DEFINE c == Current
             w == [c EXCEPT !.whole = TRUE]
  <2>1. files' = (files \ {c}) \cup {w} /\ backup' = "idle" /\ backups' = backups
    BY <1>7 DEF BackupDone
  <2>2. c \in files
    BY <1>1, <1>7 DEF BackupDone, Dumping, Current
  <2> HIDE DEF c
  <2>3. w \in File /\ w.dump = c.dump
    BY <1>5, <2>2 DEF File
  <2> HIDE DEF w
  <2>4. \A f \in files' : f \in File /\ Sound(f.dump)
    BY <1>5, <2>1, <2>2, <2>3
  <2> QED
    BY <1>5, <2>1, <2>4 DEF Dumping
<1>8. CASE BackupFail \/ BackupKilled
  <2>1. files' \subseteq files /\ backup' = "idle" /\ backups' = backups
    BY <1>8 DEF BackupFail, BackupKilled
  <2> QED
    BY <1>5, <2>1 DEF Dumping
<1> QED
  BY <1>6, <1>7, <1>8 DEF BackupNext
(* A restore begins: the tables of its dump are there or on their way.     *)
LEMMA RestoreStartKeeps ==
  ASSUME IInv, RestoreStart
  PROVE  IInv'
<1>1. /\ TypeOK /\ Dumping /\ DumpsSound /\ VersionTrue /\ ReplicasProvide
  BY DEF IInv
<1>2. PICK f \in files : source' = f /\ todo' = f.dump.tables
  BY DEF RestoreStart
<1>3. /\ restore = "idle" /\ restore' = "drop" /\ outcome' = "none"
      /\ restores' = restores + 1 /\ restores < MaxRestores
      /\ UNCHANGED <<tables, data, version, replica, missing, crashes, rolledBack>>
      /\ UNCHANGED <<files, backup, backups, inserted, torn>>
  BY DEF RestoreStart, schema, database, startup, shelf
<1>4. Restored = {} /\ Restored' = f.dump.tables
  BY <1>2, <1>3 DEF Restored
<1>5. f \in File /\ Sound(f.dump) /\ f.dump.tables \subseteq Tables
  BY <1>1 DEF TypeOK, DumpsSound, File, Dump
<1>6. TypeOK'
  <2>1. SchemaTyped'
    BY <1>1, <1>3 DEF TypeOK, SchemaTyped
  <2>2. restores' \in 0..MaxRestores
    BY <1>1, <1>3, BackupAssumption DEF TypeOK
  <2> QED
    BY <1>1, <1>2, <1>3, <1>5, <2>1, <2>2 DEF TypeOK
<1>7. Progress'
  <2>1. source' \in File /\ todo' = Restored' /\ restore' = "drop"
    BY <1>2, <1>3, <1>4, <1>5
  <2> QED
    BY <2>1 DEF Progress
<1>8. Dumping' /\ DumpsSound'
  BY <1>1, <1>2, <1>3, <1>5 DEF Dumping, DumpsSound
<1>9. VersionTrue' /\ ReplicasProvide'
  BY <1>1, <1>3, <1>4 DEF VersionTrue, ReplicasProvide
<1> QED
  BY <1>6, <1>7, <1>8, <1>9 DEF IInv

(* It ends.  Nothing is claimed of what a failure leaves behind.           *)
LEMMA FailureKeeps ==
  ASSUME IInv, restore # "idle", RestoreEnds("failed"), UNCHANGED <<schema, shelf>>
  PROVE  IInv'
<1>1. /\ TypeOK /\ Dumping /\ DumpsSound /\ ReplicasProvide
  BY DEF IInv
<1>2. /\ restore' = "idle" /\ source' = NoFile /\ todo' = {} /\ torn' = TRUE
      /\ outcome' = "failed" /\ inserted' = {} /\ restores' = restores
      /\ UNCHANGED <<tables, data, version, replica, missing, crashes, rolledBack>>
      /\ UNCHANGED <<files, backup, backups>>
  BY DEF RestoreEnds, schema, database, startup, shelf
<1>3. SchemaTyped'
  BY <1>1, <1>2 DEF TypeOK, SchemaTyped
<1> QED
  BY <1>1, <1>2, <1>3
     DEF IInv, TypeOK, Dumping, Progress, DumpsSound, VersionTrue, ReplicasProvide

(* A success leaves all its tables there: with a sound dump these complete *)
(* the version it brings, and otherwise they repair what was torn if they  *)
(* are all there are.                                                      *)
LEMMA SuccessKeeps ==
  ASSUME IInv, restore = "constrain", RestoreEnds("ok"), UNCHANGED <<schema, shelf>>
  PROVE  IInv'
<1>1. /\ TypeOK /\ Dumping /\ Progress /\ DumpsSound /\ VersionTrue
      /\ ReplicasProvide
  BY DEF IInv
<1>2. /\ restore' = "idle" /\ source' = NoFile /\ todo' = {}
      /\ outcome' = "ok" /\ inserted' = {} /\ restores' = restores
      /\ UNCHANGED <<tables, data, version, replica, missing, crashes, rolledBack>>
      /\ UNCHANGED <<files, backup, backups>>
  BY DEF RestoreEnds, schema, database, startup, shelf
<1>3. /\ Restored = source.dump.tables /\ Restored \subseteq tables /\ Restored' = {}
      /\ source \in File
  BY <1>1, <1>2 DEF Progress, Restored
<1>4. torn' = (source.dump.tables # Tables /\ (torn \/ source.dump.torn))
  BY DEF RestoreEnds
<1>5. /\ tables \subseteq Tables
      /\ ~torn' => tables = Tables \/ (~torn /\ ~source.dump.torn)
  BY <1>1, <1>3, <1>4 DEF TypeOK, SchemaTyped
<1>6. TypeOK'
  <2>1. SchemaTyped'
    BY <1>1, <1>2 DEF TypeOK, SchemaTyped
  <2>2. torn' \in BOOLEAN
    BY <1>4
  <2> QED
    BY <1>1, <1>2, <2>1, <2>2 DEF TypeOK
<1>7. Dumping' /\ Progress' /\ DumpsSound'
  BY <1>1, <1>2 DEF Dumping, Progress, DumpsSound
<1>8. VersionTrue'
  <2> SUFFICES ASSUME ~torn', NEW n \in 1..version
               PROVE  Revision(n) \subseteq tables
    BY <1>2 DEF VersionTrue
  <2>1. Revision(n) \subseteq Tables
    BY DEF Revision, Tables
  <2> QED
    BY <1>1, <1>3, <1>5, <2>1 DEF VersionTrue
<1>9. ReplicasProvide'
  BY <1>1, <1>2, <1>3, <1>5 DEF ReplicasProvide
<1> QED
  BY <1>6, <1>7, <1>8, <1>9 DEF IInv

(* The statements of a restore change tables and rows only, each a table   *)
(* of the dump.                                                            *)
LEMMA StatementKeeps ==
  ASSUME IInv, restore # "idle", UNCHANGED <<shelf, startup, crashes, rolledBack>>,
         UNCHANGED given, restore' \in {"drop", "create", "copy", "constrain"},
         todo' \subseteq Restored,
         tables \subseteq tables' \cup Restored, tables' \subseteq Tables,
         data' \in [Tables -> SUBSET Rows],
         \A t \in Tables \ tables' : data'[t] = {},
         version' \in {version, 0}
            \/ (version' = source.dump.version /\ restore = "copy")
  PROVE  /\ TypeOK' /\ Dumping' /\ DumpsSound' /\ VersionTrue' /\ ReplicasProvide'
         /\ Restored' = Restored /\ Restored = source.dump.tables
         /\ Restored \subseteq Tables /\ source \in File
<1>1. /\ TypeOK /\ Dumping /\ Progress /\ DumpsSound /\ VersionTrue
      /\ ReplicasProvide
  BY DEF IInv
<1>2. /\ UNCHANGED <<files, backup, backups, replica, missing, crashes, rolledBack>>
      /\ UNCHANGED <<source, outcome, restores, inserted, torn>>
      /\ Restored' = Restored /\ Restored = source.dump.tables
  BY DEF shelf, startup, given, Restored
<1>3. source \in File /\ Restored \subseteq Tables /\ source.dump.version \in 0..2
  BY <1>1, <1>2 DEF Progress, File, Dump
<1>4. TypeOK'
  <2>1. SchemaTyped'
    BY <1>1, <1>2, <1>3 DEF TypeOK, SchemaTyped
  <2>2. todo' \subseteq Tables
    BY <1>3
  <2> QED
    BY <1>1, <1>2, <2>1, <2>2 DEF TypeOK
<1>5. Dumping' /\ DumpsSound'
  BY <1>1, <1>2 DEF Dumping, DumpsSound
<1>6. VersionTrue'
  <2> SUFFICES ASSUME ~torn, ~source.dump.torn, NEW n \in 1..version'
               PROVE  Revision(n) \subseteq tables' \cup Restored
    BY <1>2 DEF VersionTrue
  <2>1. CASE version' = version
    BY <1>1, <2>1 DEF VersionTrue
  <2>2. CASE version' = 0
    BY <2>2
  <2>3. CASE version' = source.dump.version
    BY <1>1, <1>2, <2>3 DEF DumpsSound, Sound
  <2> QED
    BY <2>1, <2>2, <2>3
<1>7. ReplicasProvide'
  BY <1>1, <1>2 DEF ReplicasProvide
<1> QED
  BY <1>2, <1>3, <1>4, <1>5, <1>6, <1>7
LEMMA DropKeeps ==
  ASSUME IInv, RestoreDrop
  PROVE  IInv'
<1>1. TypeOK /\ Progress
  BY DEF IInv
<1>2. /\ restore = "drop" /\ UNCHANGED <<shelf, startup, crashes, rolledBack>>
      /\ UNCHANGED given /\ UNCHANGED <<source, inserted>>
  BY DEF RestoreDrop, RestoreTurns, given
<1>3. /\ source \in File /\ todo \subseteq Restored /\ Restored \subseteq Tables
      /\ Restored = source.dump.tables
      /\ \A t \in Restored \ todo : data[t] \subseteq inserted
  BY <1>1, <1>2 DEF Progress, Restored, File, Dump
<1>4. SchemaTyped
  BY <1>1 DEF TypeOK
<1>5. ASSUME NEW t \in todo, tables' = tables \ {t}, todo' = todo \ {t},
             data' = [data EXCEPT ![t] = {}], version' = version, restore' = "drop"
      PROVE  IInv'
  <2>1. /\ data' \in [Tables -> SUBSET Rows]
        /\ \A u \in Tables : data'[u] = IF u = t THEN {} ELSE data[u]
    BY <1>3, <1>4, <1>5 DEF SchemaTyped
  <2>2. /\ tables \subseteq tables' \cup Restored /\ tables' \subseteq Tables
        /\ todo' \subseteq Restored
        /\ \A u \in Tables \ tables' : data'[u] = {}
    BY <1>3, <1>4, <1>5, <2>1 DEF SchemaTyped
  <2>3. /\ TypeOK' /\ Dumping' /\ DumpsSound' /\ VersionTrue' /\ ReplicasProvide'
        /\ Restored' = Restored
    BY <1>2, <1>5, <2>1, <2>2, StatementKeeps
  <2>4. Progress'
    BY <1>2, <1>3, <1>5, <2>1, <2>2, <2>3 DEF Progress
  <2> QED
    BY <2>3, <2>4 DEF IInv
<1>6. ASSUME RestoreTurns("create"), version' \in {0, version},
             UNCHANGED <<tables, data>>
      PROVE  IInv'
  <2>1. /\ todo = {} /\ restore' = "create" /\ todo' = Restored
    BY <1>3, <1>6 DEF RestoreTurns
  <2>2. /\ TypeOK' /\ Dumping' /\ DumpsSound' /\ VersionTrue' /\ ReplicasProvide'
        /\ Restored' = Restored
    BY <1>2, <1>4, <1>6, <2>1, StatementKeeps DEF SchemaTyped
  <2>3. Progress'
    BY <1>2, <1>3, <1>6, <2>1, <2>2 DEF Progress
  <2> QED
    BY <2>2, <2>3 DEF IInv
<1> QED
  BY <1>2, <1>5, <1>6 DEF RestoreDrop

(* A table that is created now holds nothing but what was inserted.        *)
LEMMA CreateKeeps ==
  ASSUME IInv, RestoreCreate
  PROVE  IInv'
<1>1. TypeOK /\ Progress
  BY DEF IInv
<1>2. restore = "create" /\ UNCHANGED <<shelf, startup, crashes, rolledBack>>
      /\ UNCHANGED <<data, version>>
  BY DEF RestoreCreate
<1>3. /\ source \in File /\ todo \subseteq Restored /\ Restored \subseteq Tables
      /\ Restored = source.dump.tables
      /\ \A t \in Restored : data[t] \subseteq inserted
      /\ Restored \ todo \subseteq tables
  BY <1>1, <1>2 DEF Progress, Restored, File, Dump
<1>4. SchemaTyped
  BY <1>1 DEF TypeOK
<1>5. ASSUME NEW t \in todo, tables' = tables \cup {t}, todo' = todo \ {t},
             restore' = "create", UNCHANGED given
      PROVE  IInv'
  <2>1. /\ tables \subseteq tables' \cup Restored /\ tables' \subseteq Tables
        /\ todo' \subseteq Restored
        /\ data' \in [Tables -> SUBSET Rows]
        /\ \A u \in Tables \ tables' : data'[u] = {}
    BY <1>2, <1>3, <1>4, <1>5 DEF SchemaTyped
  <2>2. /\ TypeOK' /\ Dumping' /\ DumpsSound' /\ VersionTrue' /\ ReplicasProvide'
        /\ Restored' = Restored
    BY <1>2, <1>5, <2>1, StatementKeeps
  <2>3. Progress'
    BY <1>2, <1>3, <1>5, <2>1, <2>2 DEF Progress, given
  <2> QED
    BY <2>2, <2>3 DEF IInv
<1>6. ASSUME RestoreEnds("failed"), tables' = tables
      PROVE  IInv'
  BY <1>2, <1>6, FailureKeeps DEF schema, database
<1>7. ASSUME RestoreTurns("copy"), tables' = tables
      PROVE  IInv'
  <2>1. /\ todo = {} /\ restore' = "copy" /\ todo' = Restored /\ UNCHANGED given
    BY <1>3, <1>7 DEF RestoreTurns
  <2>2. /\ TypeOK' /\ Dumping' /\ DumpsSound' /\ VersionTrue' /\ ReplicasProvide'
        /\ Restored' = Restored
    BY <1>2, <1>4, <1>7, <2>1, StatementKeeps DEF SchemaTyped
  <2>3. Progress'
    BY <1>2, <1>3, <1>7, <2>1, <2>2 DEF Progress, given
  <2> QED
    BY <2>2, <2>3 DEF IInv
<1> QED
  BY <1>2, <1>5, <1>6, <1>7 DEF RestoreCreate

(* What was copied into a table is the dump's rows over the inserted ones. *)
LEMMA CopyKeeps ==
  ASSUME IInv, RestoreCopy
  PROVE  IInv'
<1>1. TypeOK /\ Progress
  BY DEF IInv
<1>2. /\ restore = "copy" /\ UNCHANGED <<shelf, startup, crashes, rolledBack>>
      /\ tables' = tables /\ UNCHANGED given /\ UNCHANGED <<source, inserted>>
  BY DEF RestoreCopy, RestoreTurns, given
<1>3. /\ source \in File /\ todo \subseteq Restored /\ Restored \subseteq Tables
      /\ Restored = source.dump.tables /\ Restored \subseteq tables
      /\ \A t \in todo : data[t] \subseteq inserted
      /\ \A t \in Restored \ todo : Back(t)
      /\ source.dump.data \in [Tables -> SUBSET Rows]
  BY <1>1, <1>2 DEF Progress, Restored, File, Dump
<1>4. SchemaTyped
  BY <1>1 DEF TypeOK
<1>5. ASSUME NEW t \in todo, data' = [data EXCEPT ![t] = @ \cup source.dump.data[t]],
             todo' = todo \ {t}, version' = version, restore' = "copy"
      PROVE  IInv'
  <2>1. /\ data' \in [Tables -> SUBSET Rows]
        /\ \A u \in Tables : data'[u] = IF u = t THEN data[u] \cup source.dump.data[u]
                                        ELSE data[u]
    BY <1>3, <1>4, <1>5 DEF SchemaTyped
  <2>2. /\ tables \subseteq tables' \cup Restored /\ tables' \subseteq Tables
        /\ todo' \subseteq Restored
        /\ \A u \in Tables \ tables' : data'[u] = {}
    BY <1>2, <1>3, <1>4, <1>5, <2>1 DEF SchemaTyped
  <2>3. /\ TypeOK' /\ Dumping' /\ DumpsSound' /\ VersionTrue' /\ ReplicasProvide'
        /\ Restored' = Restored
    BY <1>2, <1>5, <2>1, <2>2, StatementKeeps
  <2>4. /\ \A u \in todo' : data'[u] \subseteq inserted
        /\ \A u \in Restored \ todo' : Back(u)'
    BY <1>2, <1>3, <1>5, <2>1 DEF Back
  <2>5. Progress'
    BY <1>2, <1>3, <1>5, <2>2, <2>3, <2>4 DEF Progress
  <2> QED
    BY <2>3, <2>5 DEF IInv
<1>6. ASSUME RestoreTurns("constrain"), data' = data,
             version' \in {version, source.dump.version}
      PROVE  IInv'
  <2>1. /\ todo = {} /\ restore' = "constrain" /\ todo' = Restored
    BY <1>3, <1>6 DEF RestoreTurns
  <2>2. /\ TypeOK' /\ Dumping' /\ DumpsSound' /\ VersionTrue' /\ ReplicasProvide'
        /\ Restored' = Restored
    BY <1>2, <1>4, <1>6, <2>1, StatementKeeps DEF SchemaTyped
  <2>3. \A t \in Restored : Back(t)'
    BY <1>2, <1>3, <1>6, <2>1 DEF Back
  <2>4. Progress'
    BY <1>2, <1>3, <2>1, <2>2, <2>3 DEF Progress
  <2> QED
    BY <2>2, <2>4 DEF IInv
<1> QED
  BY <1>2, <1>5, <1>6 DEF RestoreCopy

LEMMA Step == IInv /\ [Next]_vars => IInv'
<1> SUFFICES ASSUME IInv, [Next]_vars PROVE IInv'
  OBVIOUS
<1>1. CASE RestoreNext
  <2>1. CASE RestoreFinish \/ RestoreTruncated \/ RestoreBreak
    <3>1. /\ UNCHANGED <<schema, shelf>> /\ restore # "idle"
          /\ \/ RestoreEnds("failed")
             \/ restore = "constrain" /\ RestoreEnds("ok")
      BY <2>1 DEF RestoreFinish, RestoreTruncated, RestoreBreak
    <3> QED
      BY <3>1, FailureKeeps, SuccessKeeps
  <2> QED
    BY <1>1, <2>1, RestoreStartKeeps, DropKeeps, CreateKeeps, CopyKeeps
       DEF RestoreNext
<1>2. CASE UNCHANGED vars
  <2>1. /\ UNCHANGED <<tables, data, version, replica, missing, crashes, rolledBack>>
        /\ UNCHANGED <<files, backup, backups, restore, todo>>
        /\ UNCHANGED <<source, outcome, restores, inserted, torn>>
    BY <1>2 DEF vars, schema, database, startup, shelf, restoring, given
  <2>2. TypeOK'
    BY <2>1 DEF IInv, TypeOK, SchemaTyped
  <2>3. Dumping' /\ Progress' /\ DumpsSound' /\ VersionTrue' /\ ReplicasProvide'
    BY <2>1 DEF IInv, Dumping, Progress, DumpsSound, VersionTrue, ReplicasProvide,
                Restored, Back
  <2> QED
    BY <2>2, <2>3 DEF IInv
<1> QED
  BY <1>1, <1>2, ServiceKeeps, MigrateKeeps, BackupKeeps DEF Next

(* The tables agree with Alembic's version and with what a serving replica *)
(* needs, whatever is started, migrated, dumped, killed and restored, in   *)
(* any number (init_db, alembic/versions, backup.sh and restore.sh).       *)
THEOREM SchemaHolds == Spec => [](TypeOK /\ SchemaComplete)
<1>1. IInv => TypeOK /\ SchemaComplete
  <2> SUFFICES ASSUME IInv, Settled PROVE SchemaComplete
    BY DEF IInv, SchemaComplete
  <2>1. Restored = {} /\ tables \subseteq Tables
    BY DEF Settled, Restored, IInv, TypeOK, SchemaTyped
  <2>2. \A n \in 1..version : Revision(n) \subseteq tables
    BY <2>1 DEF IInv, VersionTrue, Settled
  <2>3. ASSUME ~rolledBack, NEW r \in Replicas, replica[r] = "up"
        PROVE  tables = Tables
    BY <2>1, <2>3 DEF IInv, ReplicasProvide, Settled
  <2> QED
    BY <2>2, <2>3 DEF SchemaComplete
<1> QED
  BY <1>1, InitInv, Step, PTL DEF Spec

(* A restore that reports OK brought every row of the dump back            *)
(* (restore.sh).                                                           *)
THEOREM RestoresHold == Spec => RestoreBringsBack
<1>1. IInv /\ [Next]_vars =>
        [restore # "idle" /\ restore' = "idle" /\ outcome' = "ok" =>
            \A t \in source.dump.tables :
                /\ t \in tables
                /\ source.dump.data[t] \subseteq data[t]
                /\ data[t] \subseteq source.dump.data[t] \cup inserted]_vars
  <2> SUFFICES ASSUME IInv, Next, restore # "idle", restore' = "idle", outcome' = "ok"
               PROVE  \A t \in source.dump.tables :
                         /\ t \in tables
                         /\ source.dump.data[t] \subseteq data[t]
                         /\ data[t] \subseteq source.dump.data[t] \cup inserted
    BY DEF vars, restoring
  <2>1. restore = "constrain"
    <3>1. RestoreNext
      BY DEF Next, ServiceNext, MigrateNext, BackupNext, BackupStart, BackupDone,
             BackupFail, BackupKilled, restoring
    <3> QED
      BY <3>1 DEF RestoreNext, RestoreStart, RestoreDrop, RestoreCreate, RestoreCopy,
                  RestoreFinish, RestoreTruncated, RestoreBreak, RestoreTurns,
                  RestoreEnds
  <2> QED
    BY <2>1 DEF IInv, Progress, Restored, Back
<1> QED
  BY <1>1, InitInv, Step, PTL DEF Spec, RestoreBringsBack
=============================================================================
