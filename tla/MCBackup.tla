------------------------------- MODULE MCBackup -------------------------------
(* Backup on a small instance: two replicas that start at the same time,   *)
(* a table of each revision, and a row that is in one of them, in the dump *)
(* of it, or was inserted anew while the restore ran.                      *)
EXTENDS Backup

CONSTANTS r1, r2, settings, erp, x

MCReplicas == {r1, r2}
MCInitial == {settings}
MCBusiness == {erp}
MCRows == {x}
=============================================================================
