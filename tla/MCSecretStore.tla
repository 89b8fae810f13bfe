---------------------------- MODULE MCSecretStore ----------------------------
(* SecretStore on a small instance: a call that seals in each process, one  *)
(* that opens, and a key for each of them to make up.                       *)
EXTENDS SecretStore, TLC

CONSTANTS p1, p2, c1, c2, c3, k1, k2, k3

MCProcesses == {p1, p2}
MCCalls == {c1, c2, c3}
MCKeys == {k1, k2, k3}
=============================================================================
