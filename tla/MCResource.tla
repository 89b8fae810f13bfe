------------------------------ MODULE MCResource ------------------------------
(* Resource on a small instance: two overlapping requests, more items than *)
(* the overview lists and as many as there are requests, one status that   *)
(* is the default and one that is not.                                     *)
EXTENDS Resource

CONSTANTS w1, w2, i1, i2, i3

MCWorkers == {w1, w2}
MCItems == {i1, i2, i3}
MCAudited == {"resource.created", "resource.status_changed"}
MCWanted == {"active", "closed"}
=============================================================================
