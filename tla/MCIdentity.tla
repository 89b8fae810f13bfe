----------------------------- MODULE MCIdentity -----------------------------
(* Identity on small instances.  Two departments beside the seeds are what  *)
(* a cycle of parents would take, one of them named by a name of its own.   *)
EXTENDS Identity, TLC

CONSTANTS w1, w2, e1, e2

MCTwoWorkers == {w1, w2}
MCDepts == SeedDepts \cup {"sales", "legal"}
MCUsernames == {"admin", "zhang"}
MCEmps == {e1, e2}

=============================================================================
