---------------------------- MODULE MCRequestGate ----------------------------
(* RequestGate on small instances: windows of three seconds, two requests   *)
(* each.                                                                    *)
EXTENDS RequestGate, TLC

CONSTANTS k1, k2

MCTwoClients == {k1, k2}
MCSymmetry == Permutations(MCTwoClients)
=============================================================================
