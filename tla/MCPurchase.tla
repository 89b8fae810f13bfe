----------------------------- MODULE MCPurchase -----------------------------
(* Purchase on small instances.  Placing an order takes four requests, so  *)
(* the bound on requests has to leave room for rivals beyond that.         *)
EXTENDS Purchase, TLC

CONSTANTS w1, w2, p1, p2, o1, o2, c1, c2

MCTwoWorkers == {w1, w2}
MCOnePr == {p1}
MCTwoPrs == {p1, p2}
MCOnePo == {o1}
MCTwoPos == {o1, o2}
MCOneCode == {c1}
MCTwoCodes == {c1, c2}

MCSymmetry == Permutations(MCTwoWorkers) \cup Permutations(MCTwoPrs)
                  \cup Permutations(MCTwoPos) \cup Permutations(MCTwoCodes)
MCWorkerSymmetry == Permutations(MCTwoWorkers)
=============================================================================
