----------------------------- MODULE MCInventory -----------------------------
(* Inventory on small instances.  Quantities hold 0, an ordinary amount and *)
(* one wider than the column, which MaxInt = 4 stands for; two ordinary     *)
(* receipts fill the column and a third overflows it.                       *)
EXTENDS Inventory, TLC

CONSTANTS w1, w2, i1, i2, s1, s2

MCOneWorker == {w1}
MCTwoWorkers == {w1, w2}
MCOneItem == {i1}
MCTwoItems == {i1, i2}
MCOneSku == {s1}
MCTwoSkus == {s1, s2}
MCQuantities == {0, 2, 5}

MCSymmetry == Permutations(MCTwoWorkers) \cup Permutations(MCTwoItems)
                  \cup Permutations(MCTwoSkus)
MCOneItemSymmetry == Permutations(MCTwoWorkers)
=============================================================================
