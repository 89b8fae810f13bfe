------------------------------ MODULE Inventory ------------------------------
(***************************************************************************)
(* Stock items and the stock ledger of SM-ERP (app/services/inventory.py   *)
(* over app/repositories/inventory.py), as concurrent requests drive them. *)
(*                                                                         *)
(* Tables are kept one variable per column, since an UPDATE writes only    *)
(* the columns the session found changed.  The ledger is kept as its two   *)
(* sums per item.                                                          *)
(***************************************************************************)
EXTENDS Handler

CONSTANTS
    Items,        \* primary keys uuid4 may produce
    Skus,         \* SKUs clients send
    NoSku,        \* the sku of a key that has no row
    Quantities,   \* the integers clients send, some wider than the column
    MaxInt        \* the largest value an Integer column stores

ASSUME InventoryAssumption ==
    /\ NoSku \notin Skus
    /\ Quantities \subseteq Nat
    /\ MaxInt \in Nat

Statuses   == {"active", "inactive", "discontinued"}
Directions == {"in", "out"}

VARIABLES
    rows,        \* keys with a row in erp_stock_items
    sku,         \* column sku
    quantity,    \* column quantity
    status,      \* column status
    received,    \* sum of change_qty over the item's "in" ledger rows
    issued,      \* sum of change_qty over the item's "out" ledger rows
    opening,     \* history: the quantity an item was created with
    overtaken,   \* history: items with a movement computed from an old copy
    untimely     \* history: items with a movement their status forbade by then

table == <<rows, sku, status>>
stock == <<quantity, received, issued, overtaken, untimely>>
vars  == <<table, stock, opening, trail, control>>

-----------------------------------------------------------------------------
(* What pydantic lets through, and what a worker holds in each phase.      *)

Changes == Quantities \ {0}
NoStatus == "unset"

Phases == {"create", "update", "move"}

CreateJob == [sku : Skus, quantity : Quantities]
UpdateJob == [item : Items, loaded : Statuses, status : Statuses \cup {NoStatus}]
MoveJob   == [item : Items, loaded : 0..MaxInt, status : Statuses,
              direction : Directions, change : Changes]

(* Mutant of SkuTaken: a retired item's SKU may be used again.             *)
SkuTakenByActive(s) == \E i \in rows : sku[i] = s /\ status[i] = "active"

SkuTaken(s) == \E i \in rows : sku[i] = s

(* Mutant of Storable: a column wider than the API reads back.             *)
StorableWide(q) == q \in Int

(* A signed column: it would take a negative quantity without complaint.   *)
Storable(q) == q \in (-MaxInt - 1)..MaxInt

(* Mutants of MoveAllowed: one of the two checks forgotten.                *)
MoveAllowedUnstocked(loadedStatus, loaded, direction, change) ==
    loadedStatus = "active"
MoveAllowedAnyStatus(loadedStatus, loaded, direction, change) ==
    direction = "out" => loaded >= change

(* The two early returns of apply_transaction that look at the loaded row. *)
MoveAllowed(loadedStatus, loaded, direction, change) ==
    /\ loadedStatus = "active"
    /\ direction = "out" => loaded >= change

(* Mutant of Moved: a receipt cut off at the column's limit.               *)
MovedSaturating(loaded, direction, change) ==
    CASE direction = "out"          -> loaded - change
      [] loaded + change <= MaxInt  -> loaded + change
      [] OTHER                      -> MaxInt

Moved(loaded, direction, change) ==
    IF direction = "in" THEN loaded + change ELSE loaded - change

-----------------------------------------------------------------------------
Init ==
    /\ rows = {}
    /\ sku = [i \in Items |-> NoSku]
    /\ quantity = [i \in Items |-> 0]
    /\ status = [i \in Items |-> "active"]
    /\ received = [i \in Items |-> 0]
    /\ issued = [i \in Items |-> 0]
    /\ opening = [i \in Items |-> 0]
    /\ overtaken = {}
    /\ untimely = {}
    /\ HandlerInit

-----------------------------------------------------------------------------
(* create_item up to its first await: the SELECT by sku.                   *)
CreateLookup(w) ==
    /\ Arrive(w)
    /\ \E s \in Skus, q \in Quantities :
          IF SkuTaken(s)
          THEN Answer(w, 409)
          ELSE Await(w, "create", [sku |-> s, quantity |-> q])
    /\ UNCHANGED <<table, stock, opening>>

(* Mutant of CreateCommit: a taken SKU updates the row that has it.        *)
CreateCommitUpserts(w) ==
    /\ pc[w] = "create"
    /\ Storable(job[w].quantity)
    /\ LET held == {i \in rows : sku[i] = job[w].sku} IN
       \E i \in IF held = {} THEN Items \ rows ELSE held :
          /\ rows' = rows \cup {i}
          /\ sku' = [sku EXCEPT ![i] = job[w].sku]
          /\ quantity' = [quantity EXCEPT ![i] = job[w].quantity]
    /\ Commit(w, "stock_item.created", 201)
    /\ UNCHANGED <<status, opening, received, issued, overtaken, untimely>>

(* create_item's INSERT and COMMIT.  The unique constraint on sku decides  *)
(* a race; a quantity the column cannot hold fails the statement instead.  *)
CreateCommit(w) ==
    /\ pc[w] = "create"
    /\ LET new == job[w] IN
       \/ /\ Storable(new.quantity)
          /\ ~SkuTaken(new.sku)
          /\ \E i \in Items \ rows :
                /\ rows' = rows \cup {i}
                /\ sku' = [sku EXCEPT ![i] = new.sku]
                /\ quantity' = [quantity EXCEPT ![i] = new.quantity]
                /\ status' = [status EXCEPT ![i] = "active"]
                /\ opening' = [opening EXCEPT ![i] = new.quantity]
                /\ Commit(w, "stock_item.created", 201)
          /\ UNCHANGED <<received, issued, overtaken, untimely>>
       \/ /\ Storable(new.quantity)
          /\ SkuTaken(new.sku)
          /\ Abandon(w, 409)
          /\ UNCHANGED <<table, stock, opening>>
       \/ /\ ~Storable(new.quantity)
          /\ Abandon(w, 500)
          /\ UNCHANGED <<table, stock, opening>>

(* update_item up to its commit: load the row, assign the given fields.    *)
UpdateLoad(w) ==
    /\ Arrive(w)
    /\ \E i \in Items, s \in Statuses \cup {NoStatus} :
          IF i \in rows
          THEN Await(w, "update", [item |-> i, loaded |-> status[i], status |-> s])
          ELSE Answer(w, 404)
    /\ UNCHANGED <<table, stock, opening>>

(* update_item's COMMIT: the status column is part of the UPDATE only when *)
(* a status was given that differs from the loaded one.                    *)
UpdateCommit(w) ==
    /\ pc[w] = "update"
    /\ LET u == job[w] IN
          /\ status' = IF u.status \in {NoStatus, u.loaded}
                       THEN status
                       ELSE [status EXCEPT ![u.item] = u.status]
          /\ Commit(w, "stock_item.updated", 200)
    /\ UNCHANGED <<rows, sku, stock, opening>>

(* apply_transaction up to its commit: load the row and check the copy.    *)
MoveLoad(w) ==
    /\ Arrive(w)
    /\ \E i \in Items, d \in Directions, n \in Changes :
          \/ /\ i \notin rows
             /\ Answer(w, 404)
          \/ /\ i \in rows
             /\ IF MoveAllowed(status[i], quantity[i], d, n)
                THEN Await(w, "move", [item |-> i, loaded |-> quantity[i],
                                       status |-> status[i],
                                       direction |-> d, change |-> n])
                ELSE Answer(w, 409)
    /\ UNCHANGED <<table, stock, opening>>

(* apply_transaction's COMMIT: the ledger row and the quantity computed    *)
(* from the loaded copy, in one transaction.                               *)
MoveCommit(w) ==
    /\ pc[w] = "move"
    /\ LET m   == job[w]
           new == Moved(m.loaded, m.direction, m.change)
       IN
       \/ /\ Storable(new)
          /\ quantity' = [quantity EXCEPT ![m.item] = new]
          /\ \/ /\ m.direction = "in"
                /\ received' = [received EXCEPT ![m.item] = @ + m.change]
                /\ issued' = issued
             \/ /\ m.direction = "out"
                /\ issued' = [issued EXCEPT ![m.item] = @ + m.change]
                /\ received' = received
          /\ overtaken' = IF quantity[m.item] = m.loaded
                          THEN overtaken
                          ELSE overtaken \cup {m.item}
          /\ untimely' = IF status[m.item] = m.status
                         THEN untimely
                         ELSE untimely \cup {m.item}
          /\ Commit(w, "inventory.transaction", 201)
          /\ UNCHANGED <<table, opening>>
       \/ /\ ~Storable(new)
          /\ Abandon(w, 500)
          /\ UNCHANGED <<table, stock, opening>>

(* What no service does by itself: refusal, the audit row, a dying request. *)
Around(w) ==
    /\ Forbid(w) \/ RecordAudit(w) \/ Fail(w)
    /\ UNCHANGED <<table, stock, opening>>

Step(w) ==
    \/ CreateLookup(w) \/ CreateCommit(w)
    \/ UpdateLoad(w)   \/ UpdateCommit(w)
    \/ MoveLoad(w)     \/ MoveCommit(w)
    \/ Around(w)

Next == \E w \in Workers : Step(w)

Spec == Init /\ [][Next]_vars

-----------------------------------------------------------------------------
(* Properties *)

TablesTyped ==
    /\ rows \subseteq Items
    /\ sku \in [Items -> Skus \cup {NoSku}]
    /\ quantity \in [Items -> Int]
    /\ status \in [Items -> Statuses]
    /\ received \in [Items -> Nat]
    /\ issued \in [Items -> Nat]
    /\ opening \in [Items -> Nat]
    /\ overtaken \subseteq Items
    /\ untimely \subseteq Items

JobsTyped ==
    \A w \in Workers :
        /\ pc[w] = "create" => job[w] \in CreateJob
        /\ pc[w] = "update" => job[w] \in UpdateJob
        /\ pc[w] = "move" => job[w] \in MoveJob

(* Every column, counter and held job has its type, in particular what a   *)
(* worker holds fits the phase it is in.                                   *)
TypeOK == TablesTyped /\ JobsTyped /\ HandlerTyped(Phases)

(* However requests interleave, a stored quantity is never negative and    *)
(* never wider than its column: each write comes from a checked copy.      *)
StockInRange == \A i \in Items : quantity[i] \in 0..MaxInt

(* Two rows never share a SKU, though every create_item checks with a      *)
(* SELECT that another request may overtake.                               *)
UniqueSku == \A i, j \in rows : sku[i] = sku[j] => i = j

(* An item's quantity is what it opened with plus its ledger, unless some  *)
(* movement was computed from an outdated copy: apply_transaction's read   *)
(* and write being apart is the only way the books come to differ.         *)
LedgerUnlessOvertaken ==
    \A i \in rows \ overtaken :
        quantity[i] = opening[i] + received[i] - issued[i]

(* The books balance outright, and no movement came late.  This is what    *)
(* apply_transaction gives when no two requests overlap.                   *)
LedgerBalance ==
    /\ \A i \in rows : quantity[i] = opening[i] + received[i] - issued[i]
    /\ overtaken \cup untimely = {}

(* The quantity of an existing item changes only in a step that also adds  *)
(* a ledger row for that item, whatever else commits at the same time: no  *)
(* handler touches one without the other.                                  *)
QuantityMovesWithLedger ==
    [][\A i \in rows : quantity'[i] # quantity[i] =>
          received'[i] + issued'[i] > received[i] + issued[i]]_vars

(* No item ever issues more than it was opened with plus what it received: *)
(* services/inventory.py:108 promises that stock cannot go below zero.     *)
NeverOversold == \A i \in rows : issued[i] <= opening[i] + received[i]

(* However requests interleave, the handlers are the stock account of      *)
(* StockContract: an answer of success means exactly one of its actions,   *)
(* and only a movement whose row changed between apply_transaction's load  *)
(* and its commit is a late one.                                           *)
Contract == INSTANCE StockContract WITH excused <- overtaken \cup untimely
ImplementsContract == Contract!Spec
=============================================================================
