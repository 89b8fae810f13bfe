--------------------------- MODULE InventoryProofs ---------------------------
(***************************************************************************)
(* Proofs about Inventory for every set of workers, items, SKUs and        *)
(* quantities, every column width and every number of requests.            *)
(***************************************************************************)
EXTENDS Inventory, HandlerProofs

-----------------------------------------------------------------------------
(* Types and ranges.  A held copy is in range because the row was, and the *)
(* row is in range because the movement was checked against its copy: the  *)
(* three have to be proved together.                                       *)

(* A movement in flight has been checked against the copy it holds.        *)
MovesChecked ==
    \A w \in Workers : pc[w] = "move" =>
        /\ job[w].status = "active"
        /\ job[w].direction = "out" => job[w].change <= job[w].loaded

Local == JobsTyped /\ MovesChecked

TypeInv == TablesTyped /\ StockInRange /\ Local /\ HandlerInv(Phases)

(* The initial state is typed and in range.                                *)
LEMMA TypeInit == Init => TypeInv
<1> SUFFICES ASSUME Init PROVE TypeInv
  OBVIOUS
<1>1. HandlerInv(Phases)
  BY HandlerInitial DEF Init
<1>2. TablesTyped /\ StockInRange
  BY InventoryAssumption DEF Init, TablesTyped, StockInRange, Statuses
<1>3. Local
  BY DEF Init, HandlerInit, Local, JobsTyped, MovesChecked
<1> QED
  BY <1>1, <1>2, <1>3 DEF TypeInv

(* pc and job are functions on the workers.                                *)
LEMMA Domains == TypeInv => DOMAIN pc = Workers /\ DOMAIN job = Workers
  BY DEF TypeInv, HandlerInv, HandlerTyped

(* A worker that answers holds nothing any more.                           *)
LEMMA AnswerLocal ==
  ASSUME TypeInv, NEW w \in Workers, NEW c, Answer(w, c)
  PROVE  Local'
  BY Domains DEF TypeInv, Local, JobsTyped, MovesChecked, Answer

(* What a worker may hold while it awaits the commit of a phase.           *)
Fits(phase, j) ==
    \/ phase = "create" /\ j \in CreateJob
    \/ phase = "update" /\ j \in UpdateJob
    \/ phase = "move" /\ j \in MoveJob /\ j.status = "active"
          /\ (j.direction = "out" => j.change <= j.loaded)
    \/ phase = "audit"

(* A worker that awaits holds what its phase asks for.                     *)
LEMMA AwaitLocal ==
  ASSUME TypeInv, NEW w \in Workers, NEW phase, NEW j,
         Await(w, phase, j), Fits(phase, j)
  PROVE  Local'
  BY Domains DEF TypeInv, Local, JobsTyped, MovesChecked, Await, Fits

(* A business commit leaves nothing but the audit job behind.              *)
LEMMA CommitLocal ==
  ASSUME TypeInv, NEW w \in Workers, NEW a, NEW c, Commit(w, a, c)
  PROVE  Local'
<1>1. Fits("audit", [action |-> a, code |-> c])
  BY DEF Fits
<1> QED
  BY <1>1, AwaitLocal DEF Commit

(* Every step keeps types and ranges.                                      *)
LEMMA TypeStep == TypeInv /\ [Next]_vars => TypeInv'
<1> SUFFICES ASSUME TypeInv, [Next]_vars
             PROVE  TypeInv'
  OBVIOUS
<1> USE InventoryAssumption
<1> TablesTyped /\ StockInRange /\ Local /\ HandlerInv(Phases)
  BY DEF TypeInv
<1>0. ASSUME UNCHANGED <<table, stock, opening>>
      PROVE  TablesTyped' /\ StockInRange'
  BY <1>0 DEF TablesTyped, StockInRange, table, stock
<1>1. CASE UNCHANGED vars
  <2>1. Local'
    BY <1>1 DEF Local, JobsTyped, MovesChecked, vars, control
  <2>2. HandlerInv(Phases)'
    BY <1>1, HandlerStutter DEF vars
  <2> QED
    BY <1>0, <1>1, <2>1, <2>2 DEF vars, TypeInv
<1>2. ASSUME NEW w \in Workers, Step(w)
      PROVE  TypeInv'
  <2>1. CASE CreateLookup(w)
    <3>1. PICK s \in Skus, q \in Quantities :
             IF SkuTaken(s) THEN Answer(w, 409)
             ELSE Await(w, "create", [sku |-> s, quantity |-> q])
      BY <2>1 DEF CreateLookup
    <3>2. Fits("create", [sku |-> s, quantity |-> q])
      BY DEF Fits, CreateJob
    <3>3. Local'
      BY <3>1, <3>2, AwaitLocal, AnswerLocal
    <3>4. HandlerInv(Phases)'
      BY <2>1, <3>1, ArriveAnswer, ArriveAwait DEF CreateLookup, Phases, Codes
    <3> QED
      BY <1>0, <2>1, <3>3, <3>4 DEF CreateLookup, TypeInv
  <2>2. CASE CreateCommit(w)
    <3>0. job[w] \in CreateJob /\ pc[w] # "audit"
      BY <2>2 DEF CreateCommit, Local, JobsTyped
    <3>1. ASSUME Storable(job[w].quantity),
                 NEW i \in Items \ rows,
                 rows' = rows \cup {i},
                 sku' = [sku EXCEPT ![i] = job[w].sku],
                 quantity' = [quantity EXCEPT ![i] = job[w].quantity],
                 status' = [status EXCEPT ![i] = "active"],
                 opening' = [opening EXCEPT ![i] = job[w].quantity],
                 Commit(w, "stock_item.created", 201),
                 UNCHANGED <<received, issued, overtaken, untimely>>
          PROVE  TypeInv'
      <4>1. "stock_item.created" \in AuditActions
        BY DEF AuditActions
      <4>2. HandlerInv(Phases)'
        BY <3>0, <3>1, <4>1, CommitKeeps
      <4>3. job[w].quantity \in 0..MaxInt /\ job[w].sku \in Skus
        BY <3>0, <3>1 DEF Storable, CreateJob
      <4>4. TablesTyped'
        BY <3>1, <4>3 DEF TablesTyped, Statuses
      <4>5. StockInRange'
        BY <3>1, <4>3 DEF StockInRange, TablesTyped
      <4> QED
        BY <3>1, <4>2, <4>4, <4>5, CommitLocal DEF TypeInv
    <3>2. ASSUME NEW c \in {409, 500}, Abandon(w, c),
                 UNCHANGED <<table, stock, opening>>
          PROVE  TypeInv'
      <4>1. HandlerInv(Phases)'
        BY <3>0, <3>2, AbandonKeeps DEF Codes
      <4> QED
        BY <1>0, <3>2, <4>1, AnswerLocal DEF Abandon, TypeInv
    <3> QED
      BY <2>2, <3>1, <3>2 DEF CreateCommit
  <2>3. CASE UpdateLoad(w)
    <3>1. PICK i \in Items, s \in Statuses \cup {NoStatus} :
             IF i \in rows
             THEN Await(w, "update",
                        [item |-> i, loaded |-> status[i], status |-> s])
             ELSE Answer(w, 404)
      BY <2>3 DEF UpdateLoad
    <3>2. Fits("update", [item |-> i, loaded |-> status[i], status |-> s])
      BY DEF Fits, UpdateJob, TablesTyped
    <3>3. Local'
      BY <3>1, <3>2, AwaitLocal, AnswerLocal
    <3>4. HandlerInv(Phases)'
      BY <2>3, <3>1, ArriveAnswer, ArriveAwait DEF UpdateLoad, Phases, Codes
    <3> QED
      BY <1>0, <2>3, <3>3, <3>4 DEF UpdateLoad, TypeInv
  <2>4. CASE UpdateCommit(w)
    <3>1. job[w] \in UpdateJob /\ pc[w] # "audit"
      BY <2>4 DEF UpdateCommit, Local, JobsTyped
    <3>2. HandlerInv(Phases)'
      BY <2>4, <3>1, CommitKeeps, "stock_item.updated" \in AuditActions
      DEF UpdateCommit, AuditActions
    <3>3. status' \in [Items -> Statuses]
      BY <2>4, <3>1 DEF UpdateCommit, UpdateJob, TablesTyped
    <3>4. TablesTyped' /\ StockInRange'
      BY <2>4, <3>3 DEF UpdateCommit, TablesTyped, StockInRange, stock
    <3> QED
      BY <2>4, <3>2, <3>4, CommitLocal DEF UpdateCommit, TypeInv
  <2>5. CASE MoveLoad(w)
    <3>1. PICK i \in Items, d \in Directions, n \in Changes :
             \/ Answer(w, 404)
             \/ Answer(w, 409)
             \/ /\ MoveAllowed(status[i], quantity[i], d, n)
                /\ Await(w, "move", [item |-> i, loaded |-> quantity[i],
                                     status |-> status[i],
                                     direction |-> d, change |-> n])
      BY <2>5 DEF MoveLoad
    <3>2. ASSUME MoveAllowed(status[i], quantity[i], d, n)
          PROVE  Fits("move", [item |-> i, loaded |-> quantity[i],
                               status |-> status[i],
                               direction |-> d, change |-> n])
      BY <3>2 DEF Fits, MoveJob, MoveAllowed, StockInRange, Statuses
    <3>3. Local'
      BY <3>1, <3>2, AwaitLocal, AnswerLocal
    <3>4. HandlerInv(Phases)'
      BY <2>5, <3>1, ArriveAnswer, ArriveAwait DEF MoveLoad, Phases, Codes
    <3> QED
      BY <1>0, <2>5, <3>3, <3>4 DEF MoveLoad, TypeInv
  <2>6. CASE MoveCommit(w)
    <3> DEFINE m   == job[w]
               new == Moved(m.loaded, m.direction, m.change)
    <3>0. /\ m \in MoveJob /\ (m.direction = "out" => m.change <= m.loaded)
          /\ pc[w] # "audit"
      BY <2>6 DEF MoveCommit, Local, JobsTyped, MovesChecked
    <3>1. CASE Storable(new)
      <4>1. /\ quantity' = [quantity EXCEPT ![m.item] = new]
            /\ Commit(w, "inventory.transaction", 201)
            /\ overtaken' = IF quantity[m.item] = m.loaded
                            THEN overtaken ELSE overtaken \cup {m.item}
            /\ untimely' = IF status[m.item] = m.status
                           THEN untimely ELSE untimely \cup {m.item}
            /\ UNCHANGED <<table, opening>>
        BY <2>6, <3>1 DEF MoveCommit
      <4>2. HandlerInv(Phases)'
        BY <3>0, <4>1, CommitKeeps, "inventory.transaction" \in AuditActions
        DEF AuditActions
      <4>3. new \in 0..MaxInt
        <5>1. /\ m.loaded \in 0..MaxInt /\ m.change \in Nat
              /\ m.direction \in {"in", "out"}
          BY <3>0 DEF MoveJob, Changes, Directions
        <5> QED
          BY <3>0, <3>1, <5>1 DEF Storable, Moved
      <4>4. received' \in [Items -> Nat] /\ issued' \in [Items -> Nat]
        <5>1. m.item \in Items /\ m.change \in Nat
          BY <3>0 DEF MoveJob, Changes
        <5>2. \/ /\ received' = [received EXCEPT ![m.item] = @ + m.change]
                 /\ issued' = issued
              \/ /\ issued' = [issued EXCEPT ![m.item] = @ + m.change]
                 /\ received' = received
          BY <2>6, <3>1 DEF MoveCommit
        <5>3. received \in [Items -> Nat] /\ issued \in [Items -> Nat]
          BY DEF TablesTyped
        <5> HIDE DEF m
        <5> QED
          BY ONLY <5>1, <5>2, <5>3
      <4>5. overtaken' \subseteq Items /\ untimely' \subseteq Items
        BY <3>0, <4>1 DEF TablesTyped, MoveJob
      <4>6. quantity' \in [Items -> Int]
        <5> HIDE DEF new, m
        <5>1. new \in Int
          BY <4>3
        <5>2. quantity \in [Items -> Int]
          BY DEF TablesTyped
        <5>3. quantity' = [quantity EXCEPT ![m.item] = new]
          BY <4>1
        <5> QED
          BY ONLY <5>1, <5>2, <5>3
      <4>7. TablesTyped'
        BY <4>1, <4>4, <4>5, <4>6 DEF TablesTyped, table
      <4>8. StockInRange'
        BY <4>1, <4>3 DEF StockInRange, TablesTyped
      <4> QED
        BY <4>1, <4>2, <4>7, <4>8, CommitLocal DEF TypeInv
    <3>2. CASE ~Storable(new)
      <4>1. Abandon(w, 500) /\ UNCHANGED <<table, stock, opening>>
        BY <2>6, <3>2 DEF MoveCommit
      <4>2. HandlerInv(Phases)'
        BY <3>0, <4>1, AbandonKeeps, 500 \in Codes DEF Codes
      <4> QED
        BY <1>0, <4>1, <4>2, AnswerLocal DEF Abandon, TypeInv
    <3> QED
      BY <3>1, <3>2
  <2>7. CASE Around(w)
    <3>1. HandlerInv(Phases)' /\ Local'
      BY <2>7, AroundKeeps, AnswerLocal DEF Around
    <3> QED
      BY <1>0, <2>7, <3>1 DEF Around, TypeInv
  <2> QED
    BY <1>2, <2>1, <2>2, <2>3, <2>4, <2>5, <2>6, <2>7 DEF Step
<1> QED
  BY <1>1, <1>2 DEF Next

(* The state always has its types, and no interleaving drives a stored     *)
(* quantity below zero or beyond its column.                               *)
THEOREM TypeAndRange == Spec => [](TypeOK /\ StockInRange)
<1>1. TypeInv => TypeOK /\ StockInRange
  BY DEF TypeInv, TypeOK, Local, HandlerInv
<1> QED
  BY TypeInit, TypeStep, <1>1, PTL DEF Spec

(* Every business commit ends as one audit row or as one request that died *)
(* before writing it: no row is written twice, and none without a commit.  *)
THEOREM AuditIsAccounted == Spec => []AuditAccounted
<1>1. TypeInv => AuditAccounted
  BY DEF TypeInv, HandlerInv
<1> QED
  BY TypeInit, TypeStep, <1>1, PTL DEF Spec

-----------------------------------------------------------------------------
(* The books: SKUs stay unique, and an item's quantity follows its ledger  *)
(* until a movement overwrites it from an outdated copy.  A new item takes *)
(* over a key whose ledger has to be empty, and held keys have to have a   *)
(* row; both are carried along.                                            *)

JobsRefer ==
    \A w \in Workers : pc[w] \in {"update", "move"} => job[w].item \in rows

FreshLedger ==
    \A i \in Items \ rows : received[i] = 0 /\ issued[i] = 0 /\ i \notin overtaken

Books == FreshLedger /\ UniqueSku /\ LedgerUnlessOvertaken

BooksInv == TypeInv /\ JobsRefer /\ Books

(* The initial books are empty.                                            *)
LEMMA BooksInit == Init => BooksInv
<1> SUFFICES ASSUME Init PROVE BooksInv
  OBVIOUS
<1>1. TypeInv
  BY TypeInit
<1>2. JobsRefer /\ Books
  BY DEF Init, HandlerInit, JobsRefer, Books, FreshLedger, UniqueSku, LedgerUnlessOvertaken
<1> QED
  BY <1>1, <1>2 DEF BooksInv

(* A handler that answers without a commit leaves the books as they are.   *)
LEMMA AnswerBooks ==
  ASSUME BooksInv, NEW w \in Workers, NEW c, Answer(w, c),
         UNCHANGED <<rows, sku, stock, opening>>
  PROVE  JobsRefer' /\ Books'
<1>1. JobsRefer'
  BY Domains DEF BooksInv, JobsRefer, Answer
<1>2. Books'
  BY DEF BooksInv, Books, FreshLedger, UniqueSku, LedgerUnlessOvertaken, stock
<1> QED
  BY <1>1, <1>2

(* So does one that goes on to await with a key that has a row.            *)
LEMMA AwaitBooks ==
  ASSUME BooksInv, NEW w \in Workers, NEW phase, NEW j, Await(w, phase, j),
         phase = "create" \/ j.item \in rows,
         UNCHANGED <<rows, sku, stock, opening>>
  PROVE  JobsRefer' /\ Books'
<1>1. JobsRefer'
  BY Domains DEF BooksInv, JobsRefer, Await
<1>2. Books'
  BY DEF BooksInv, Books, FreshLedger, UniqueSku, LedgerUnlessOvertaken, stock
<1> QED
  BY <1>1, <1>2

(* A business commit takes no row away from the others.                    *)
LEMMA CommitRefers ==
  ASSUME BooksInv, NEW w \in Workers, NEW a, NEW c,
         rows \subseteq rows', Commit(w, a, c)
  PROVE  JobsRefer'
  BY Domains DEF BooksInv, JobsRefer, Commit, Await

(* create_item's commit: a fresh key, a free SKU, an empty ledger.         *)
LEMMA CreateBooks ==
  ASSUME BooksInv, NEW w \in Workers, CreateCommit(w)
  PROVE  JobsRefer' /\ Books'
<1> DEFINE new == job[w]
<1>1. CASE \E c \in {409, 500} :
              Abandon(w, c) /\ UNCHANGED <<table, stock, opening>>
  BY <1>1, AnswerBooks DEF Abandon, table
<1>2. ASSUME NEW i \in Items \ rows,
             ~SkuTaken(new.sku),
             rows' = rows \cup {i},
             sku' = [sku EXCEPT ![i] = new.sku],
             quantity' = [quantity EXCEPT ![i] = new.quantity],
             opening' = [opening EXCEPT ![i] = new.quantity],
             Commit(w, "stock_item.created", 201),
             UNCHANGED <<received, issued, overtaken, untimely>>
      PROVE  JobsRefer' /\ Books'
  <2>1. JobsRefer'
    BY <1>2, CommitRefers
  <2>2. FreshLedger'
    BY <1>2 DEF BooksInv, Books, FreshLedger
  <2>3. UniqueSku'
    <3>1. ASSUME NEW k \in rows PROVE sku'[k] = sku[k] /\ sku[k] # new.sku
      BY <1>2 DEF BooksInv, TypeInv, TablesTyped, SkuTaken
    <3>2. sku'[i] = new.sku
      BY <1>2 DEF BooksInv, TypeInv, TablesTyped
    <3> QED
      BY <1>2, <3>1, <3>2 DEF BooksInv, Books, UniqueSku
  <2>4. LedgerUnlessOvertaken'
    <3>0. new.quantity \in Int
      <4>1. new \in CreateJob
        BY DEF CreateCommit, BooksInv, TypeInv, Local, JobsTyped
      <4>2. new.quantity \in Quantities
        BY <4>1 DEF CreateJob
      <4>3. \A q \in Quantities : q \in Int
        BY InventoryAssumption
      <4> QED
        BY <4>2, <4>3, Zenon
    <3>1. received[i] = 0 /\ issued[i] = 0
      BY DEF BooksInv, Books, FreshLedger
    <3>2. quantity'[i] = new.quantity /\ opening'[i] = new.quantity
      BY <1>2 DEF BooksInv, TypeInv, TablesTyped
    <3>3. ASSUME NEW k \in rows
          PROVE  quantity'[k] = quantity[k] /\ opening'[k] = opening[k]
      BY <1>2 DEF BooksInv, TypeInv, TablesTyped
    <3> HIDE DEF new
    <3> QED
      BY <1>2, <3>0, <3>1, <3>2, <3>3 DEF BooksInv, Books, LedgerUnlessOvertaken
  <2> QED
    BY <2>1, <2>2, <2>3, <2>4 DEF Books
<1> QED
  BY <1>1, <1>2 DEF CreateCommit

(* apply_transaction's commit: from an up-to-date copy it moves quantity   *)
(* and ledger by the same amount, otherwise the item counts as overtaken.  *)
LEMMA MoveBooks ==
  ASSUME BooksInv, NEW w \in Workers, MoveCommit(w)
  PROVE  JobsRefer' /\ Books'
<1> DEFINE m   == job[w]
           new == Moved(m.loaded, m.direction, m.change)
<1>0. /\ m.item \in rows /\ m.item \in Items
      /\ m.loaded \in Int /\ m.change \in Int
  <2>1. m \in MoveJob /\ m.item \in rows
    BY DEF MoveCommit, BooksInv, TypeInv, Local, JobsTyped, JobsRefer
  <2>2. m.item \in Items /\ m.loaded \in 0..MaxInt /\ m.change \in Changes
    BY <2>1 DEF MoveJob
  <2>3. \A n \in 0..MaxInt \cup Changes : n \in Int
    BY InventoryAssumption DEF Changes
  <2> QED
    BY <2>1, <2>2, <2>3, Zenon
<1>1. CASE ~Storable(new)
  BY <1>1, AnswerBooks DEF MoveCommit, Abandon, table
<1>2. CASE Storable(new)
  <2>1. /\ quantity' = [quantity EXCEPT ![m.item] = new]
        /\ overtaken' = IF quantity[m.item] = m.loaded
                        THEN overtaken ELSE overtaken \cup {m.item}
        /\ Commit(w, "inventory.transaction", 201)
        /\ rows' = rows /\ sku' = sku /\ opening' = opening
    BY <1>2 DEF MoveCommit, table
  <2>2. \/ /\ m.direction = "in"
           /\ received' = [received EXCEPT ![m.item] = @ + m.change]
           /\ issued' = issued
        \/ /\ m.direction = "out"
           /\ issued' = [issued EXCEPT ![m.item] = @ + m.change]
           /\ received' = received
    BY <1>2 DEF MoveCommit
  <2>3. JobsRefer'
    BY <1>0, <2>1, CommitRefers
  <2>4. /\ quantity \in [Items -> Int] /\ received \in [Items -> Nat]
        /\ issued \in [Items -> Nat] /\ opening \in [Items -> Nat]
        /\ rows \subseteq Items
    BY DEF BooksInv, TypeInv, TablesTyped
  <2>5. ASSUME NEW k \in Items, k # m.item
        PROVE  /\ quantity'[k] = quantity[k]
               /\ received'[k] = received[k] /\ issued'[k] = issued[k]
    BY <2>1, <2>2, <2>4, <2>5
  <2>6. FreshLedger' /\ UniqueSku'
    <3> HIDE DEF m, new
    <3> QED
      BY <1>0, <2>1, <2>5 DEF BooksInv, Books, FreshLedger, UniqueSku
  <2>7. LedgerUnlessOvertaken'
    <3>1. CASE quantity[m.item] # m.loaded
      <4> HIDE DEF m, new
      <4> QED
        BY <2>1, <2>4, <2>5, <3>1 DEF BooksInv, Books, LedgerUnlessOvertaken
    <3>2. CASE quantity[m.item] = m.loaded
      <4>1. quantity'[m.item] = new
        BY <1>0, <2>1, <2>4
      <4>2. new + issued'[m.item] - issued[m.item]
              = m.loaded + received'[m.item] - received[m.item]
        <5>1. CASE m.direction = "in"
          <6>1. new = m.loaded + m.change
            BY <5>1 DEF Moved
          <6>2. received'[m.item] = received[m.item] + m.change /\ issued' = issued
            BY <1>0, <2>2, <2>4, <5>1
          <6> HIDE DEF m, new
          <6> QED
            BY <1>0, <2>4, <6>1, <6>2
        <5>2. CASE m.direction = "out"
          <6>1. new = m.loaded - m.change
            BY <5>2 DEF Moved
          <6>2. issued'[m.item] = issued[m.item] + m.change /\ received' = received
            BY <1>0, <2>2, <2>4, <5>2
          <6> HIDE DEF m, new
          <6> QED
            BY <1>0, <2>4, <6>1, <6>2
        <5> QED
          BY <2>2, <5>1, <5>2
      <4>3. overtaken' = overtaken
        BY <2>1, <3>2
      <4>4. received'[m.item] \in Int /\ issued'[m.item] \in Int /\ new \in Int
        <5>1. m.direction \in {"in", "out"}
          BY <2>2
        <5>2. new \in Int
          BY <1>0, <5>1 DEF Moved
        <5> HIDE DEF m, new
        <5> QED
          BY <1>0, <2>2, <2>4, <5>2
      <4> HIDE DEF m, new
      <4>5. ASSUME NEW k \in rows \ overtaken
            PROVE  quantity'[k] = opening[k] + received'[k] - issued'[k]
        <5>1. quantity[k] = opening[k] + received[k] - issued[k]
          BY DEF BooksInv, Books, LedgerUnlessOvertaken
        <5>2. CASE k = m.item
          <6>1. /\ received[k] \in Int /\ issued[k] \in Int /\ opening[k] \in Int
                /\ received'[k] \in Int /\ issued'[k] \in Int /\ new \in Int
            BY <2>4, <4>4, <5>2
          <6>2. new + issued'[k] - issued[k]
                  = quantity[k] + received'[k] - received[k]
            BY <3>2, <4>2, <5>2
          <6>3. quantity'[k] = new
            BY <4>1, <5>2
          <6> QED
            BY ONLY <5>1, <6>1, <6>2, <6>3
        <5>3. CASE k # m.item
          BY <2>4, <2>5, <5>1, <5>3
        <5> QED
          BY <5>2, <5>3
      <4> QED
        BY <2>1, <4>3, <4>5 DEF LedgerUnlessOvertaken
    <3> QED
      BY <3>1, <3>2
  <2> QED
    BY <2>3, <2>6, <2>7 DEF Books
<1> QED
  BY <1>1, <1>2

(* Every step keeps the books.                                             *)
LEMMA BooksStep == BooksInv /\ [Next]_vars => BooksInv'
<1> SUFFICES ASSUME BooksInv, [Next]_vars
             PROVE  BooksInv'
  OBVIOUS
<1>0. TypeInv'
  BY TypeStep DEF BooksInv
<1>1. CASE UNCHANGED vars
  <2>1. JobsRefer' /\ Books'
    BY <1>1 DEF BooksInv, JobsRefer, Books, FreshLedger, UniqueSku,
       LedgerUnlessOvertaken, vars, table, stock, control
  <2> QED
    BY <1>0, <2>1 DEF BooksInv
<1>2. ASSUME NEW w \in Workers, Step(w)
      PROVE  JobsRefer' /\ Books'
  <2>1. CASE CreateLookup(w)
    BY <2>1, AnswerBooks, AwaitBooks DEF CreateLookup, table
  <2>2. CASE CreateCommit(w)
    BY <2>2, CreateBooks
  <2>3. CASE UpdateLoad(w)
    BY <2>3, AnswerBooks, AwaitBooks DEF UpdateLoad, table
  <2>4. CASE UpdateCommit(w)
    <3>1. JobsRefer'
      BY <2>4, CommitRefers DEF UpdateCommit
    <3>2. Books'
      BY <2>4 DEF UpdateCommit, BooksInv, Books, FreshLedger, UniqueSku,
         LedgerUnlessOvertaken, stock
    <3> QED
      BY <3>1, <3>2
  <2>5. CASE MoveLoad(w)
    BY <2>5, AnswerBooks, AwaitBooks DEF MoveLoad, table
  <2>6. CASE MoveCommit(w)
    BY <2>6, MoveBooks
  <2>7. CASE Around(w)
    <3>1. HandlerInv(Phases)
      BY DEF BooksInv, TypeInv
    <3>2. \E c : Answer(w, c)
      BY <2>7, <3>1, AroundKeeps DEF Around
    <3> QED
      BY <2>7, <3>2, AnswerBooks DEF Around, table
  <2> QED
    BY <1>2, <2>1, <2>2, <2>3, <2>4, <2>5, <2>6, <2>7 DEF Step
<1> QED
  BY <1>0, <1>1, <1>2 DEF Next, BooksInv

(* However create_item requests race, no two rows share a SKU; and however *)
(* movements race, a quantity departs from opening plus ledger only if     *)
(* some movement of that item was computed from an outdated copy.          *)
THEOREM BooksHold == Spec => [](UniqueSku /\ LedgerUnlessOvertaken)
<1>1. BooksInv => UniqueSku /\ LedgerUnlessOvertaken
  BY DEF BooksInv, Books
<1> QED
  BY BooksInit, BooksStep, <1>1, PTL DEF Spec

-----------------------------------------------------------------------------
(* Quantity and ledger move together. *)

(* No step changes the quantity of an existing item without a ledger row.  *)
LEMMA MoveLedger ==
  ASSUME TypeInv, NEW w \in Workers, MoveCommit(w),
         NEW i \in rows, quantity'[i] # quantity[i]
  PROVE  received'[i] + issued'[i] > received[i] + issued[i]
<1> DEFINE m   == job[w]
           new == Moved(m.loaded, m.direction, m.change)
<1>0. /\ quantity \in [Items -> Int] /\ received \in [Items -> Nat]
      /\ issued \in [Items -> Nat] /\ i \in Items
  BY DEF TypeInv, TablesTyped
<1>1. Storable(new)
  BY DEF MoveCommit, stock
<1>2. quantity' = [quantity EXCEPT ![m.item] = new]
  BY <1>1 DEF MoveCommit
<1>3. i = m.item
  <2> HIDE DEF m, new
  <2> QED
    BY <1>0, <1>2
<1>4. m.change \in Nat \ {0}
  <2>1. m \in MoveJob
    BY DEF MoveCommit, TypeInv, Local, JobsTyped
  <2>2. m.change \in Changes
    BY <2>1 DEF MoveJob
  <2>3. \A n \in Changes : n \in Nat \ {0}
    BY InventoryAssumption DEF Changes
  <2> QED
    BY <2>2, <2>3, Zenon
<1>5. \/ /\ received' = [received EXCEPT ![m.item] = @ + m.change]
         /\ issued' = issued
      \/ /\ issued' = [issued EXCEPT ![m.item] = @ + m.change]
         /\ received' = received
  BY <1>1 DEF MoveCommit
<1> HIDE DEF m, new
<1> QED
  BY <1>0, <1>3, <1>4, <1>5

(* An item's quantity changes only together with its ledger, whatever      *)
(* other requests commit at the same time.                                 *)
THEOREM QuantityFollowsLedger == Spec => QuantityMovesWithLedger
<1>1. TypeInv /\ [Next]_vars =>
        [\A i \in rows : quantity'[i] # quantity[i] =>
            received'[i] + issued'[i] > received[i] + issued[i]]_vars
  <2> SUFFICES ASSUME TypeInv, NEW w \in Workers, Step(w),
                      NEW i \in rows, quantity'[i] # quantity[i]
               PROVE  received'[i] + issued'[i] > received[i] + issued[i]
    BY DEF Next
  <2>1. MoveCommit(w)
    <3>1. ASSUME CreateCommit(w) PROVE quantity'[i] = quantity[i]
      <4>1. CASE UNCHANGED stock
        BY <4>1 DEF stock
      <4>2. CASE \E k \in Items \ rows :
                    quantity' = [quantity EXCEPT ![k] = job[w].quantity]
        BY <4>2 DEF TypeInv, TablesTyped
      <4> QED
        BY <3>1, <4>1, <4>2 DEF CreateCommit
    <3>2. ~MoveCommit(w) => quantity' = quantity \/ CreateCommit(w)
      BY DEF Step, CreateLookup, UpdateLoad, UpdateCommit, MoveLoad, Around, stock
    <3> QED
      BY <3>1, <3>2
  <2> QED
    BY <2>1, MoveLedger
<1> QED
  BY TypeInit, TypeStep, <1>1, PTL DEF Spec, QuantityMovesWithLedger

-----------------------------------------------------------------------------
(* The handlers implement the stock account.  A movement finds its row as  *)
(* it was loaded, and then it is a Receive or an Issue, or it finds it     *)
(* changed, and then it is a late movement.                                *)

(* apply_transaction's commit is one movement on the account.              *)
LEMMA MoveImplements ==
  ASSUME BooksInv, NEW w \in Workers, MoveCommit(w)
  PROVE  [Contract!Next]_Contract!vars
<1> USE DEF Contract!vars
<1> DEFINE m   == job[w]
           new == Moved(m.loaded, m.direction, m.change)
<1>1. /\ m \in MoveJob /\ m.item \in rows /\ m.item \in Items
      /\ m.status = "active"
      /\ m.direction = "out" => m.change <= m.loaded
  BY DEF MoveCommit, BooksInv, JobsRefer, TypeInv, MovesChecked, Local,
         JobsTyped, MoveJob
<1>2. CASE ~Storable(new)
  BY <1>2 DEF MoveCommit, table, stock
<1>3. CASE Storable(new)
  <2>1. /\ quantity' = [quantity EXCEPT ![m.item] = new]
        /\ rows' = rows /\ status' = status
        /\ overtaken' = IF quantity[m.item] = m.loaded
                        THEN overtaken ELSE overtaken \cup {m.item}
        /\ untimely' = IF status[m.item] = m.status
                       THEN untimely ELSE untimely \cup {m.item}
    BY <1>3 DEF MoveCommit, table
  <2>2. /\ m.change \in Nat \ {0} /\ m.loaded \in Nat /\ m.loaded <= MaxInt
        /\ m.direction \in {"in", "out"}
    <3>1. /\ m.change \in Changes /\ m.loaded \in 0..MaxInt
          /\ m.direction \in {"in", "out"}
      BY <1>1 DEF MoveJob, Directions
    <3>2. \A n \in Changes : n \in Nat \ {0}
      BY InventoryAssumption DEF Changes
    <3>3. m.loaded \in Nat /\ m.loaded <= MaxInt
      <4> HIDE DEF m
      <4> QED
        BY <3>1, InventoryAssumption
    <3> QED
      BY <3>1, <3>2, <3>3, Zenon
  <2>3. CASE m.direction = "in"
    <3>1. /\ new = m.loaded + m.change
          /\ received' = [received EXCEPT ![m.item] = @ + m.change] /\ issued' = issued
      BY <1>3, <2>3 DEF Moved, MoveCommit
    <3>2. new \in 0..MaxInt /\ m.change \in 1..MaxInt /\ m.change <= new
      <4>1. new \in (-MaxInt - 1)..MaxInt
        BY <1>3 DEF Storable
      <4> HIDE DEF m, new
      <4> QED
        BY <2>2, <3>1, <4>1, InventoryAssumption
    <3>3. CASE quantity[m.item] = m.loaded /\ status[m.item] = "active"
      <4>1. overtaken' = overtaken /\ untimely' = untimely
        BY <1>1, <2>1, <3>3
      <4>2. Contract!Receive(m.item, m.change)
        <5> HIDE DEF m, new
        <5> QED
          BY <1>1, <2>1, <3>1, <3>2, <3>3, <4>1 DEF Contract!Receive
      <4> QED
        BY <1>1, <3>2, <4>2 DEF Contract!Next
    <3>4. CASE ~(quantity[m.item] = m.loaded /\ status[m.item] = "active")
      <4>1. overtaken' \cup untimely' = (overtaken \cup untimely) \cup {m.item}
        BY <1>1, <2>1, <3>4
      <4>2. Contract!MoveLate(m.item, new, m.change)
        <5> HIDE DEF m, new
        <5> QED
          BY <1>1, <2>1, <3>1, <3>2, <4>1 DEF Contract!MoveLate
      <4> QED
        BY <1>1, <3>2, <4>2 DEF Contract!Next
    <3> QED
      BY <3>3, <3>4
  <2>4. CASE m.direction = "out"
    <3>1. /\ new = m.loaded - m.change
          /\ issued' = [issued EXCEPT ![m.item] = @ + m.change] /\ received' = received
      BY <1>3, <2>4 DEF Moved, MoveCommit
    <3>2. new \in 0..MaxInt /\ m.change \in 1..MaxInt /\ new + m.change <= MaxInt
      <4> HIDE DEF m, new
      <4> QED
        BY <1>1, <2>2, <2>4, <3>1, InventoryAssumption
    <3>3. CASE quantity[m.item] = m.loaded /\ status[m.item] = "active"
      <4>1. overtaken' = overtaken /\ untimely' = untimely
        BY <1>1, <2>1, <3>3
      <4>2. Contract!Issue(m.item, m.change)
        <5> HIDE DEF m, new
        <5> QED
          BY <1>1, <2>1, <2>4, <3>1, <3>2, <3>3, <4>1 DEF Contract!Issue
      <4> QED
        BY <1>1, <3>2, <4>2 DEF Contract!Next
    <3>4. CASE ~(quantity[m.item] = m.loaded /\ status[m.item] = "active")
      <4>1. overtaken' \cup untimely' = (overtaken \cup untimely) \cup {m.item}
        BY <1>1, <2>1, <3>4
      <4>2. Contract!MoveLate(m.item, new, m.change)
        <5> HIDE DEF m, new
        <5> QED
          BY <1>1, <2>1, <3>1, <3>2, <4>1 DEF Contract!MoveLate
      <4> QED
        BY <1>1, <3>2, <4>2 DEF Contract!Next
    <3> QED
      BY <3>3, <3>4
  <2> QED
    BY <2>2, <2>3, <2>4
<1> QED
  BY <1>2, <1>3

(* Every step is a step of the account or leaves the account alone.        *)
LEMMA ContractStep ==
  ASSUME BooksInv, [Next]_vars
  PROVE  [Contract!Next]_Contract!vars
<1> USE DEF Contract!vars
<1>0. TypeInv /\ JobsRefer
  BY DEF BooksInv
<1>1. CASE UNCHANGED <<table, stock>>
  BY <1>1 DEF table, stock
<1>2. ASSUME NEW w \in Workers, CreateCommit(w)
      PROVE  [Contract!Next]_Contract!vars
  <2> DEFINE new == job[w]
  <2>1. CASE UNCHANGED <<table, stock>>
    BY <2>1 DEF table, stock
  <2>2. ASSUME Storable(new.quantity),
               NEW i \in Items \ rows,
               rows' = rows \cup {i},
               quantity' = [quantity EXCEPT ![i] = new.quantity],
               status' = [status EXCEPT ![i] = "active"],
               UNCHANGED <<received, issued, overtaken, untimely>>
        PROVE  Contract!Next
    <3>1. new.quantity \in Nat
      <4>1. new.quantity \in Quantities
        BY <1>0, <1>2 DEF CreateCommit, TypeInv, Local, JobsTyped, CreateJob
      <4>2. \A q \in Quantities : q \in Nat
        BY InventoryAssumption
      <4> QED
        BY <4>1, <4>2, Zenon
    <3>2. new.quantity \in 0..MaxInt
      BY <2>2, <3>1, InventoryAssumption DEF Storable
    <3>3. Contract!Open(i, new.quantity)
      BY <2>2 DEF Contract!Open
    <3> HIDE DEF new
    <3> QED
      BY <3>2, <3>3 DEF Contract!Next
  <2> QED
    BY <1>2, <2>1, <2>2 DEF CreateCommit
<1>3. ASSUME NEW w \in Workers, UpdateCommit(w)
      PROVE  [Contract!Next]_Contract!vars
  <2>1. job[w] \in UpdateJob /\ job[w].item \in rows /\ job[w].item \in Items
    BY <1>0, <1>3 DEF UpdateCommit, JobsRefer, TypeInv, Local, JobsTyped, UpdateJob
  <2>2. CASE status' = status
    BY <1>3, <2>2 DEF UpdateCommit, stock
  <2>3. CASE /\ status' = [status EXCEPT ![job[w].item] = job[w].status]
             /\ job[w].status # NoStatus
    <3>1. job[w].status \in Statuses
      BY <2>1, <2>3 DEF UpdateJob
    <3>2. Contract!SetStatus(job[w].item, job[w].status)
      BY <1>3, <2>1, <2>3 DEF UpdateCommit, stock, Contract!SetStatus
    <3> QED
      BY <2>1, <3>1, <3>2 DEF Contract!Next, Statuses
  <2> QED
    BY <1>3, <2>2, <2>3 DEF UpdateCommit
<1>4. ASSUME NEW w \in Workers, Step(w)
      PROVE  \/ UNCHANGED <<table, stock>>
             \/ CreateCommit(w) \/ UpdateCommit(w) \/ MoveCommit(w)
  BY <1>4 DEF Step, CreateLookup, UpdateLoad, MoveLoad, Around
<1> QED
  BY <1>1, <1>2, <1>3, <1>4, MoveImplements DEF Next, vars

(* The initial tables are the initial account.                             *)
LEMMA ContractInit == Init => Contract!Init
  BY DEF Init, Contract!Init

(* However many requests overlap, the handlers implement the stock account *)
(* of StockContract, whose only licence is the late movement.              *)
THEOREM AccountImplemented == Spec => ImplementsContract
<1>1. BooksInv /\ [Next]_vars => [Contract!Next]_Contract!vars
  BY ContractStep
<1> QED
  BY BooksInit, BooksStep, ContractInit, <1>1, PTL
  DEF Spec, ImplementsContract, Contract!Spec

-----------------------------------------------------------------------------
(* One request at a time.  Then a held copy is the row itself, and no      *)
(* movement is ever late.                                                  *)

CopiesCurrent ==
    \A w \in Workers : pc[w] = "move" =>
        /\ quantity[job[w].item] = job[w].loaded
        /\ status[job[w].item] = job[w].status

NoneLate == overtaken = {} /\ untimely = {}

SerialInv == BooksInv /\ NoneLate /\ CopiesCurrent

(* Alone, a request keeps the copies current.                              *)
LEMMA SerialStep ==
  ASSUME \A u, v \in Workers : u = v, SerialInv, [Next]_vars
  PROVE  NoneLate' /\ CopiesCurrent'
<1> USE DEF NoneLate
<1>1. CASE UNCHANGED vars
  BY <1>1 DEF SerialInv, CopiesCurrent, vars, table, stock, control
<1>2. ASSUME NEW w \in Workers, Step(w)
      PROVE  NoneLate' /\ CopiesCurrent'
  <2> TypeInv /\ JobsRefer /\ NoneLate /\ CopiesCurrent
    BY DEF SerialInv, BooksInv
  <2> DOMAIN pc = Workers /\ DOMAIN job = Workers
    BY Domains
  <2> \A u \in Workers : u = w
    OBVIOUS
  <2>0. ASSUME NEW c, Answer(w, c)
        PROVE  CopiesCurrent'
    BY <2>0 DEF Answer, CopiesCurrent
  <2>00. ASSUME NEW a, NEW c, Commit(w, a, c)
         PROVE  CopiesCurrent'
    BY <2>00 DEF Commit, Await, CopiesCurrent
  <2>1. CASE CreateLookup(w) \/ UpdateLoad(w)
    <3>1. ASSUME NEW phase \in {"create", "update"}, NEW j, Await(w, phase, j)
          PROVE  CopiesCurrent'
      BY <3>1 DEF Await, CopiesCurrent
    <3> QED
      BY <2>0, <2>1, <3>1 DEF CreateLookup, UpdateLoad, stock
  <2>2. CASE CreateCommit(w)
    BY <2>0, <2>00, <2>2 DEF CreateCommit, Abandon, stock
  <2>3. CASE UpdateCommit(w)
    BY <2>00, <2>3 DEF UpdateCommit, stock
  <2>4. CASE MoveLoad(w)
    <3>1. ASSUME NEW i \in rows, NEW d, NEW n,
                 Await(w, "move", [item |-> i, loaded |-> quantity[i],
                                   status |-> status[i],
                                   direction |-> d, change |-> n])
          PROVE  CopiesCurrent'
      BY <2>4, <3>1 DEF MoveLoad, Await, CopiesCurrent, table, stock
    <3> QED
      BY <2>0, <2>4, <3>1 DEF MoveLoad, stock
  <2>5. CASE MoveCommit(w)
    BY <2>0, <2>00, <2>5 DEF MoveCommit, Abandon, CopiesCurrent, stock
  <2>6. CASE Around(w)
    <3>1. HandlerInv(Phases)
      BY DEF TypeInv
    <3>2. \E c : Answer(w, c)
      BY <2>6, <3>1, AroundKeeps DEF Around
    <3> QED
      BY <2>0, <2>6, <3>2 DEF Around, stock
  <2> QED
    BY <1>2, <2>1, <2>2, <2>3, <2>4, <2>5, <2>6 DEF Step
<1> QED
  BY <1>1, <1>2 DEF Next

(* With one request at a time the books balance outright and no movement   *)
(* is late: overlap is all that can break them.                            *)
THEOREM SerialBooks ==
  ASSUME \A u, v \in Workers : u = v
  PROVE  Spec => []LedgerBalance
<1>1. Init => SerialInv
  <2> SUFFICES ASSUME Init PROVE SerialInv
    OBVIOUS
  <2>1. BooksInv
    BY BooksInit
  <2>2. NoneLate /\ CopiesCurrent
    BY DEF Init, HandlerInit, CopiesCurrent, NoneLate
  <2> QED
    BY <2>1, <2>2 DEF SerialInv
<1>2. SerialInv /\ [Next]_vars => SerialInv'
  BY SerialStep, BooksStep DEF SerialInv
<1>3. SerialInv => LedgerBalance
  BY DEF SerialInv, NoneLate, BooksInv, Books, LedgerUnlessOvertaken, LedgerBalance
<1> QED
  BY <1>1, <1>2, <1>3, PTL DEF Spec
=============================================================================
