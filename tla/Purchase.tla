------------------------------ MODULE Purchase ------------------------------
(***************************************************************************)
(* Purchase requests and purchase orders of SM-ERP                         *)
(* (app/services/purchase.py over app/repositories/purchase.py), as        *)
(* concurrent requests drive them.  A status is changed by loading the     *)
(* row, checking the loaded status against the transition table, and       *)
(* committing the target status, which overwrites whatever the row holds   *)
(* by then.                                                                *)
(***************************************************************************)
EXTENDS Handler

CONSTANTS
    Prs,        \* primary keys of purchase requests
    Pos,        \* primary keys of purchase orders
    DocCodes,   \* document codes clients send
    NoCode,     \* the code of a key that has no row
    NoPr        \* the pr_id of a key that has no row

ASSUME PurchaseAssumption == NoCode \notin DocCodes /\ NoPr \notin Prs

RequestStatuses == {"draft", "submitted", "approved", "rejected", "cancelled"}
OrderStatuses   == {"issued", "received", "closed", "cancelled"}

(* Mutants of the tables: a rejected request is handed in again, and an    *)
(* order is closed as soon as it is issued.                                *)
RequestMovesReopened ==
    {<<"draft", "submitted">>, <<"submitted", "approved">>,
     <<"submitted", "rejected">>, <<"rejected", "submitted">>}
OrderMovesShort ==
    {<<"issued", "received">>, <<"issued", "closed">>, <<"received", "closed">>}

(* The transition tables, as pairs of a status and a target.               *)
RequestMoves ==
    {<<"draft", "submitted">>, <<"draft", "cancelled">>,
     <<"submitted", "approved">>, <<"submitted", "rejected">>,
     <<"submitted", "cancelled">>}
OrderMoves ==
    {<<"issued", "received">>, <<"issued", "cancelled">>,
     <<"received", "closed">>, <<"received", "cancelled">>}

(* The targets the API's actions stand for.                                *)
RequestTargets == {"submitted", "approved", "rejected", "cancelled"}
OrderTargets   == {"received", "closed", "cancelled"}

VARIABLES
    prs,          \* keys with a row in erp_purchase_requests
    code,         \* column code
    prStatus,     \* column status
    prSeen,       \* history: the statuses a request has had
    pos,          \* keys with a row in erp_purchase_orders
    prOf,         \* column pr_id
    poStatus,     \* column status
    poSeen,       \* history: the statuses an order has had
    overwritten,  \* history: rows whose status was changed from an old copy
    unapproved    \* history: orders whose request was no longer as loaded

prTable == <<prs, code, prStatus, prSeen>>
poTable == <<pos, prOf, poStatus, poSeen, unapproved>>
vars    == <<prTable, poTable, overwritten, trail, control>>

Phases == {"file", "decide", "place", "advance"}

FileJob    == [code : DocCodes]
DecideJob  == [pr : Prs, loaded : RequestStatuses, target : RequestTargets]
PlaceJob   == [pr : Prs, loaded : RequestStatuses]
AdvanceJob == [po : Pos, loaded : OrderStatuses, target : OrderTargets]

(* Mutant of CodeTaken: the code of a cancelled request is free again.     *)
CodeTakenByOpen(c) == \E p \in prs : code[p] = c /\ prStatus[p] # "cancelled"

CodeTaken(c) == \E p \in prs : code[p] = c

RequestMayMove(loaded, target) == <<loaded, target>> \in RequestMoves
OrderMayMove(loaded, target) == <<loaded, target>> \in OrderMoves
(* Mutant of MayOrder: orders on requests still to be decided.             *)
MayOrderEarly(status) == status \in {"submitted", "approved"}

MayOrder(status) == status = "approved"

-----------------------------------------------------------------------------
Init ==
    /\ prs = {}
    /\ code = [p \in Prs |-> NoCode]
    /\ prStatus = [p \in Prs |-> "draft"]
    /\ prSeen = [p \in Prs |-> {}]
    /\ pos = {}
    /\ prOf = [o \in Pos |-> NoPr]
    /\ poStatus = [o \in Pos |-> "issued"]
    /\ poSeen = [o \in Pos |-> {}]
    /\ overwritten = {}
    /\ unapproved = {}
    /\ HandlerInit

(* create_request up to its first await: the SELECT by code.               *)
FileLookup(w) ==
    /\ Arrive(w)
    /\ \E c \in DocCodes :
          IF CodeTaken(c) THEN Answer(w, 409) ELSE Await(w, "file", [code |-> c])
    /\ UNCHANGED <<prTable, poTable, overwritten>>

(* create_request's INSERT and COMMIT; the unique constraint decides.      *)
FileCommit(w) ==
    /\ pc[w] = "file"
    /\ \/ /\ ~CodeTaken(job[w].code)
          /\ \E p \in Prs \ prs :
                /\ prs' = prs \cup {p}
                /\ code' = [code EXCEPT ![p] = job[w].code]
                /\ prStatus' = [prStatus EXCEPT ![p] = "draft"]
                /\ prSeen' = [prSeen EXCEPT ![p] = {"draft"}]
          /\ Commit(w, "purchase_request.created", 201)
       \/ /\ CodeTaken(job[w].code)
          /\ Abandon(w, 409)
          /\ UNCHANGED prTable
    /\ UNCHANGED <<poTable, overwritten>>

(* Mutant of DecideLoad: the transition table is not looked up.            *)
DecideLoadUnchecked(w) ==
    /\ Arrive(w)
    /\ \E p \in prs, t \in RequestTargets :
          Await(w, "decide", [pr |-> p, loaded |-> prStatus[p], target |-> t])
    /\ UNCHANGED <<prTable, poTable, overwritten>>

(* PurchaseRequestService.transition up to its commit.                     *)
DecideLoad(w) ==
    /\ Arrive(w)
    /\ \E p \in Prs, t \in RequestTargets :
          \/ /\ p \notin prs
             /\ Answer(w, 404)
          \/ /\ p \in prs
             /\ IF RequestMayMove(prStatus[p], t)
                THEN Await(w, "decide",
                           [pr |-> p, loaded |-> prStatus[p], target |-> t])
                ELSE Answer(w, 409)
    /\ UNCHANGED <<prTable, poTable, overwritten>>

(* Mutant of DecideCommit: the column gets the action, not its status.     *)
DecideCommitVerb(w) ==
    /\ pc[w] = "decide"
    /\ prStatus' = [prStatus EXCEPT ![job[w].pr] = "submit"]
    /\ Commit(w, "purchase_request.status_changed", 200)
    /\ UNCHANGED <<prs, code, prSeen, poTable, overwritten>>

(* Its COMMIT: the target replaces the status, whatever that is by now.    *)
DecideCommit(w) ==
    /\ pc[w] = "decide"
    /\ LET d == job[w] IN
          /\ prStatus' = [prStatus EXCEPT ![d.pr] = d.target]
          /\ prSeen' = [prSeen EXCEPT ![d.pr] = @ \cup {d.target}]
          /\ overwritten' = IF prStatus[d.pr] = d.loaded
                            THEN overwritten
                            ELSE overwritten \cup {d.pr}
    /\ Commit(w, "purchase_request.status_changed", 200)
    /\ UNCHANGED <<prs, code, poTable>>

(* create_order up to its commit: the request must look approved.          *)
PlaceLoad(w) ==
    /\ Arrive(w)
    /\ \E p \in Prs :
          \/ /\ p \notin prs
             /\ Answer(w, 422)
          \/ /\ p \in prs
             /\ IF MayOrder(prStatus[p])
                THEN Await(w, "place", [pr |-> p, loaded |-> prStatus[p]])
                ELSE Answer(w, 409)
    /\ UNCHANGED <<prTable, poTable, overwritten>>

(* create_order's INSERT and COMMIT.  The number is cut from a uuid4, so   *)
(* it may collide with the number of an order that exists.                 *)
PlaceCommit(w) ==
    /\ pc[w] = "place"
    /\ \/ /\ \E o \in Pos \ pos :
                /\ pos' = pos \cup {o}
                /\ prOf' = [prOf EXCEPT ![o] = job[w].pr]
                /\ poStatus' = [poStatus EXCEPT ![o] = "issued"]
                /\ poSeen' = [poSeen EXCEPT ![o] = {"issued"}]
                /\ unapproved' = IF prStatus[job[w].pr] = job[w].loaded
                                 THEN unapproved
                                 ELSE unapproved \cup {o}
          /\ Commit(w, "purchase_order.created", 201)
       \/ /\ pos # {}
          /\ Abandon(w, 409)
          /\ UNCHANGED poTable
    /\ UNCHANGED <<prTable, overwritten>>

(* PurchaseOrderService.transition up to its commit.                       *)
AdvanceLoad(w) ==
    /\ Arrive(w)
    /\ \E o \in Pos, t \in OrderTargets :
          \/ /\ o \notin pos
             /\ Answer(w, 404)
          \/ /\ o \in pos
             /\ IF OrderMayMove(poStatus[o], t)
                THEN Await(w, "advance",
                           [po |-> o, loaded |-> poStatus[o], target |-> t])
                ELSE Answer(w, 409)
    /\ UNCHANGED <<prTable, poTable, overwritten>>

(* Its COMMIT. *)
AdvanceCommit(w) ==
    /\ pc[w] = "advance"
    /\ LET a == job[w] IN
          /\ poStatus' = [poStatus EXCEPT ![a.po] = a.target]
          /\ poSeen' = [poSeen EXCEPT ![a.po] = @ \cup {a.target}]
          /\ overwritten' = IF poStatus[a.po] = a.loaded
                            THEN overwritten
                            ELSE overwritten \cup {a.po}
    /\ Commit(w, "purchase_order.status_changed", 200)
    /\ UNCHANGED <<pos, prOf, unapproved, prTable>>

(* Refusal, the audit row, a dying request.                                *)
Around(w) ==
    /\ Forbid(w) \/ RecordAudit(w) \/ Fail(w)
    /\ UNCHANGED <<prTable, poTable, overwritten>>

Step(w) ==
    \/ FileLookup(w)  \/ FileCommit(w)
    \/ DecideLoad(w)  \/ DecideCommit(w)
    \/ PlaceLoad(w)   \/ PlaceCommit(w)
    \/ AdvanceLoad(w) \/ AdvanceCommit(w)
    \/ Around(w)

Next == \E w \in Workers : Step(w)

Spec == Init /\ [][Next]_vars

-----------------------------------------------------------------------------
(* Properties *)

TablesTyped ==
    /\ prs \subseteq Prs
    /\ code \in [Prs -> DocCodes \cup {NoCode}]
    /\ prStatus \in [Prs -> RequestStatuses]
    /\ prSeen \in [Prs -> SUBSET RequestStatuses]
    /\ pos \subseteq Pos
    /\ prOf \in [Pos -> Prs \cup {NoPr}]
    /\ poStatus \in [Pos -> OrderStatuses]
    /\ poSeen \in [Pos -> SUBSET OrderStatuses]
    /\ overwritten \subseteq Prs \cup Pos
    /\ unapproved \subseteq Pos

JobsTyped ==
    \A w \in Workers :
        /\ pc[w] = "file" => job[w] \in FileJob
        /\ pc[w] = "decide" => job[w] \in DecideJob
        /\ pc[w] = "place" => job[w] \in PlaceJob
        /\ pc[w] = "advance" => job[w] \in AdvanceJob

(* Every column, counter and held job has its type.                        *)
TypeOK == TablesTyped /\ JobsTyped /\ HandlerTyped(Phases)

(* Every order belongs to a request that exists and has been approved at   *)
(* some time, however requests and decisions interleave.                   *)
OrdersFollowApproval ==
    \A o \in pos : prOf[o] \in prs /\ "approved" \in prSeen[prOf[o]]

(* No request is approved or rejected that was never submitted, and no     *)
(* order is closed that was never received: racing transitions may undo    *)
(* each other, but none skips a stage.                                     *)
NoStageSkipped ==
    /\ \A p \in prs : prStatus[p] \in {"approved", "rejected"}
                        => "submitted" \in prSeen[p]
    /\ \A o \in pos : poStatus[o] = "closed" => "received" \in poSeen[o]

(* No two requests share a code, though create_request checks with a       *)
(* SELECT that another request may overtake.                               *)
UniqueCode == \A p, q \in prs : code[p] = code[q] => p = q

(* A status changes only along its table, or the row is one that was       *)
(* overwritten from an old copy: the load and the commit being apart is    *)
(* the only way out of the tables.                                         *)
MovesAlongTables ==
    [][/\ \A p \in prs : prStatus'[p] # prStatus[p] =>
             RequestMayMove(prStatus[p], prStatus'[p]) \/ p \in overwritten'
       /\ \A o \in pos : poStatus'[o] # poStatus[o] =>
             OrderMayMove(poStatus[o], poStatus'[o]) \/ o \in overwritten']_vars

(* An order is created only for a request that is approved then, the       *)
(* business rule of services/purchase.py:144.                              *)
OrderedWhileApproved ==
    [][\A o \in pos' \ pos : prStatus[prOf'[o]] = "approved"]_vars

(* However requests interleave, the handlers are the approval workflow of  *)
(* PurchaseWorkflow: only a commit whose row changed after a transition or *)
(* create_order loaded it is one of the workflow's late steps.             *)
Workflow == INSTANCE PurchaseWorkflow WITH excused <- overwritten \cup unapproved
ImplementsWorkflow == Workflow!Spec
=============================================================================
