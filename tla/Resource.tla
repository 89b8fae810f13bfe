------------------------------- MODULE Resource -------------------------------
(***************************************************************************)
(* The resource items of SM-ERP (app/services/item.py over                 *)
(* app/repositories/item.py), with the overview of them, and with the      *)
(* audit events of their changes forwarded to the audit center.            *)
(*                                                                         *)
(* The overview reads by three statements, each of which sees what is      *)
(* committed by then.  A status change writes an UPDATE only if the wanted *)
(* status differs from the loaded one.  Of the columns only the status is  *)
(* kept; as created_at is left out, any rows may be the newest.            *)
(***************************************************************************)
EXTENDS AuditForward

CONSTANTS
    Items,       \* primary keys uuid4 may produce
    Wanted,      \* the statuses clients send
    PageLimit    \* how many items the overview lists at most

Statuses == {"planned", "active", "review", "closed"}

Unlisted == "unlisted"

ASSUME ResourceAssumption ==
    /\ IsFiniteSet(Items)
    /\ Wanted \subseteq Statuses
    /\ PageLimit \in Nat
    /\ {"resource.created", "resource.status_changed"} \subseteq Audited

VARIABLES
    rows,        \* keys with a row in items
    status,      \* column status
    overview,    \* the last overview answered; history: what moved meanwhile
    witnessed,   \* history: statuses of w's row since w loaded it
    touched,     \* history: items that changed status since w listed
    hollow       \* history: items with an accepted change that never was

table   == <<rows, status>>
history == <<witnessed, touched, hollow>>
vars    == <<table, overview, history, forward, trail, control>>

Phases == {"create", "change", "total", "active"}

CreateJob == [status : Wanted]
ChangeJob == [item : Items, loaded : Statuses, status : Wanted]

(* The items of an overview: the status of each that is listed. *)
Page      == [Items -> Statuses \cup {Unlisted}]
TotalJob  == [page : Page, before : Nat]
ActiveJob == [page : Page, total : Nat, before : Nat]
Overview  == [page : Page, total : Nat, active : Nat,
              added : Nat, touched : SUBSET Items]

Init ==
    /\ rows = {}
    /\ status = [i \in Items |-> "active"]
    /\ overview = [page |-> [i \in Items |-> Unlisted], total |-> 0,
                    active |-> 0, added |-> 0, touched |-> {}]
    /\ witnessed = [w \in Workers |-> {}]
    /\ touched = [w \in Workers |-> {}]
    /\ hollow = {}
    /\ HandlerInit
    /\ ForwardInit

-----------------------------------------------------------------------------
(* create: nothing is looked up, a name may be taken any number of times.  *)
CreateStart(w) ==
    /\ Arrive(w)
    /\ \E s \in Wanted : Await(w, "create", [status |-> s])
    /\ UNCHANGED <<table, overview, history, forward>>

(* create's COMMIT, under a key that is free.  Keys being random, it does  *)
(* not matter which.                                                       *)
CreateCommit(w) ==
    /\ pc[w] = "create"
    /\ rows # Items
    /\ LET i == CHOOSE k \in Items \ rows : TRUE IN
          /\ rows' = rows \cup {i}
          /\ status' = [status EXCEPT ![i] = job[w].status]
    /\ Commit(w, "resource.created", 201)
    /\ UNCHANGED <<overview, history, forward>>

(* update_status up to its commit: load the row.                           *)
ChangeLoad(w) ==
    /\ Arrive(w)
    /\ \E i \in Items, s \in Wanted :
          \/ /\ i \in rows
             /\ Await(w, "change", [item |-> i, loaded |-> status[i], status |-> s])
             /\ witnessed' = [witnessed EXCEPT ![w] = {status[i]}]
          \/ /\ i \notin rows
             /\ Answer(w, 404)
             /\ witnessed' = witnessed
    /\ UNCHANGED <<table, overview, touched, hollow, forward>>

(* Mutant of Written: the status every row starts with is not written.     *)
WrittenUnlessDefault(c) ==
    IF c.status = "active" THEN status[c.item] ELSE c.status

(* The column after the commit of change c.                                *)
Written(c) == IF c.status = c.loaded THEN status[c.item] ELSE c.status

(* update_status's COMMIT.  Everyone who holds a copy of the row witnesses *)
(* the status it leaves, and an overview under way may have missed it.     *)
ChangeCommit(w) ==
    /\ pc[w] = "change"
    /\ LET c == job[w] IN
          /\ status' = [status EXCEPT ![c.item] = Written(c)]
          /\ witnessed' = [v \in Workers |->
                IF pc[v] = "change" /\ job[v].item = c.item
                THEN witnessed[v] \cup {Written(c)}
                ELSE witnessed[v]]
          /\ touched' = [v \in Workers |->
                IF pc[v] \in {"total", "active"} /\ Written(c) # status[c.item]
                THEN touched[v] \cup {c.item}
                ELSE touched[v]]
          /\ hollow' = IF c.status \in witnessed'[w]
                       THEN hollow
                       ELSE hollow \cup {c.item}
    /\ Commit(w, "resource.status_changed", 200)
    /\ UNCHANGED <<rows, overview, forward>>

-----------------------------------------------------------------------------
(* What list_items may return.                                             *)
Listed(page) == {i \in Items : page[i] # Unlisted}

PageSize(n) == IF n < PageLimit THEN n ELSE PageLimit

Pages == {[i \in Items |-> IF i \in S THEN status[i] ELSE Unlisted] :
             S \in {R \in SUBSET rows :
                      Cardinality(R) = PageSize(Cardinality(rows))}}

(* Mutant of ActiveItems: the condition on the status is forgotten.        *)
ActiveItemsAll == rows

(* What count_active_items counts.                                         *)
ActiveItems == {i \in rows : status[i] = "active"}

(* get_overview, statement by statement. *)
OverviewList(w) ==
    /\ Arrive(w)
    /\ \E page \in Pages :
          Await(w, "total", [page |-> page, before |-> Cardinality(rows)])
    /\ touched' = [touched EXCEPT ![w] = {}]
    /\ UNCHANGED <<table, overview, witnessed, hollow, forward>>

(* Mutant of OverviewTotal: the total was read before the list.            *)
OverviewTotalFirst(w) ==
    /\ pc[w] = "total"
    /\ \E page \in Pages :
          Await(w, "active", [page |-> page, total |-> job[w].before,
                              before |-> Cardinality(rows)])
    /\ touched' = [touched EXCEPT ![w] = {}]
    /\ UNCHANGED <<table, overview, witnessed, hollow, forward, trail, begun>>

OverviewTotal(w) ==
    /\ pc[w] = "total"
    /\ Await(w, "active", [page |-> job[w].page, total |-> Cardinality(rows),
                           before |-> job[w].before])
    /\ UNCHANGED <<table, overview, history, forward, trail, begun>>

OverviewActive(w) ==
    /\ pc[w] = "active"
    /\ overview' = [page    |-> job[w].page,
                    total   |-> job[w].total,
                    active  |-> Cardinality(ActiveItems),
                    added   |-> Cardinality(rows) - job[w].before,
                    touched |-> touched[w]]
    /\ Answer(w, 200)
    /\ UNCHANGED <<table, history, forward, trail, begun>>

-----------------------------------------------------------------------------
(* What a request does once it has begun, the row of its audit included.   *)
Proceed(w) ==
    \/ CreateCommit(w)
    \/ ChangeCommit(w)
    \/ OverviewTotal(w)
    \/ OverviewActive(w)
    \/ RecordAndForward(w) /\ UNCHANGED <<table, overview, history>>

Begin(w) == CreateStart(w) \/ ChangeLoad(w) \/ OverviewList(w)

(* A refusal, a failure, an audit row without its thread.                  *)
Around(w) ==
    /\ \/ (Forbid(w) \/ Fail(w)) /\ UNCHANGED forward
       \/ RecordUnforwarded(w)
    /\ UNCHANGED <<table, overview, history>>

(* The threads run on, the handlers aside.                                 *)
Forwarded(e) ==
    /\ Deliver(e)
    /\ UNCHANGED <<table, overview, history, trail, control>>

Next ==
    \/ \E w \in Workers : Begin(w) \/ Proceed(w) \/ Around(w)
    \/ \E e \in Events : Forwarded(e)

Spec == Init /\ [][Next]_vars

(* The database answers every statement in time, and a thread ends by its  *)
(* timeout.  Nothing is assumed of the network and the center.             *)
FairSpec ==
    /\ Spec
    /\ \A w \in Workers : WF_vars(Proceed(w))
    /\ \A e \in Events :
          WF_vars(GiveUp(e) /\ UNCHANGED <<table, overview, history, trail, control>>)

-----------------------------------------------------------------------------
(* Properties *)

TablesTyped ==
    /\ rows \subseteq Items
    /\ status \in [Items -> Statuses]
    /\ overview \in Overview
    /\ witnessed \in [Workers -> SUBSET Statuses]
    /\ touched \in [Workers -> SUBSET Items]
    /\ hollow \subseteq Items

JobsTyped ==
    \A w \in Workers :
        /\ pc[w] = "create" => job[w] \in CreateJob
        /\ pc[w] = "change" => job[w] \in ChangeJob
        /\ pc[w] = "total" => job[w] \in TotalJob
        /\ pc[w] = "active" => job[w] \in ActiveJob

(* Every column, job and event has its type.                               *)
TypeOK == TablesTyped /\ JobsTyped /\ ForwardTyped /\ HandlerTyped(Phases)

(* An accepted status change was the row's status at some instant between  *)
(* its load and its commit.  update_status may write no UPDATE, and a      *)
(* rival may write in between, but a success never reports a status that   *)
(* the item did not have while the request ran.                            *)
ChangeTookEffect == hollow = {}

(* The overview never lists more items than it counts, for it lists first  *)
(* and items are never deleted, and lists all it counts but those created  *)
(* in between, up to its length.  An item that it shows active, or shows   *)
(* not active, is counted so, unless its status was changed in between.    *)
(* So the three statements disagree by no more than what was created and   *)
(* changed while they ran: where nothing was, and all items are listed, as *)
(* many are counted active as are shown active.                            *)
OverviewAgrees ==
    LET listed == Listed(overview.page)
        lit    == {i \in listed : overview.page[i] = "active"}
    IN
    /\ Cardinality(listed) <= overview.total
    /\ Cardinality(listed) < PageLimit =>
          overview.total <= Cardinality(listed) + overview.added
    /\ Cardinality(lit \ overview.touched) <= overview.active
    /\ overview.active + Cardinality((listed \ lit) \ overview.touched)
          <= overview.total + overview.added

(* Every request ends and every thread ends, even when the center never    *)
(* answers: a handler does not wait for its thread, nor the thread for     *)
(* ever for the center.                                                    *)
WorkEnds ==
    /\ \A w \in Workers : pc[w] # "idle" ~> pc[w] = "idle"
    /\ \A e \in Events : e \in Senders ~> e \notin Senders
=============================================================================
