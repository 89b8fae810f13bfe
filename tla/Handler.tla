------------------------------- MODULE Handler -------------------------------
(***************************************************************************)
(* What every write handler of SM-ERP does around its business rules: an   *)
(* HTTP request is a coroutine with a database session of its own, it is   *)
(* refused without the internal token, it awaits the database a few times, *)
(* commits its business change, and then calls record_audit, which commits *)
(* an audit row in a second transaction, before the response goes out.     *)
(*                                                                         *)
(* Between two awaits a coroutine runs alone, and every statement it       *)
(* awaits sees what other requests, of this process or of another replica, *)
(* have committed by then.  The service modules extend this one and cut    *)
(* their handlers where they await.                                        *)
(***************************************************************************)
EXTENDS Integers, FiniteSets

CONSTANTS
    Workers,      \* request coroutines that may run at the same time
    MaxRequests   \* bound on the number of requests

ASSUME HandlerAssumption == IsFiniteSet(Workers) /\ MaxRequests \in Nat

(* The actions the services audit. *)
AuditActions ==
    {"stock_item.created", "stock_item.updated", "inventory.transaction",
     "purchase_request.created", "purchase_request.status_changed",
     "purchase_order.created", "purchase_order.status_changed",
     "resource.created", "resource.status_changed",
     "department.created", "employee.created", "employee.status_changed"}

Codes == {0, 200, 201, 400, 403, 404, 409, 422, 500}

AuditJob == [action : AuditActions, code : {200, 201}]

NoJob == <<>>

VARIABLES
    pc,       \* what a worker does next; "idle" between requests
    job,      \* the payload and the loaded columns a worker holds
    reply,    \* the HTTP status a worker last answered with, 0 at first
    begun,    \* requests begun
    audit,    \* rows of audit_events, counted by action
    commits,  \* history: business commits, counted by action
    lost      \* history: commits whose request died before its audit row

trail   == <<audit, commits, lost>>
control == <<pc, job, reply, begun>>

HandlerInit ==
    /\ pc = [w \in Workers |-> "idle"]
    /\ job = [w \in Workers |-> NoJob]
    /\ reply = [w \in Workers |-> 0]
    /\ begun = 0
    /\ audit = [a \in AuditActions |-> 0]
    /\ commits = [a \in AuditActions |-> 0]
    /\ lost = [a \in AuditActions |-> 0]

-----------------------------------------------------------------------------
(* A request arrives at an idle worker.                                    *)
Arrive(w) ==
    /\ pc[w] = "idle"
    /\ begun < MaxRequests
    /\ begun' = begun + 1
    /\ UNCHANGED trail

(* The handler awaits the database, holding j.                             *)
Await(w, phase, j) ==
    /\ pc' = [pc EXCEPT ![w] = phase]
    /\ job' = [job EXCEPT ![w] = j]
    /\ reply' = reply

(* The handler ends with an HTTP status; the session and what it holds go. *)
Answer(w, code) ==
    /\ pc' = [pc EXCEPT ![w] = "idle"]
    /\ job' = [job EXCEPT ![w] = NoJob]
    /\ reply' = [reply EXCEPT ![w] = code]

(* Any write handler, called without the internal token.                   *)
Forbid(w) == Arrive(w) /\ Answer(w, 403)

(* A commit the database refuses: everything the session held rolls back.  *)
Abandon(w, code) == Answer(w, code) /\ UNCHANGED <<trail, begun>>

(* The business commit: what is left to do is record_audit.                *)
Commit(w, action, code) ==
    /\ commits' = [commits EXCEPT ![action] = @ + 1]
    /\ Await(w, "audit", [action |-> action, code |-> code])
    /\ UNCHANGED <<audit, lost, begun>>

(* Mutant of RecordAudit: the insert is retried after it went through.     *)
RecordAuditRetried(w) ==
    /\ pc[w] = "audit"
    /\ audit' = [audit EXCEPT ![job[w].action] = @ + 1]
    /\ UNCHANGED <<commits, lost, control>>

(* record_audit: one more row, committed on its own, then the response.    *)
RecordAudit(w) ==
    /\ pc[w] = "audit"
    /\ audit' = [audit EXCEPT ![job[w].action] = @ + 1]
    /\ Answer(w, job[w].code)
    /\ UNCHANGED <<commits, lost, begun>>

(* The request dies at an await: the database refuses the statement, the   *)
(* client goes, the process stops.  What was not committed is rolled back; *)
(* after the business commit only the audit row is missing.                *)
Fail(w) ==
    /\ pc[w] # "idle"
    /\ lost' = IF pc[w] = "audit"
               THEN [lost EXCEPT ![job[w].action] = @ + 1]
               ELSE lost
    /\ Answer(w, 500)
    /\ UNCHANGED <<audit, commits, begun>>

-----------------------------------------------------------------------------
(* The part of a service's type invariant that lies here: phases are the   *)
(* service's phases between "idle" and "audit", fits what they may hold.   *)
HandlerTyped(phases) ==
    /\ pc \in [Workers -> phases \cup {"idle", "audit"}]
    /\ DOMAIN job = Workers
    /\ \A w \in Workers : pc[w] = "audit" => job[w] \in AuditJob
    /\ reply \in [Workers -> Codes]
    /\ begun \in 0..MaxRequests
    /\ audit \in [AuditActions -> Nat]
    /\ commits \in [AuditActions -> Nat]
    /\ lost \in [AuditActions -> Nat]

(* Requests that have committed the action, audit row to come.             *)
InFlight(a) == {w \in Workers : pc[w] = "audit" /\ job[w].action = a}

(* Every business commit is accounted for exactly once: it has its audit   *)
(* row, or its request is about to write it, or its request died first.    *)
(* So a success answer implies the audit row, and no row lacks a commit.   *)
AuditAccounted ==
    \A a \in AuditActions :
        commits[a] = audit[a] + lost[a] + Cardinality(InFlight(a))

(* Between requests every committed operation has its audit row, which     *)
(* SECURITY_BASELINE.md:30 demands of management operations.               *)
AuditComplete ==
    (\A w \in Workers : pc[w] = "idle") => audit = commits
=============================================================================
