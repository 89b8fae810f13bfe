------------------------------ MODULE Identity ------------------------------
(***************************************************************************)
(* Departments and employees of SM-ERP (app/services/employee.py over      *)
(* app/repositories/employee.py).  All but one of its handlers, reads      *)
(* included, first run _ensure_seed, which looks for two default           *)
(* departments and the admin account, in this order, and commits each one  *)
(* it misses in a transaction of its own; an insert that loses a race is   *)
(* not caught there and ends the request.                                  *)
(*                                                                         *)
(* Nothing is ever deleted here, so a seed found stays found: the lookups  *)
(* that succeed are merged into the first one that does not, or into the   *)
(* handler's own first lookup.  A request's payload is chosen where it is  *)
(* first looked at.  Names, roles and passwords of employees are left out. *)
(***************************************************************************)
EXTENDS Handler

CONSTANTS
    Depts,       \* department ids clients send, the seeds' ids among them
    DeptNames,   \* department names clients send, likewise
    NoName,      \* the name of an id that has no row
    Top,         \* the empty parent_id of a top department
    Emps,        \* primary keys uuid4 may produce
    Usernames,   \* login names clients send, "admin" among them
    NoUser,      \* the username of a key that has no row
    NoDept       \* the department of a key that has no row

(* _BOOTSTRAP_DEPARTMENTS; a department is named like its id here.         *)
SeedDepts == {"engineering", "finance"}

ASSUME IdentityAssumption ==
    /\ SeedDepts \subseteq Depts
    /\ SeedDepts \subseteq DeptNames
    /\ "admin" \in Usernames
    /\ NoName \notin DeptNames
    /\ Top \notin Depts
    /\ NoUser \notin Usernames
    /\ NoDept \notin Depts

VARIABLES
    depts,       \* ids with a row in erp_departments
    deptName,    \* column name
    parent,      \* column parent_id
    emps,        \* keys with a row in erp_employees
    username,    \* column username
    department,  \* column department
    active,      \* column active
    hired        \* history: employees made by create_employee

deptTable == <<depts, deptName, parent>>
empTable  == <<emps, username, department, active, hired>>
vars      == <<deptTable, empTable, trail, control>>

Requests == {"read", "hire", "found"}
Phases == {"seed", "plant", "hire", "found", "status"}

SeedJob   == [then : Requests]
PlantJob  == [then : Requests, seed : SeedDepts \cup {"admin"}]
HireJob   == [username : Usernames, department : Depts]
FoundJob  == [id : Depts, name : DeptNames, parent : Depts \cup {Top}]
StatusJob == [emp : Emps, loaded : BOOLEAN, wanted : BOOLEAN]

(* Mutant of DeptTaken: the name column without its unique constraint.     *)
DeptIdTaken(id, name) == id \in depts

(* What the primary key and the unique constraints refuse.                 *)
DeptTaken(id, name) == id \in depts \/ \E d \in depts : deptName[d] = name
UserTaken(u) == \E e \in emps : username[e] = u

Seeded == SeedDepts \subseteq depts /\ UserTaken("admin")

(* The first seed _ensure_seed misses. *)
Missing(seed) ==
    \/ seed = "engineering" /\ seed \notin depts
    \/ seed = "finance" /\ seed \notin depts /\ "engineering" \in depts
    \/ seed = "admin" /\ SeedDepts \subseteq depts /\ ~UserTaken("admin")

(* Mutant of InsertDept: no parent is stored as NULL.                      *)
InsertDeptNull(id, name, up) ==
    /\ depts' = depts \cup {id}
    /\ deptName' = [deptName EXCEPT ![id] = name]
    /\ parent' = [parent EXCEPT ![id] = IF up = Top THEN NoName ELSE up]

InsertDept(id, name, up) ==
    /\ depts' = depts \cup {id}
    /\ deptName' = [deptName EXCEPT ![id] = name]
    /\ parent' = [parent EXCEPT ![id] = up]

InsertEmp(e, u, d) ==
    /\ emps' = emps \cup {e}
    /\ username' = [username EXCEPT ![e] = u]
    /\ department' = [department EXCEPT ![e] = d]
    /\ active' = [active EXCEPT ![e] = TRUE]

-----------------------------------------------------------------------------
Init ==
    /\ depts = {}
    /\ deptName = [d \in Depts |-> NoName]
    /\ parent = [d \in Depts |-> Top]
    /\ emps = {}
    /\ username = [e \in Emps |-> NoUser]
    /\ department = [e \in Emps |-> NoDept]
    /\ active = [e \in Emps |-> TRUE]
    /\ hired = {}
    /\ HandlerInit

(* A request whose handler starts with _ensure_seed: a list or the         *)
(* dashboard, which need no internal token, or a create.                   *)
Begin(w) ==
    /\ Arrive(w)
    /\ \E r \in Requests : Await(w, "seed", [then |-> r])
    /\ UNCHANGED <<deptTable, empTable>>

(* _ensure_seed comes to a seed that is not there.                         *)
SeedLookup(w) ==
    /\ pc[w] = "seed"
    /\ \E s \in SeedDepts \cup {"admin"} :
          /\ Missing(s)
          /\ Await(w, "plant", [then |-> job[w].then, seed |-> s])
    /\ UNCHANGED <<deptTable, empTable, trail, begun>>

(* Mutant of PlantDept: a lost race is retried instead of raised.          *)
PlantDeptRetried(w) ==
    /\ pc[w] = "plant"
    /\ job[w].seed \in SeedDepts
    /\ \/ /\ ~DeptTaken(job[w].seed, job[w].seed)
          /\ InsertDept(job[w].seed, job[w].seed, Top)
          /\ Await(w, "seed", [then |-> job[w].then])
       \/ /\ DeptTaken(job[w].seed, job[w].seed)
          /\ Await(w, "plant", job[w])
          /\ UNCHANGED deptTable
    /\ UNCHANGED <<empTable, trail, begun>>

(* Its INSERT and COMMIT; an IntegrityError here reaches nobody's except.  *)
PlantDept(w) ==
    /\ pc[w] = "plant"
    /\ job[w].seed \in SeedDepts
    /\ LET s == job[w].seed IN
       \/ /\ ~DeptTaken(s, s)
          /\ InsertDept(s, s, Top)
          /\ Await(w, "seed", [then |-> job[w].then])
          /\ UNCHANGED <<trail, begun>>
       \/ /\ DeptTaken(s, s)
          /\ Abandon(w, 500)
          /\ UNCHANGED deptTable
    /\ UNCHANGED empTable

PlantAdmin(w) ==
    /\ pc[w] = "plant"
    /\ job[w].seed = "admin"
    /\ \/ /\ ~UserTaken("admin")
          /\ \E e \in Emps \ emps : InsertEmp(e, "admin", "engineering")
          /\ Await(w, "seed", [then |-> job[w].then])
          /\ UNCHANGED <<hired, trail, begun>>
       \/ /\ UserTaken("admin")
          /\ Abandon(w, 500)
          /\ UNCHANGED empTable
    /\ UNCHANGED deptTable

(* list_employees, list_departments, summary: what they read is returned.  *)
Read(w) ==
    /\ pc[w] = "seed"
    /\ job[w].then = "read"
    /\ Seeded
    /\ Answer(w, 200)
    /\ UNCHANGED <<deptTable, empTable, trail, begun>>

(* Mutant of HireLookup: the department is not looked up.                  *)
HireLookupUnchecked(w) ==
    /\ pc[w] = "seed"
    /\ job[w].then = "hire"
    /\ Seeded
    /\ \E u \in Usernames, d \in Depts :
          Await(w, "hire", [username |-> u, department |-> d])
    /\ UNCHANGED <<deptTable, empTable, trail, begun>>

(* create_employee after the seed, up to its INSERT.                       *)
HireLookup(w) ==
    /\ pc[w] = "seed"
    /\ job[w].then = "hire"
    /\ Seeded
    /\ \/ Answer(w, 400)        \* hired in the future
       \/ \E u \in Usernames, d \in Depts :
             IF d \in depts
             THEN Await(w, "hire", [username |-> u, department |-> d])
             ELSE Answer(w, 422)
    /\ UNCHANGED <<deptTable, empTable, trail, begun>>

(* create_employee's commit.  The foreign key of the department is left    *)
(* out, since SQLite does not enforce it: the lookup has to do.            *)
HireCommit(w) ==
    /\ pc[w] = "hire"
    /\ \/ /\ ~UserTaken(job[w].username)
          /\ \E e \in Emps \ emps :
                /\ InsertEmp(e, job[w].username, job[w].department)
                /\ hired' = hired \cup {e}
          /\ Commit(w, "employee.created", 201)
       \/ /\ UserTaken(job[w].username)
          /\ Abandon(w, 409)
          /\ UNCHANGED empTable
    /\ UNCHANGED deptTable

(* Mutants of FoundLookup: a parent that does not exist yet is let         *)
(* through, and the handler does not seed first.                           *)
FoundLookupUnchecked(w) ==
    /\ pc[w] = "seed"
    /\ job[w].then = "found"
    /\ Seeded
    /\ \E d \in Depts, n \in DeptNames, p \in Depts \cup {Top} :
          Await(w, "found", [id |-> d, name |-> n, parent |-> p]) /\ p # d
    /\ UNCHANGED <<deptTable, empTable, trail, begun>>
FoundLookupUnseeded(w) ==
    /\ pc[w] = "seed"
    /\ job[w].then = "found"
    /\ \E d \in Depts, n \in DeptNames :
          Await(w, "found", [id |-> d, name |-> n, parent |-> Top])
    /\ UNCHANGED <<deptTable, empTable, trail, begun>>

(* create_department after the seed, up to its INSERT.                     *)
FoundLookup(w) ==
    /\ pc[w] = "seed"
    /\ job[w].then = "found"
    /\ Seeded
    /\ \E d \in Depts, n \in DeptNames, p \in Depts \cup {Top} :
          \/ p = d /\ Answer(w, 400)
          \/ p \notin depts \cup {d, Top} /\ Answer(w, 422)
          \/ /\ p \in (depts \ {d}) \cup {Top}
             /\ Await(w, "found", [id |-> d, name |-> n, parent |-> p])
    /\ UNCHANGED <<deptTable, empTable, trail, begun>>

FoundCommit(w) ==
    /\ pc[w] = "found"
    /\ LET new == job[w] IN
       \/ /\ ~DeptTaken(new.id, new.name)
          /\ InsertDept(new.id, new.name, new.parent)
          /\ Commit(w, "department.created", 201)
       \/ /\ DeptTaken(new.id, new.name)
          /\ Abandon(w, 409)
          /\ UNCHANGED deptTable
    /\ UNCHANGED empTable

(* set_status up to its commit; it does not seed.                          *)
StatusLoad(w) ==
    /\ Arrive(w)
    /\ \E e \in Emps, b \in BOOLEAN :
          IF e \in emps
          THEN Await(w, "status", [emp |-> e, loaded |-> active[e], wanted |-> b])
          ELSE Answer(w, 404)
    /\ UNCHANGED <<deptTable, empTable>>

(* Its COMMIT: a value equal to the loaded one is no change to write.      *)
StatusCommit(w) ==
    /\ pc[w] = "status"
    /\ LET s == job[w] IN
          active' = IF s.wanted = s.loaded THEN active
                    ELSE [active EXCEPT ![s.emp] = s.wanted]
    /\ Commit(w, "employee.status_changed", 200)
    /\ UNCHANGED <<deptTable, emps, username, department, hired>>

Finish(w) == RecordAudit(w) /\ UNCHANGED <<deptTable, empTable>>

(* Refusal, and a dying request. *)
Around(w) ==
    /\ Forbid(w) \/ Fail(w)
    /\ UNCHANGED <<deptTable, empTable>>

(* What a request that has begun does next, if it does not die.            *)
Proceed(w) ==
    \/ SeedLookup(w)  \/ PlantDept(w)   \/ PlantAdmin(w)
    \/ Read(w)        \/ HireLookup(w)  \/ HireCommit(w)
    \/ FoundLookup(w) \/ FoundCommit(w) \/ StatusCommit(w)
    \/ Finish(w)

Step(w) == Begin(w) \/ StatusLoad(w) \/ Proceed(w) \/ Around(w)

Next == \E w \in Workers : Step(w)

Spec == Init /\ [][Next]_vars

(* The event loop resumes a coroutine once the database has answered it.   *)
FairSpec == Spec /\ \A w \in Workers : WF_vars(Proceed(w))

-----------------------------------------------------------------------------
(* Properties *)

TablesTyped ==
    /\ depts \subseteq Depts
    /\ deptName \in [Depts -> DeptNames \cup {NoName}]
    /\ parent \in [Depts -> Depts \cup {Top}]
    /\ emps \subseteq Emps
    /\ username \in [Emps -> Usernames \cup {NoUser}]
    /\ department \in [Emps -> Depts \cup {NoDept}]
    /\ active \in [Emps -> BOOLEAN]
    /\ hired \subseteq emps

JobsTyped ==
    \A w \in Workers :
        /\ pc[w] = "seed" => job[w] \in SeedJob
        /\ pc[w] = "plant" => job[w] \in PlantJob
        /\ pc[w] = "hire" => job[w] \in HireJob
        /\ pc[w] = "found" => job[w] \in FoundJob
        /\ pc[w] = "status" => job[w] \in StatusJob

(* Every column, counter and held job has its type.                        *)
TypeOK == TablesTyped /\ JobsTyped /\ HandlerTyped(Phases)

(* Departments form a forest: following parent_id from any department      *)
(* ends at a top one, though a parent is only looked up before the insert. *)
(* Stated over sets: no set of departments has all its parents in itself.  *)
NoParentCycle ==
    \A S \in SUBSET depts : S # {} => \E d \in S : parent[d] \notin S

(* Parents and the departments of employees exist.                         *)
NoDanglingReference ==
    /\ \A d \in depts : parent[d] \in depts \cup {Top}
    /\ \A e \in emps : department[e] \in depts

(* Lazy seeding cannot be forestalled: as long as a seed is missing,       *)
(* nobody holds its department's name, or the admin login, in its stead,   *)
(* and once the account called admin exists it is the seeded one.  If this *)
(* failed, _ensure_seed would answer 500 for good, or an account that a    *)
(* client made would be taken for the administrator's.                     *)
SeedsNotForestalled ==
    /\ \A s \in SeedDepts \ depts : \A d \in depts : deptName[d] # s
    /\ \A e \in hired : username[e] # "admin"

(* Names and logins are unique, whatever creates and seeds race.           *)
UniqueNames ==
    /\ \A d, e \in depts : deptName[d] = deptName[e] => d = e
    /\ \A e, f \in emps : username[e] = username[f] => e = f

(* Every request is answered: seeding three rows, step by step and in a    *)
(* race with others that seed, comes to an end.                            *)
EveryRequestAnswered ==
    \A w \in Workers : pc[w] # "idle" ~> pc[w] = "idle"
=============================================================================
