---------------------------- MODULE IdentityProofs ----------------------------
(***************************************************************************)
(* Proofs about Identity for every set of workers, departments, employees  *)
(* and names and every number of HTTP requests.                            *)
(***************************************************************************)
EXTENDS Identity, HandlerProofs

-----------------------------------------------------------------------------
(* The inductive invariant.  Nothing is ever deleted, so what a handler    *)
(* found before an await is still there after it: the department of a      *)
(* hire, the parent of a department, and the seeds.  A department is       *)
(* therefore always founded below an older one, and by a request that has  *)
(* seen all the seeds.                                                     *)

(* What the job of a phase promises.                                       *)
Backed(phase, j) ==
    /\ phase = "seed" => j \in SeedJob
    /\ phase = "plant" => /\ j \in PlantJob
                          /\ j.seed = "admin" => SeedDepts \subseteq depts
    /\ phase = "hire" => j \in HireJob /\ j.department \in depts /\ Seeded
    /\ phase = "found" => /\ j \in FoundJob
                          /\ j.parent \in depts \cup {Top}
                          /\ Seeded
    /\ phase = "status" => j \in StatusJob /\ j.emp \in emps

Local == \A w \in Workers : Backed(pc[w], job[w])

Forest == NoParentCycle /\ NoDanglingReference

Shared == TablesTyped /\ UniqueNames /\ Forest /\ SeedsNotForestalled

Inv == Shared /\ Local /\ HandlerInv(Phases)

(* Rows are never deleted, and logins never change.                        *)
Grows ==
    /\ depts \subseteq depts'
    /\ emps \subseteq emps'
    /\ \A e \in emps : username'[e] = username[e]

(* Nothing exists at first.                                                *)
LEMMA InvInit == Init => Inv
<1> SUFFICES ASSUME Init PROVE Inv
  OBVIOUS
<1>1. HandlerInv(Phases)
  BY HandlerInitial DEF Init
<1>2. Shared
  BY IdentityAssumption
  DEF Init, Shared, TablesTyped, UniqueNames, Forest, NoParentCycle,
      NoDanglingReference, SeedsNotForestalled
<1>3. Local
  BY DEF Init, HandlerInit, Local, Backed
<1> QED
  BY <1>1, <1>2, <1>3 DEF Inv

(* pc and job are functions on the workers.                                *)
LEMMA Domains == Inv => DOMAIN pc = Workers /\ DOMAIN job = Workers
  BY DEF Inv, HandlerInv, HandlerTyped

(* What is promised of a job stays true as the tables grow.                *)
LEMMA StaysBacked ==
  ASSUME Grows, NEW phase, NEW j, Backed(phase, j)
  PROVE  Backed(phase, j)'
<1>1. Seeded => Seeded'
  BY DEF Grows, Seeded, UserTaken
<1> QED
  BY <1>1 DEF Grows, Backed

(* A worker leaves its phase for one without a job or for one whose        *)
(* promise holds; the jobs of the others stay backed.                      *)
LEMMA LocalKept ==
  ASSUME Inv, Grows, NEW w \in Workers,
         \/ \E c : Answer(w, c)
         \/ \E a, c : Commit(w, a, c)
         \/ \E phase, j : Await(w, phase, j) /\ Backed(phase, j)'
  PROVE  Local'
<1> DOMAIN pc = Workers /\ DOMAIN job = Workers
  BY Domains
<1>1. \A v \in Workers \ {w} : pc'[v] = pc[v] /\ job'[v] = job[v]
  BY DEF Answer, Commit, Await
<1>2. ASSUME NEW v \in Workers, v # w PROVE Backed(pc[v], job[v])'
  <2>1. Backed(pc[v], job[v])
    BY DEF Inv, Local
  <2> QED
    BY <1>1, <1>2, <2>1, StaysBacked DEF Backed
<1>3. Backed(pc[w], job[w])'
  <2>1. CASE \E phase, j : Await(w, phase, j) /\ Backed(phase, j)'
    BY <2>1 DEF Await, Backed
  <2>2. CASE \/ \E c : Answer(w, c)
             \/ \E a, c : Commit(w, a, c)
    <3>1. pc'[w] \in {"idle", "audit"}
      BY <2>2 DEF Answer, Commit, Await
    <3> QED
      BY <3>1 DEF Backed
  <2> QED
    BY <2>1, <2>2
<1> QED
  BY <1>2, <1>3 DEF Local

(* What the tables hold depends on the tables alone.                       *)
LEMMA SharedKept ==
  ASSUME Inv, UNCHANGED <<deptTable, empTable>>
  PROVE  Shared' /\ Grows
  BY DEF Inv, Shared, TablesTyped, UniqueNames, Forest, NoParentCycle,
     NoDanglingReference, SeedsNotForestalled, Grows, deptTable, empTable

-----------------------------------------------------------------------------
(* The inserts. *)

(* A new department below an existing one, or at the top, closes no cycle: *)
(* nothing had it for a parent before.                                     *)
LEMMA InsertKeepsForest ==
  ASSUME Shared, NEW d \in Depts \ depts, NEW n, NEW up \in depts \cup {Top},
         InsertDept(d, n, up), UNCHANGED empTable
  PROVE  Forest'
<1> d # Top /\ TablesTyped /\ NoParentCycle /\ NoDanglingReference
  BY IdentityAssumption DEF Shared, Forest
<1>1. \A e \in depts : parent'[e] = parent[e] /\ parent[e] \in depts \cup {Top}
  BY DEF TablesTyped, InsertDept, NoDanglingReference
<1>2. parent'[d] = up
  BY DEF TablesTyped, InsertDept
<1>3. NoParentCycle'
  <2> SUFFICES ASSUME NEW S \in SUBSET depts', S # {}
               PROVE  \E e \in S : parent'[e] \notin S
    BY DEF NoParentCycle
  <2>1. CASE S \ {d} = {}
    BY <1>2, <2>1
  <2>2. CASE S \ {d} # {}
    <3>1. S \ {d} \in SUBSET depts
      BY DEF InsertDept
    <3>2. PICK e \in S \ {d} : parent[e] \notin S \ {d}
      BY <2>2, <3>1 DEF NoParentCycle
    <3> QED
      BY <1>1, <3>1, <3>2
  <2> QED
    BY <2>1, <2>2
<1>4. NoDanglingReference'
  BY <1>1, <1>2 DEF InsertDept, NoDanglingReference, empTable
<1> QED
  BY <1>3, <1>4 DEF Forest

(* A department founded by a client that has seen the seeds, or a seed.    *)
LEMMA DeptShared ==
  ASSUME Inv, NEW d \in Depts, NEW n \in DeptNames, NEW up \in depts \cup {Top},
         ~DeptTaken(d, n), InsertDept(d, n, up), UNCHANGED empTable,
         SeedDepts \subseteq depts \/ (d \in SeedDepts /\ n = d)
  PROVE  Shared' /\ Grows
<1> Shared /\ d \notin depts /\ up \in Depts \cup {Top}
  BY DEF Inv, Shared, TablesTyped, DeptTaken
<1>1. TablesTyped'
  BY DEF Shared, TablesTyped, InsertDept, empTable
<1>2. /\ deptName'[d] = n
      /\ \A e \in depts : deptName'[e] = deptName[e] /\ deptName[e] # n
  BY DEF Shared, TablesTyped, InsertDept, DeptTaken
<1>3. UniqueNames'
  BY <1>2 DEF Shared, UniqueNames, InsertDept, empTable
<1>4. SeedsNotForestalled'
  BY <1>2 DEF Shared, SeedsNotForestalled, InsertDept, empTable
<1>5. Forest'
  BY InsertKeepsForest
<1>6. Grows
  BY DEF Grows, InsertDept, empTable
<1> QED
  BY <1>1, <1>3, <1>4, <1>5, <1>6 DEF Shared

(* An employee hired by a client once there is an admin, or the admin.     *)
LEMMA EmpShared ==
  ASSUME Inv, NEW e \in Emps \ emps, NEW u \in Usernames, NEW d \in depts,
         ~UserTaken(u), InsertEmp(e, u, d), UNCHANGED deptTable,
         \/ hired' = hired
         \/ UserTaken("admin") /\ hired' = hired \cup {e}
  PROVE  Shared' /\ Grows
<1> Shared /\ TablesTyped /\ d \in Depts
  BY DEF Inv, Shared, TablesTyped
<1>1. TablesTyped'
  BY DEF TablesTyped, InsertEmp, deptTable
<1>2. /\ username'[e] = u /\ department'[e] = d
      /\ \A f \in emps : /\ username'[f] = username[f] /\ username[f] # u
                         /\ department'[f] = department[f]
  BY DEF TablesTyped, InsertEmp, UserTaken
<1>3. UniqueNames'
  BY <1>2 DEF Shared, UniqueNames, InsertEmp, deptTable
<1>4. Forest'
  BY <1>2 DEF Shared, Forest, NoParentCycle, NoDanglingReference, InsertEmp,
     deptTable
<1>5. SeedsNotForestalled'
  <2>1. \A f \in hired' : username'[f] # "admin"
    BY <1>2 DEF Shared, TablesTyped, SeedsNotForestalled, UserTaken
  <2> QED
    BY <2>1 DEF Shared, SeedsNotForestalled, deptTable
<1>6. Grows
  BY <1>2 DEF Grows, InsertEmp, deptTable
<1> QED
  BY <1>1, <1>3, <1>4, <1>5, <1>6 DEF Shared

-----------------------------------------------------------------------------
(* Every step keeps the invariant.                                         *)
LEMMA InvStep == Inv /\ [Next]_vars => Inv'
<1> SUFFICES ASSUME Inv, [Next]_vars
             PROVE  Inv'
  OBVIOUS
<1>h. HandlerInv(Phases) /\ Shared /\ TablesTyped
  BY DEF Inv, Shared
<1>1. CASE UNCHANGED vars
  <2>1. Shared' /\ Grows
    BY <1>1, SharedKept DEF vars
  <2>2. Local'
    BY <1>1, <2>1, StaysBacked DEF Inv, Local, vars, control
  <2>3. HandlerInv(Phases)'
    BY <1>1, <1>h, HandlerStutter DEF vars
  <2> QED
    BY <2>1, <2>2, <2>3 DEF Inv
<1>2. ASSUME NEW w \in Workers, Step(w)
      PROVE  Inv'
  <2>a. ASSUME NEW c \in Codes, Abandon(w, c), pc[w] # "audit",
               UNCHANGED <<deptTable, empTable>>
        PROVE  Inv'
    <3>1. HandlerInv(Phases)'
      BY <1>h, <2>a, AbandonKeeps
    <3> QED
      BY <2>a, <3>1, SharedKept, LocalKept DEF Abandon, Inv
  <2>b. ASSUME NEW c \in Codes, Arrive(w), Answer(w, c),
               UNCHANGED <<deptTable, empTable>>
        PROVE  Inv'
    <3>1. HandlerInv(Phases)'
      BY <1>h, <2>b, ArriveAnswer
    <3> QED
      BY <2>b, <3>1, SharedKept, LocalKept DEF Inv
  <2>c. ASSUME NEW phase \in Phases, NEW j, Arrive(w), Await(w, phase, j),
               Backed(phase, j), UNCHANGED <<deptTable, empTable>>
        PROVE  Inv'
    <3>1. HandlerInv(Phases)'
      BY <1>h, <2>c, ArriveAwait DEF Phases
    <3>2. Shared' /\ Grows
      BY <2>c, SharedKept
    <3>3. Local'
      BY <2>c, <3>2, StaysBacked, LocalKept
    <3> QED
      BY <3>1, <3>2, <3>3 DEF Inv
  <2>d. ASSUME NEW phase \in Phases, NEW j, pc[w] \in Phases, Await(w, phase, j),
               Backed(phase, j), UNCHANGED <<trail, begun>>, Shared', Grows
        PROVE  Inv'
    <3>1. HandlerInv(Phases)'
      BY <1>h, <2>d, AwaitKeeps DEF Phases
    <3>2. Local'
      BY <2>d, StaysBacked, LocalKept
    <3> QED
      BY <2>d, <3>1, <3>2 DEF Inv
  <2>e. ASSUME NEW a \in AuditActions, NEW c \in {200, 201}, pc[w] \in Phases,
               Commit(w, a, c), Shared', Grows
        PROVE  Inv'
    <3>1. HandlerInv(Phases)'
      BY <1>h, <2>e, CommitKeeps DEF Phases
    <3>2. Local'
      BY <2>e, LocalKept
    <3> QED
      BY <2>e, <3>1, <3>2 DEF Inv
  <2>f. Backed(pc[w], job[w])
    BY DEF Inv, Local
  <2>1. CASE Begin(w)
    <3>1. PICK r \in Requests : Await(w, "seed", [then |-> r])
      BY <2>1 DEF Begin
    <3>2. Backed("seed", [then |-> r])
      BY DEF Backed, SeedJob
    <3> QED
      BY <2>1, <2>c, <3>1, <3>2 DEF Begin, Phases
  <2>2. CASE SeedLookup(w)
    <3>1. PICK s \in SeedDepts \cup {"admin"} :
             Missing(s) /\ Await(w, "plant", [then |-> job[w].then, seed |-> s])
      BY <2>2 DEF SeedLookup
    <3>2. Backed("plant", [then |-> job[w].then, seed |-> s])
      BY <2>2, <2>f, <3>1
      DEF Backed, SeedLookup, SeedJob, PlantJob, Missing, SeedDepts
    <3> QED
      BY <2>2, <2>d, <3>1, <3>2, SharedKept DEF SeedLookup, Phases
  <2>3. CASE PlantDept(w)
    <3> DEFINE s == job[w].seed
    <3>1. job[w] \in PlantJob /\ s \in SeedDepts /\ pc[w] \in Phases
      BY <2>3, <2>f DEF Backed, PlantDept, Phases
    <3>2. CASE DeptTaken(s, s)
      BY <2>3, <2>a, <3>2 DEF PlantDept, Codes
    <3>3. CASE ~DeptTaken(s, s)
      <4>1. /\ InsertDept(s, s, Top) /\ UNCHANGED <<empTable, trail, begun>>
            /\ Await(w, "seed", [then |-> job[w].then])
        BY <2>3, <3>3 DEF PlantDept
      <4>2. s \in Depts /\ s \in DeptNames
        BY <3>1, IdentityAssumption
      <4>3. Shared' /\ Grows
        BY <3>1, <3>3, <4>1, <4>2, DeptShared
      <4>4. Backed("seed", [then |-> job[w].then])
        BY <3>1 DEF Backed, PlantJob, SeedJob
      <4> QED
        BY <2>d, <3>1, <4>1, <4>3, <4>4 DEF Phases
    <3> QED
      BY <3>2, <3>3
  <2>4. CASE PlantAdmin(w)
    <3>1. job[w] \in PlantJob /\ "engineering" \in depts /\ pc[w] \in Phases
      BY <2>4, <2>f DEF Backed, PlantAdmin, Phases, SeedDepts
    <3>2. CASE UserTaken("admin")
      BY <2>4, <2>a, <3>2 DEF PlantAdmin, Codes
    <3>3. CASE ~UserTaken("admin")
      <4>1. PICK e \in Emps \ emps : InsertEmp(e, "admin", "engineering")
        BY <2>4, <3>3 DEF PlantAdmin
      <4>2. Shared' /\ Grows
        BY <2>4, <3>1, <3>3, <4>1, EmpShared, IdentityAssumption DEF PlantAdmin
      <4>3. Backed("seed", [then |-> job[w].then])
        BY <3>1 DEF Backed, PlantJob, SeedJob
      <4> QED
        BY <2>4, <2>d, <3>1, <3>3, <4>2, <4>3 DEF PlantAdmin, Phases
    <3> QED
      BY <3>2, <3>3
  <2>5. CASE Read(w)
    BY <2>5, <2>a DEF Read, Abandon, Codes
  <2>6. CASE HireLookup(w)
    <3>1. CASE \E c \in {400, 422} : Answer(w, c)
      BY <2>6, <2>a, <3>1 DEF HireLookup, Abandon, Codes
    <3>2. ASSUME NEW u \in Usernames, NEW d \in Depts, d \in depts,
                 Await(w, "hire", [username |-> u, department |-> d])
          PROVE  Inv'
      <4>1. Backed("hire", [username |-> u, department |-> d])
        BY <2>6, <3>2 DEF Backed, HireLookup, HireJob
      <4> QED
        BY <2>6, <2>d, <3>2, <4>1, SharedKept DEF HireLookup, Phases
    <3> QED
      BY <2>6, <3>1, <3>2 DEF HireLookup
  <2>7. CASE HireCommit(w)
    <3>1. /\ job[w] \in HireJob /\ job[w].department \in depts /\ Seeded
          /\ pc[w] \in Phases
      BY <2>7, <2>f DEF Backed, HireCommit, Phases
    <3>2. CASE UserTaken(job[w].username)
      BY <2>7, <2>a, <3>2 DEF HireCommit, Codes
    <3>3. CASE ~UserTaken(job[w].username)
      <4>1. PICK e \in Emps \ emps :
               /\ InsertEmp(e, job[w].username, job[w].department)
               /\ hired' = hired \cup {e}
        BY <2>7, <3>3 DEF HireCommit
      <4>2. job[w].username \in Usernames
        BY <3>1 DEF HireJob
      <4>3. Shared' /\ Grows
        BY <2>7, <3>1, <3>3, <4>1, <4>2, EmpShared DEF HireCommit, Seeded
      <4> QED
        BY <2>7, <2>e, <3>1, <3>3, <4>3 DEF HireCommit, AuditActions
    <3> QED
      BY <3>2, <3>3
  <2>8. CASE FoundLookup(w)
    <3>1. CASE \E c \in {400, 422} : Answer(w, c)
      BY <2>8, <2>a, <3>1 DEF FoundLookup, Abandon, Codes
    <3>2. ASSUME NEW d \in Depts, NEW n \in DeptNames, NEW p \in Depts \cup {Top},
                 p \in (depts \ {d}) \cup {Top},
                 Await(w, "found", [id |-> d, name |-> n, parent |-> p])
          PROVE  Inv'
      <4>1. Backed("found", [id |-> d, name |-> n, parent |-> p])
        BY <2>8, <3>2 DEF Backed, FoundLookup, FoundJob
      <4> QED
        BY <2>8, <2>d, <3>2, <4>1, SharedKept DEF FoundLookup, Phases
    <3> QED
      BY <2>8, <3>1, <3>2 DEF FoundLookup
  <2>9. CASE FoundCommit(w)
    <3>1. /\ job[w] \in FoundJob /\ job[w].parent \in depts \cup {Top} /\ Seeded
          /\ pc[w] \in Phases
      BY <2>9, <2>f DEF Backed, FoundCommit, Phases
    <3>2. CASE DeptTaken(job[w].id, job[w].name)
      BY <2>9, <2>a, <3>2 DEF FoundCommit, Codes
    <3>3. CASE ~DeptTaken(job[w].id, job[w].name)
      <4>1. /\ InsertDept(job[w].id, job[w].name, job[w].parent)
            /\ Commit(w, "department.created", 201) /\ UNCHANGED empTable
        BY <2>9, <3>3 DEF FoundCommit
      <4>2. job[w].id \in Depts /\ job[w].name \in DeptNames
        BY <3>1 DEF FoundJob
      <4>3. Shared' /\ Grows
        BY <3>1, <3>3, <4>1, <4>2, DeptShared DEF Seeded
      <4> QED
        BY <2>e, <3>1, <4>1, <4>3 DEF AuditActions
    <3> QED
      BY <3>2, <3>3
  <2>10. CASE StatusLoad(w)
    <3>1. PICK e \in Emps, b \in BOOLEAN :
             \/ Answer(w, 404)
             \/ /\ e \in emps
                /\ Await(w, "status",
                         [emp |-> e, loaded |-> active[e], wanted |-> b])
      BY <2>10 DEF StatusLoad
    <3>2. e \in emps =>
             Backed("status", [emp |-> e, loaded |-> active[e], wanted |-> b])
      BY <1>h DEF Backed, StatusJob, TablesTyped
    <3> QED
      BY <2>10, <2>b, <2>c, <3>1, <3>2 DEF StatusLoad, Phases, Codes
  <2>11. CASE StatusCommit(w)
    <3>1. job[w] \in StatusJob /\ pc[w] \in Phases
      BY <2>11, <2>f DEF Backed, StatusCommit, Phases
    <3>2. active' \in [Emps -> BOOLEAN]
      BY <1>h, <2>11, <3>1 DEF StatusCommit, StatusJob, TablesTyped
    <3>3. Shared' /\ Grows
      BY <1>h, <2>11, <3>2
      DEF StatusCommit, Shared, TablesTyped, UniqueNames, Forest, NoParentCycle,
          NoDanglingReference, SeedsNotForestalled, Grows, deptTable
    <3> QED
      BY <2>11, <2>e, <3>1, <3>3 DEF StatusCommit, AuditActions
  <2>12. CASE Finish(w) \/ Around(w)
    <3>1. HandlerInv(Phases)' /\ \E c : Answer(w, c)
      BY <1>h, <2>12, AroundKeeps DEF Finish, Around
    <3> QED
      BY <2>12, <3>1, SharedKept, LocalKept DEF Finish, Around, Inv
  <2> QED
    BY <1>2, <2>1, <2>2, <2>3, <2>4, <2>5, <2>6, <2>7, <2>8, <2>9, <2>10, <2>11,
       <2>12 DEF Step, Proceed
<1> QED
  BY <1>1, <1>2 DEF Next

(* Types hold, names are unique, departments are a forest, nothing refers  *)
(* to a missing row, and no client takes a seed's place, however seeding   *)
(* and creates interleave and wherever requests die.                       *)
THEOREM TablesHold ==
  Spec => [](/\ TypeOK /\ UniqueNames /\ NoParentCycle
             /\ NoDanglingReference /\ SeedsNotForestalled)
<1>1. Inv => JobsTyped
  BY DEF Inv, Local, Backed, JobsTyped
<1>2. Inv => /\ TypeOK /\ UniqueNames /\ NoParentCycle
             /\ NoDanglingReference /\ SeedsNotForestalled
  BY <1>1 DEF Inv, Shared, Forest, HandlerInv, TypeOK
<1> QED
  BY InvInit, InvStep, <1>2, PTL DEF Spec
-----------------------------------------------------------------------------
(* One worker: nothing comes between a request's lookup and its commit.    *)

(* A held copy is the row, and a seed that was missing still is.           *)
CopiesCurrent ==
    \A w \in Workers :
        /\ pc[w] = "plant" => Missing(job[w].seed)
        /\ pc[w] = "status" => active[job[w].emp] = job[w].loaded

(* _ensure_seed's insert is not refused, neither for its id nor for its    *)
(* name nor for its login.                                                 *)
SeedsPlantable ==
    \A w \in Workers : pc[w] = "plant" =>
        LET s == job[w].seed IN
        IF s = "admin" THEN ~UserTaken(s) ELSE ~DeptTaken(s, s)

(* An accepted status change leaves the account as it was asked to be.     *)
StatusStored ==
    \A w \in Workers :
        StatusCommit(w) => active'[job[w].emp] = job[w].wanted

SerialInv == Inv /\ CopiesCurrent

(* A request in a phase that holds no copy has none to go stale.           *)
LEMMA NothingHeld ==
  ASSUME \A u, v \in Workers : u = v, NEW w \in Workers,
         pc'[w] \notin {"plant", "status"}
  PROVE  CopiesCurrent'
  BY DEF CopiesCurrent

LEMMA SerialStep ==
  ASSUME \A u, v \in Workers : u = v, SerialInv, [Next]_vars
  PROVE  CopiesCurrent'
<1>1. CASE UNCHANGED vars
  BY <1>1 DEF SerialInv, CopiesCurrent, Missing, UserTaken,
              vars, deptTable, empTable, control
<1>2. ASSUME NEW w \in Workers, Step(w)
      PROVE  CopiesCurrent'
  <2> DOMAIN pc = Workers /\ DOMAIN job = Workers
    BY Domains DEF SerialInv
  <2>1. ASSUME NEW c, Answer(w, c)
        PROVE  CopiesCurrent'
    BY <2>1, NothingHeld DEF Answer
  <2>2. ASSUME NEW phase \in {"seed", "hire", "found", "audit"}, NEW j,
               Await(w, phase, j)
        PROVE  CopiesCurrent'
    BY <2>2, NothingHeld DEF Await
  <2>3. CASE Begin(w) \/ HireLookup(w) \/ FoundLookup(w)
    BY <2>1, <2>2, <2>3 DEF Begin, HireLookup, FoundLookup
  <2>4. CASE PlantDept(w) \/ PlantAdmin(w) \/ Read(w)
    BY <2>1, <2>2, <2>4 DEF PlantDept, PlantAdmin, Read, Abandon
  <2>5. CASE HireCommit(w) \/ FoundCommit(w) \/ StatusCommit(w)
    BY <2>1, <2>2, <2>5
    DEF HireCommit, FoundCommit, StatusCommit, Abandon, Commit
  <2>6. CASE Finish(w) \/ Around(w)
    BY <2>1, <2>6 DEF Finish, Around, RecordAudit, Forbid, Fail
  <2>7. CASE SeedLookup(w)
    <3>1. PICK s \in SeedDepts \cup {"admin"} :
             Missing(s) /\ Await(w, "plant", [then |-> job[w].then, seed |-> s])
      BY <2>7 DEF SeedLookup
    <3>2. pc'[w] = "plant" /\ job'[w].seed = s
      BY <3>1 DEF Await
    <3>3. Missing(s)'
      BY <2>7, <3>1 DEF SeedLookup, Missing, UserTaken, deptTable, empTable
    <3> QED
      BY <3>2, <3>3 DEF CopiesCurrent
  <2>8. CASE StatusLoad(w)
    <3>1. ASSUME NEW e \in Emps, NEW b \in BOOLEAN,
                 Await(w, "status",
                       [emp |-> e, loaded |-> active[e], wanted |-> b])
          PROVE  CopiesCurrent'
      BY <2>8, <3>1 DEF StatusLoad, Await, CopiesCurrent, empTable
    <3> QED
      BY <2>1, <2>8, <3>1 DEF StatusLoad
  <2> QED
    BY <1>2, <2>3, <2>4, <2>5, <2>6, <2>7, <2>8 DEF Step, Proceed
<1> QED
  BY <1>1, <1>2 DEF Next

(* With one request at a time no insert of _ensure_seed is ever refused,   *)
(* for which it relies on no client having taken a seed's place; and a     *)
(* status change that is accepted is stored, although set_status may write *)
(* nothing.                                                                *)
THEOREM SerialAccounts ==
  ASSUME \A u, v \in Workers : u = v
  PROVE  Spec => []SeedsPlantable /\ [][StatusStored]_vars
<1>1. Init => SerialInv
  BY InvInit DEF SerialInv, Init, HandlerInit, CopiesCurrent
<1>2. SerialInv /\ [Next]_vars => SerialInv'
  BY SerialStep, InvStep DEF SerialInv
<1>3. SerialInv => SeedsPlantable
  <2> SUFFICES ASSUME SerialInv, NEW w \in Workers, pc[w] = "plant"
               PROVE  IF job[w].seed = "admin" THEN ~UserTaken(job[w].seed)
                      ELSE ~DeptTaken(job[w].seed, job[w].seed)
    BY DEF SeedsPlantable
  <2>1. Missing(job[w].seed)
    BY DEF SerialInv, CopiesCurrent
  <2>2. \A s \in SeedDepts \ depts : \A d \in depts : deptName[d] # s
    BY DEF SerialInv, Inv, Shared, SeedsNotForestalled
  <2> QED
    BY <2>1, <2>2 DEF Missing, DeptTaken, SeedDepts
<1>4. SerialInv /\ [Next]_vars => [StatusStored]_vars
  <2> SUFFICES ASSUME SerialInv, NEW w \in Workers, StatusCommit(w)
               PROVE  active'[job[w].emp] = job[w].wanted
    BY DEF StatusStored
  <2>1. /\ job[w].emp \in Emps /\ active \in [Emps -> BOOLEAN]
        /\ active[job[w].emp] = job[w].loaded
    BY DEF StatusCommit, SerialInv, Inv, Shared, Local, Backed, StatusJob,
           TablesTyped, CopiesCurrent
  <2> QED
    BY <2>1 DEF StatusCommit
<1> QED
  BY <1>1, <1>2, <1>3, <1>4, PTL DEF Spec
=============================================================================
