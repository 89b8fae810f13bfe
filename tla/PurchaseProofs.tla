---------------------------- MODULE PurchaseProofs ----------------------------
(***************************************************************************)
(* Proofs about Purchase for every set of workers, requests, orders and    *)
(* codes and every number of HTTP requests.                                *)
(***************************************************************************)
EXTENDS Purchase, HandlerProofs

-----------------------------------------------------------------------------
(* The inductive invariant.  A transition commits a target that was legal  *)
(* for the status it loaded, not for the status it overwrites; what saves  *)
(* the paper trail is that the loaded status is one the row has had, and   *)
(* that histories are closed under the predecessors the tables give.       *)

(* What a held job promises: its row exists, its loaded status is one the  *)
(* row has had, and its target is legal for that status.                   *)
JobsBacked ==
    \A w \in Workers :
        /\ pc[w] = "decide" => /\ job[w].pr \in prs
                               /\ job[w].loaded \in prSeen[job[w].pr]
                               /\ <<job[w].loaded, job[w].target>> \in RequestMoves
        /\ pc[w] = "place" => /\ job[w].pr \in prs
                              /\ job[w].loaded = "approved"
                              /\ "approved" \in prSeen[job[w].pr]
        /\ pc[w] = "advance" => /\ job[w].po \in pos
                                /\ job[w].loaded \in poSeen[job[w].po]
                                /\ <<job[w].loaded, job[w].target>> \in OrderMoves

Local == JobsTyped /\ JobsBacked

(* A row has had its present status, and no later stage without the one    *)
(* before it.                                                              *)
Histories ==
    /\ \A p \in prs : /\ prStatus[p] \in prSeen[p]
                      /\ prSeen[p] \cap {"approved", "rejected"} # {}
                            => "submitted" \in prSeen[p]
    /\ \A o \in pos : /\ poStatus[o] \in poSeen[o]
                      /\ "closed" \in poSeen[o] => "received" \in poSeen[o]

Shared == TablesTyped /\ Histories /\ OrdersFollowApproval /\ UniqueCode

Inv == Shared /\ Local /\ HandlerInv(Phases)

(* Nothing exists at first.                                                *)
LEMMA InvInit == Init => Inv
<1> SUFFICES ASSUME Init PROVE Inv
  OBVIOUS
<1>1. HandlerInv(Phases)
  BY HandlerInitial DEF Init
<1>2. Shared
  BY PurchaseAssumption
  DEF Init, Shared, TablesTyped, Histories, OrdersFollowApproval, UniqueCode,
      RequestStatuses, OrderStatuses
<1>3. Local
  BY DEF Init, HandlerInit, Local, JobsTyped, JobsBacked
<1> QED
  BY <1>1, <1>2, <1>3 DEF Inv

(* pc and job are functions on the workers.                                *)
LEMMA Domains == Inv => DOMAIN pc = Workers /\ DOMAIN job = Workers
  BY DEF Inv, HandlerInv, HandlerTyped

(* What a worker may hold while it awaits the commit of a phase.           *)
Backed(phase, j) ==
    \/ phase = "file" /\ j \in FileJob
    \/ /\ phase = "decide" /\ j \in DecideJob
       /\ j.pr \in prs /\ j.loaded \in prSeen[j.pr]
       /\ <<j.loaded, j.target>> \in RequestMoves
    \/ /\ phase = "place" /\ j \in PlaceJob
       /\ j.pr \in prs /\ j.loaded = "approved" /\ "approved" \in prSeen[j.pr]
    \/ /\ phase = "advance" /\ j \in AdvanceJob
       /\ j.po \in pos /\ j.loaded \in poSeen[j.po]
       /\ <<j.loaded, j.target>> \in OrderMoves

(* Rows and histories only grow, so a job once backed stays backed.        *)
Grows ==
    /\ prs \subseteq prs' /\ \A p \in prs : prSeen[p] \subseteq prSeen'[p]
    /\ pos \subseteq pos' /\ \A o \in pos : poSeen[o] \subseteq poSeen'[o]

(* A worker that answers, or commits its business change, holds no job of  *)
(* a phase any more; the jobs of the others stay backed.                   *)
LEMMA LeaveLocal ==
  ASSUME Inv, Grows, NEW w \in Workers,
         \/ \E c : Answer(w, c)
         \/ \E a, c : Commit(w, a, c)
  PROVE  Local'
<1> DOMAIN pc = Workers /\ DOMAIN job = Workers
  BY Domains
<1>1. pc'[w] \in {"idle", "audit"}
  BY DEF Answer, Commit, Await
<1>2. \A v \in Workers \ {w} : pc'[v] = pc[v] /\ job'[v] = job[v]
  BY DEF Answer, Commit, Await
<1>3. JobsTyped'
  BY <1>1, <1>2 DEF Inv, Local, JobsTyped
<1>4. JobsBacked'
  <2> SUFFICES ASSUME NEW v \in Workers, v # w
               PROVE  /\ pc[v] = "decide" =>
                           /\ job[v].pr \in prs'
                           /\ job[v].loaded \in prSeen'[job[v].pr]
                           /\ <<job[v].loaded, job[v].target>> \in RequestMoves
                      /\ pc[v] = "place" =>
                           /\ job[v].pr \in prs'
                           /\ job[v].loaded = "approved"
                           /\ "approved" \in prSeen'[job[v].pr]
                      /\ pc[v] = "advance" =>
                           /\ job[v].po \in pos'
                           /\ job[v].loaded \in poSeen'[job[v].po]
                           /\ <<job[v].loaded, job[v].target>> \in OrderMoves
    BY <1>1, <1>2 DEF JobsBacked
  <2> QED
    BY DEF Inv, Local, JobsBacked, Grows
<1> QED
  BY <1>3, <1>4 DEF Local

(* A worker that awaits holds what its phase asks for.                     *)
LEMMA AwaitLocal ==
  ASSUME Inv, UNCHANGED <<prTable, poTable>>, NEW w \in Workers, NEW phase, NEW j,
         Await(w, phase, j), Backed(phase, j)
  PROVE  Local'
<1> DOMAIN pc = Workers /\ DOMAIN job = Workers
  BY Domains
<1>1. pc'[w] = phase /\ job'[w] = j
  BY DEF Await
<1>2. \A v \in Workers \ {w} : pc'[v] = pc[v] /\ job'[v] = job[v]
  BY DEF Await
<1>3. JobsTyped'
  BY <1>1, <1>2 DEF Inv, Local, JobsTyped, Backed
<1>4. JobsBacked'
  BY <1>1, <1>2 DEF Inv, Local, JobsBacked, Backed, prTable, poTable
<1> QED
  BY <1>3, <1>4 DEF Local

(* What the tables hold depends on the tables alone.                       *)
LEMMA SharedKept ==
  ASSUME Inv, UNCHANGED <<prTable, poTable, overwritten>>
  PROVE  Shared' /\ Grows
  BY DEF Inv, Shared, TablesTyped, Histories, OrdersFollowApproval, UniqueCode,
     Grows, prTable, poTable

-----------------------------------------------------------------------------
(* The four commits. *)

(* create_request's commit files a fresh row under a free code.            *)
LEMMA FileShared ==
  ASSUME Inv, NEW w \in Workers, pc[w] = "file", ~CodeTaken(job[w].code),
         NEW p \in Prs \ prs,
         prs' = prs \cup {p},
         code' = [code EXCEPT ![p] = job[w].code],
         prStatus' = [prStatus EXCEPT ![p] = "draft"],
         prSeen' = [prSeen EXCEPT ![p] = {"draft"}],
         UNCHANGED <<poTable, overwritten>>
  PROVE  Shared' /\ Grows
<1> TablesTyped /\ Histories /\ OrdersFollowApproval /\ UniqueCode
  BY DEF Inv, Shared
<1>1. job[w].code \in DocCodes
  BY DEF Inv, Local, JobsTyped, FileJob
<1>2. TablesTyped'
  BY <1>1 DEF TablesTyped, RequestStatuses, poTable
<1>3. ASSUME NEW q \in prs
      PROVE  /\ code'[q] = code[q] /\ prStatus'[q] = prStatus[q]
             /\ prSeen'[q] = prSeen[q]
  BY DEF TablesTyped
<1>4. /\ code'[p] = job[w].code /\ prStatus'[p] = "draft" /\ prSeen'[p] = {"draft"}
  BY DEF TablesTyped
<1>5. Histories'
  BY <1>3, <1>4 DEF Histories, poTable
<1>6. OrdersFollowApproval'
  BY <1>3 DEF OrdersFollowApproval, poTable
<1>7. UniqueCode'
  BY <1>3, <1>4 DEF UniqueCode, CodeTaken
<1>8. Grows
  BY <1>3 DEF Grows, poTable
<1> QED
  BY <1>2, <1>5, <1>6, <1>7, <1>8 DEF Shared

(* A request's transition adds a target whose predecessor the row has had. *)
LEMMA DecideShared ==
  ASSUME Inv, NEW w \in Workers, DecideCommit(w)
  PROVE  Shared' /\ Grows
<1> DEFINE d == job[w]
<1> TablesTyped /\ Histories /\ OrdersFollowApproval /\ UniqueCode
  BY DEF Inv, Shared
<1>1. /\ d \in DecideJob /\ d.pr \in prs /\ d.loaded \in prSeen[d.pr]
      /\ <<d.loaded, d.target>> \in RequestMoves
  BY DEF DecideCommit, Inv, Local, JobsTyped, JobsBacked
<1>2. d.pr \in Prs /\ d.target \in RequestTargets
  BY <1>1 DEF DecideJob
<1>3. /\ prStatus' = [prStatus EXCEPT ![d.pr] = d.target]
      /\ prSeen' = [prSeen EXCEPT ![d.pr] = @ \cup {d.target}]
      /\ overwritten' \in {overwritten, overwritten \cup {d.pr}}
      /\ prs' = prs /\ code' = code /\ poTable' = poTable
  BY DEF DecideCommit
<1>4. d.target \in {"approved", "rejected"} => d.loaded = "submitted"
  BY <1>1 DEF RequestMoves
<1> HIDE DEF d
<1>5. TablesTyped'
  <2>1. d.target \in RequestStatuses
    BY <1>2 DEF RequestTargets, RequestStatuses
  <2>2. prStatus' \in [Prs -> RequestStatuses]
    BY <1>2, <1>3, <2>1 DEF TablesTyped
  <2>3. prSeen' \in [Prs -> SUBSET RequestStatuses]
    BY <1>2, <1>3, <2>1 DEF TablesTyped
  <2> QED
    BY <1>2, <1>3, <2>2, <2>3 DEF TablesTyped, poTable
<1>6. ASSUME NEW q \in prs, q # d.pr
      PROVE  prStatus'[q] = prStatus[q] /\ prSeen'[q] = prSeen[q]
  BY <1>3, <1>6 DEF TablesTyped
<1>7. /\ prStatus'[d.pr] = d.target
      /\ prSeen'[d.pr] = prSeen[d.pr] \cup {d.target}
  BY <1>2, <1>3 DEF TablesTyped
<1>8. Histories'
  <2>1. ASSUME NEW q \in prs
        PROVE  /\ prStatus'[q] \in prSeen'[q]
               /\ prSeen'[q] \cap {"approved", "rejected"} # {}
                     => "submitted" \in prSeen'[q]
    <3>1. CASE q = d.pr
      BY <1>1, <1>4, <1>7, <3>1 DEF Histories
    <3>2. CASE q # d.pr
      BY <1>6, <3>2 DEF Histories
    <3> QED
      BY <3>1, <3>2
  <2> QED
    BY <1>3, <2>1 DEF Histories, poTable
<1>9. Grows
  BY <1>3, <1>6, <1>7 DEF Grows, poTable
<1>10. OrdersFollowApproval'
  BY <1>3, <1>9 DEF OrdersFollowApproval, Grows, poTable
<1>11. UniqueCode'
  BY <1>3 DEF UniqueCode
<1> QED
  BY <1>5, <1>8, <1>9, <1>10, <1>11 DEF Shared

(* create_order's commit adds an order to a request that has been approved. *)
LEMMA PlaceShared ==
  ASSUME Inv, NEW w \in Workers, pc[w] = "place",
         NEW o \in Pos \ pos,
         pos' = pos \cup {o},
         prOf' = [prOf EXCEPT ![o] = job[w].pr],
         poStatus' = [poStatus EXCEPT ![o] = "issued"],
         poSeen' = [poSeen EXCEPT ![o] = {"issued"}],
         unapproved' \in {unapproved, unapproved \cup {o}},
         UNCHANGED <<prTable, overwritten>>
  PROVE  Shared' /\ Grows
<1> TablesTyped /\ Histories /\ OrdersFollowApproval /\ UniqueCode
  BY DEF Inv, Shared
<1>1. job[w].pr \in Prs /\ job[w].pr \in prs /\ "approved" \in prSeen[job[w].pr]
  BY DEF Inv, Local, JobsTyped, JobsBacked, PlaceJob
<1>2. TablesTyped'
  BY <1>1 DEF TablesTyped, OrderStatuses, prTable
<1>3. ASSUME NEW q \in pos
      PROVE  /\ prOf'[q] = prOf[q] /\ poStatus'[q] = poStatus[q]
             /\ poSeen'[q] = poSeen[q]
  BY DEF TablesTyped
<1>4. prOf'[o] = job[w].pr /\ poStatus'[o] = "issued" /\ poSeen'[o] = {"issued"}
  BY DEF TablesTyped
<1>5. Histories'
  BY <1>3, <1>4 DEF Histories, prTable
<1>6. OrdersFollowApproval'
  BY <1>1, <1>3, <1>4 DEF OrdersFollowApproval, prTable
<1>7. UniqueCode' /\ Grows
  BY <1>3 DEF UniqueCode, Grows, prTable
<1> QED
  BY <1>2, <1>5, <1>6, <1>7 DEF Shared

(* An order's transition adds a target whose predecessor the row has had.  *)
LEMMA AdvanceShared ==
  ASSUME Inv, NEW w \in Workers, AdvanceCommit(w)
  PROVE  Shared' /\ Grows
<1> DEFINE a == job[w]
<1> TablesTyped /\ Histories /\ OrdersFollowApproval /\ UniqueCode
  BY DEF Inv, Shared
<1>1. /\ a \in AdvanceJob /\ a.po \in pos /\ a.loaded \in poSeen[a.po]
      /\ <<a.loaded, a.target>> \in OrderMoves
  BY DEF AdvanceCommit, Inv, Local, JobsTyped, JobsBacked
<1>2. a.po \in Pos /\ a.target \in OrderTargets
  BY <1>1 DEF AdvanceJob
<1>3. /\ poStatus' = [poStatus EXCEPT ![a.po] = a.target]
      /\ poSeen' = [poSeen EXCEPT ![a.po] = @ \cup {a.target}]
      /\ overwritten' \in {overwritten, overwritten \cup {a.po}}
      /\ pos' = pos /\ prOf' = prOf /\ prTable' = prTable
      /\ unapproved' = unapproved
  BY DEF AdvanceCommit
<1>4. a.target = "closed" => a.loaded = "received"
  BY <1>1 DEF OrderMoves
<1> HIDE DEF a
<1>5. TablesTyped'
  <2>1. a.target \in OrderStatuses
    BY <1>2 DEF OrderTargets, OrderStatuses
  <2>2. poStatus' \in [Pos -> OrderStatuses]
    BY <1>2, <1>3, <2>1 DEF TablesTyped
  <2>3. poSeen' \in [Pos -> SUBSET OrderStatuses]
    BY <1>2, <1>3, <2>1 DEF TablesTyped
  <2> QED
    BY <1>2, <1>3, <2>2, <2>3 DEF TablesTyped, prTable
<1>6. ASSUME NEW q \in pos, q # a.po
      PROVE  poStatus'[q] = poStatus[q] /\ poSeen'[q] = poSeen[q]
  BY <1>3, <1>6 DEF TablesTyped
<1>7. /\ poStatus'[a.po] = a.target
      /\ poSeen'[a.po] = poSeen[a.po] \cup {a.target}
  BY <1>2, <1>3 DEF TablesTyped
<1>8. Histories'
  <2>1. ASSUME NEW q \in pos
        PROVE  /\ poStatus'[q] \in poSeen'[q]
               /\ "closed" \in poSeen'[q] => "received" \in poSeen'[q]
    <3>1. CASE q = a.po
      BY <1>1, <1>4, <1>7, <3>1 DEF Histories
    <3>2. CASE q # a.po
      BY <1>6, <3>2 DEF Histories
    <3> QED
      BY <3>1, <3>2
  <2> QED
    BY <1>3, <2>1 DEF Histories, prTable
<1>9. Grows
  BY <1>3, <1>6, <1>7 DEF Grows, prTable
<1>10. OrdersFollowApproval' /\ UniqueCode'
  BY <1>3 DEF OrdersFollowApproval, UniqueCode, prTable
<1> QED
  BY <1>5, <1>8, <1>9, <1>10 DEF Shared

-----------------------------------------------------------------------------
(* Every step keeps the invariant, and rows and histories only grow.       *)
LEMMA InvStep == Inv /\ [Next]_vars => Inv' /\ Grows
<1> SUFFICES ASSUME Inv, [Next]_vars
             PROVE  Inv' /\ Grows
  OBVIOUS
<1>h. HandlerInv(Phases)
  BY DEF Inv
<1>1. CASE UNCHANGED vars
  <2>1. Local'
    BY <1>1 DEF Inv, Local, JobsTyped, JobsBacked, vars, control, prTable, poTable
  <2>2. HandlerInv(Phases)'
    BY <1>1, <1>h, HandlerStutter DEF vars
  <2>3. Shared' /\ Grows
    BY <1>1, SharedKept DEF vars
  <2> QED
    BY <2>1, <2>2, <2>3 DEF Inv
<1>2. ASSUME NEW w \in Workers, Step(w)
      PROVE  Inv' /\ Grows
  <2>a. ASSUME NEW c \in Codes, Abandon(w, c), pc[w] # "audit",
               UNCHANGED <<prTable, poTable, overwritten>>
        PROVE  Inv' /\ Grows
    <3>1. HandlerInv(Phases)'
      BY <1>h, <2>a, AbandonKeeps
    <3> QED
      BY <2>a, <3>1, SharedKept, LeaveLocal DEF Abandon, Inv
  <2>b. ASSUME NEW c \in Codes, Arrive(w), Answer(w, c),
               UNCHANGED <<prTable, poTable, overwritten>>
        PROVE  Inv' /\ Grows
    <3>1. HandlerInv(Phases)'
      BY <1>h, <2>b, ArriveAnswer
    <3> QED
      BY <2>b, <3>1, SharedKept, LeaveLocal DEF Inv
  <2>c. ASSUME NEW phase \in Phases, NEW j, Arrive(w), Await(w, phase, j),
               Backed(phase, j), UNCHANGED <<prTable, poTable, overwritten>>
        PROVE  Inv' /\ Grows
    <3>1. HandlerInv(Phases)'
      BY <1>h, <2>c, ArriveAwait DEF Phases
    <3> QED
      BY <2>c, <3>1, SharedKept, AwaitLocal DEF Inv
  <2>1. CASE FileLookup(w)
    <3>1. PICK c \in DocCodes :
             Answer(w, 409) \/ Await(w, "file", [code |-> c])
      BY <2>1 DEF FileLookup
    <3>2. Backed("file", [code |-> c])
      BY DEF Backed, FileJob
    <3> QED
      BY <2>1, <2>b, <2>c, <3>1, <3>2 DEF FileLookup, Phases, Codes
  <2>2. CASE FileCommit(w)
    <3>1. CASE CodeTaken(job[w].code)
      BY <2>2, <2>a, <3>1 DEF FileCommit, Codes
    <3>2. CASE ~CodeTaken(job[w].code)
      <4>1. Commit(w, "purchase_request.created", 201) /\ pc[w] = "file"
        BY <2>2, <3>2 DEF FileCommit
      <4>2. HandlerInv(Phases)'
        BY <1>h, <4>1, CommitKeeps, "purchase_request.created" \in AuditActions
        DEF AuditActions
      <4>3. Shared' /\ Grows
        BY <2>2, <3>2, FileShared DEF FileCommit
      <4> QED
        BY <4>1, <4>2, <4>3, LeaveLocal DEF Inv
    <3> QED
      BY <3>1, <3>2
  <2>3. CASE DecideLoad(w)
    <3>1. PICK p \in Prs, t \in RequestTargets :
             \/ Answer(w, 404)
             \/ Answer(w, 409)
             \/ /\ p \in prs /\ RequestMayMove(prStatus[p], t)
                /\ Await(w, "decide",
                         [pr |-> p, loaded |-> prStatus[p], target |-> t])
      BY <2>3 DEF DecideLoad
    <3>2. ASSUME p \in prs, RequestMayMove(prStatus[p], t)
          PROVE  Backed("decide", [pr |-> p, loaded |-> prStatus[p], target |-> t])
      BY <3>2 DEF Backed, DecideJob, RequestMayMove, Inv, Shared, TablesTyped, Histories
    <3> QED
      BY <2>3, <2>b, <2>c, <3>1, <3>2 DEF DecideLoad, Phases, Codes
  <2>4. CASE DecideCommit(w)
    <3>1. Commit(w, "purchase_request.status_changed", 200) /\ pc[w] = "decide"
      BY <2>4 DEF DecideCommit
    <3>2. HandlerInv(Phases)'
      BY <1>h, <3>1, CommitKeeps, "purchase_request.status_changed" \in AuditActions
      DEF AuditActions
    <3> QED
      BY <2>4, <3>1, <3>2, DecideShared, LeaveLocal DEF Inv
  <2>5. CASE PlaceLoad(w)
    <3>1. PICK p \in Prs :
             \/ Answer(w, 422)
             \/ Answer(w, 409)
             \/ /\ p \in prs /\ MayOrder(prStatus[p])
                /\ Await(w, "place", [pr |-> p, loaded |-> prStatus[p]])
      BY <2>5 DEF PlaceLoad
    <3>2. ASSUME p \in prs, MayOrder(prStatus[p])
          PROVE  Backed("place", [pr |-> p, loaded |-> prStatus[p]])
      BY <3>2 DEF TablesTyped, Backed, PlaceJob, MayOrder, Inv, Shared, Histories
    <3> QED
      BY <2>5, <2>b, <2>c, <3>1, <3>2 DEF PlaceLoad, Phases, Codes
  <2>6. CASE PlaceCommit(w)
    <3>1. CASE Abandon(w, 409) /\ UNCHANGED poTable
      BY <2>6, <2>a, <3>1 DEF PlaceCommit, Codes
    <3>2. ASSUME NEW o \in Pos \ pos,
                 pos' = pos \cup {o},
                 prOf' = [prOf EXCEPT ![o] = job[w].pr],
                 poStatus' = [poStatus EXCEPT ![o] = "issued"],
                 poSeen' = [poSeen EXCEPT ![o] = {"issued"}],
                 unapproved' \in {unapproved, unapproved \cup {o}},
                 Commit(w, "purchase_order.created", 201)
          PROVE  Inv' /\ Grows
      <4>1. pc[w] = "place" /\ UNCHANGED <<prTable, overwritten>>
        BY <2>6 DEF PlaceCommit
      <4>2. HandlerInv(Phases)'
        BY <1>h, <3>2, <4>1, CommitKeeps, "purchase_order.created" \in AuditActions
        DEF AuditActions
      <4>3. Shared' /\ Grows
        BY <3>2, <4>1, PlaceShared
      <4> QED
        BY <3>2, <4>2, <4>3, LeaveLocal DEF Inv
    <3> QED
      BY <2>6, <3>1, <3>2 DEF PlaceCommit
  <2>7. CASE AdvanceLoad(w)
    <3>1. PICK o \in Pos, t \in OrderTargets :
             \/ Answer(w, 404)
             \/ Answer(w, 409)
             \/ /\ o \in pos /\ OrderMayMove(poStatus[o], t)
                /\ Await(w, "advance",
                         [po |-> o, loaded |-> poStatus[o], target |-> t])
      BY <2>7 DEF AdvanceLoad
    <3>2. ASSUME o \in pos, OrderMayMove(poStatus[o], t)
          PROVE  Backed("advance", [po |-> o, loaded |-> poStatus[o], target |-> t])
      BY <3>2 DEF Backed, AdvanceJob, OrderMayMove, Inv, Shared, TablesTyped, Histories
    <3> QED
      BY <2>7, <2>b, <2>c, <3>1, <3>2 DEF AdvanceLoad, Phases, Codes
  <2>8. CASE AdvanceCommit(w)
    <3>1. Commit(w, "purchase_order.status_changed", 200) /\ pc[w] = "advance"
      BY <2>8 DEF AdvanceCommit
    <3>2. HandlerInv(Phases)'
      BY <1>h, <3>1, CommitKeeps, "purchase_order.status_changed" \in AuditActions
      DEF AuditActions
    <3> QED
      BY <2>8, <3>1, <3>2, AdvanceShared, LeaveLocal DEF Inv
  <2>9. CASE Around(w)
    <3>1. HandlerInv(Phases)' /\ \E c : Answer(w, c)
      BY <1>h, <2>9, AroundKeeps DEF Around
    <3>2. Shared' /\ Grows
      BY <2>9, SharedKept DEF Around
    <3> QED
      BY <3>1, <3>2, LeaveLocal DEF Inv
  <2> QED
    BY <1>2, <2>1, <2>2, <2>3, <2>4, <2>5, <2>6, <2>7, <2>8, <2>9 DEF Step
<1> QED
  BY <1>1, <1>2 DEF Next

(* Types hold, codes are unique, every order's request has been approved,  *)
(* no stage is skipped, and every commit is accounted for in the audit     *)
(* trail, however the handlers interleave and wherever they die.           *)
THEOREM PaperTrail ==
  Spec => [](/\ TypeOK /\ UniqueCode /\ OrdersFollowApproval
             /\ NoStageSkipped /\ AuditAccounted)
<1>1. Inv => /\ TypeOK /\ UniqueCode /\ OrdersFollowApproval
             /\ NoStageSkipped /\ AuditAccounted
  <2> SUFFICES ASSUME Inv
               PROVE  TypeOK /\ UniqueCode /\ OrdersFollowApproval
                      /\ NoStageSkipped /\ AuditAccounted
    OBVIOUS
  <2>1. TypeOK /\ UniqueCode /\ OrdersFollowApproval /\ AuditAccounted
    BY DEF Inv, Shared, Local, HandlerInv, TypeOK
  <2>2. NoStageSkipped
    BY DEF Inv, Shared, Histories, NoStageSkipped
  <2> QED
    BY <2>1, <2>2
<1> QED
  BY InvInit, InvStep, <1>1, PTL DEF Spec

-----------------------------------------------------------------------------
(* Statuses leave their tables only by overwriting: the load and the       *)
(* commit being apart is the only way out.                                 *)
THEOREM MovesFollowTables == Spec => MovesAlongTables
<1> DEFINE Along ==
      /\ \A p \in prs : prStatus'[p] # prStatus[p] =>
            RequestMayMove(prStatus[p], prStatus'[p]) \/ p \in overwritten'
      /\ \A o \in pos : poStatus'[o] # poStatus[o] =>
            OrderMayMove(poStatus[o], poStatus'[o]) \/ o \in overwritten'
<1>1. Inv /\ [Next]_vars => [Along]_vars
  <2> SUFFICES ASSUME Inv, NEW w \in Workers, Step(w)
               PROVE  Along
    BY DEF Next
  <2>0. /\ prStatus \in [Prs -> RequestStatuses] /\ prs \subseteq Prs
        /\ poStatus \in [Pos -> OrderStatuses] /\ pos \subseteq Pos
    BY DEF Inv, Shared, TablesTyped
  <2>1. CASE DecideCommit(w)
    <3>1. /\ prStatus' = [prStatus EXCEPT ![job[w].pr] = job[w].target]
          /\ prStatus[job[w].pr] # job[w].loaded => job[w].pr \in overwritten'
          /\ poStatus' = poStatus
      BY <2>1 DEF DecideCommit, poTable
    <3>2. RequestMayMove(job[w].loaded, job[w].target)
      BY <2>1 DEF DecideCommit, Inv, Local, JobsBacked, RequestMayMove
    <3>3. ASSUME NEW p \in prs, prStatus'[p] # prStatus[p]
          PROVE  RequestMayMove(prStatus[p], prStatus'[p]) \/ p \in overwritten'
      <4>1. p = job[w].pr /\ prStatus'[p] = job[w].target
        BY <2>0, <3>1, <3>3
      <4> QED
        BY <3>1, <3>2, <4>1
    <3> QED
      BY <3>1, <3>3
  <2>2. CASE AdvanceCommit(w)
    <3>1. /\ poStatus' = [poStatus EXCEPT ![job[w].po] = job[w].target]
          /\ poStatus[job[w].po] # job[w].loaded => job[w].po \in overwritten'
          /\ prStatus' = prStatus
      BY <2>2 DEF AdvanceCommit, prTable
    <3>2. OrderMayMove(job[w].loaded, job[w].target)
      BY <2>2 DEF AdvanceCommit, Inv, Local, JobsBacked, OrderMayMove
    <3>3. ASSUME NEW o \in pos, poStatus'[o] # poStatus[o]
          PROVE  OrderMayMove(poStatus[o], poStatus'[o]) \/ o \in overwritten'
      <4>1. o = job[w].po /\ poStatus'[o] = job[w].target
        BY <2>0, <3>1, <3>3
      <4> QED
        BY <3>1, <3>2, <4>1
    <3> QED
      BY <3>1, <3>3
  <2>3. CASE FileCommit(w)
    <3>1. \/ prStatus' = prStatus
          \/ \E p \in Prs \ prs : prStatus' = [prStatus EXCEPT ![p] = "draft"]
      BY <2>3 DEF FileCommit, prTable
    <3>2. poStatus' = poStatus
      BY <2>3 DEF FileCommit, poTable
    <3> QED
      BY <2>0, <3>1, <3>2
  <2>4. CASE PlaceCommit(w)
    <3>1. \/ poStatus' = poStatus
          \/ \E o \in Pos \ pos : poStatus' = [poStatus EXCEPT ![o] = "issued"]
      BY <2>4 DEF PlaceCommit, poTable
    <3>2. prStatus' = prStatus
      BY <2>4 DEF PlaceCommit, prTable
    <3> QED
      BY <2>0, <3>1, <3>2
  <2>5. CASE prStatus' = prStatus /\ poStatus' = poStatus
    BY <2>5
  <2> QED
    BY <2>1, <2>2, <2>3, <2>4, <2>5
    DEF Step, FileLookup, DecideLoad, PlaceLoad, AdvanceLoad, Around, prTable, poTable
<1> QED
  BY InvInit, InvStep, <1>1, PTL DEF Spec, MovesAlongTables

-----------------------------------------------------------------------------
(* The handlers implement the workflow.  A commit finds its row as it was  *)
(* loaded, and then it is a step of the workflow, or it finds it changed,  *)
(* and then it is a late step.                                             *)

(* An unused key still has the status Init gave it, which the workflow     *)
(* drafts and places without assigning.                                    *)
FreshKeys ==
    /\ \A p \in Prs \ prs : prStatus[p] = "draft"
    /\ \A o \in Pos \ pos : poStatus[o] = "issued"

WorkflowInv == Inv /\ FreshKeys

(* Every step keeps unused keys unused, and is a step of the workflow or   *)
(* leaves the workflow alone.                                              *)
LEMMA WorkflowStep ==
  ASSUME WorkflowInv, [Next]_vars
  PROVE  FreshKeys' /\ [Workflow!Next]_Workflow!vars
<1> USE DEF Workflow!vars
<1> Inv /\ FreshKeys /\ TablesTyped
  BY DEF WorkflowInv, Inv, Shared
<1>1. CASE UNCHANGED <<prTable, poTable, overwritten>>
  BY <1>1 DEF FreshKeys, prTable, poTable
<1>2. ASSUME NEW w \in Workers, FileCommit(w)
      PROVE  FreshKeys' /\ [Workflow!Next]_Workflow!vars
  <2>1. CASE UNCHANGED prTable
    BY <1>1, <1>2, <2>1 DEF FileCommit
  <2>2. ASSUME NEW p \in Prs \ prs, prs' = prs \cup {p},
               prStatus' = [prStatus EXCEPT ![p] = "draft"]
        PROVE  FreshKeys' /\ Workflow!Next
    <3>1. prStatus' = prStatus
      BY <2>2 DEF FreshKeys, TablesTyped
    <3>2. UNCHANGED <<poTable, overwritten>>
      BY <1>2 DEF FileCommit
    <3>3. Workflow!Draft(p)
      BY <2>2, <3>1, <3>2 DEF Workflow!Draft, poTable
    <3>4. FreshKeys'
      BY <2>2, <3>1, <3>2 DEF FreshKeys, poTable
    <3> QED
      BY <2>2, <3>3, <3>4 DEF Workflow!Next
  <2> QED
    BY <1>2, <2>1, <2>2 DEF FileCommit
<1>3. ASSUME NEW w \in Workers, DecideCommit(w)
      PROVE  FreshKeys' /\ Workflow!Next
  <2> DEFINE d == job[w]
  <2>1. /\ d.pr \in prs /\ d.pr \in Prs /\ d.target \in RequestTargets
        /\ <<d.loaded, d.target>> \in RequestMoves
    BY <1>3
    DEF DecideCommit, Inv, Local, JobsTyped, JobsBacked, TablesTyped, DecideJob
  <2>2. /\ prStatus' = [prStatus EXCEPT ![d.pr] = d.target] /\ prs' = prs
        /\ overwritten' = IF prStatus[d.pr] = d.loaded
                          THEN overwritten ELSE overwritten \cup {d.pr}
        /\ UNCHANGED poTable
    BY <1>3 DEF DecideCommit
  <2> HIDE DEF d
  <2>3. FreshKeys'
    BY <2>1, <2>2 DEF FreshKeys, TablesTyped, poTable
  <2>4. CASE prStatus[d.pr] = d.loaded
    <3>1. \/ Workflow!Submit(d.pr) \/ Workflow!Approve(d.pr)
          \/ Workflow!Reject(d.pr) \/ Workflow!Withdraw(d.pr)
      BY <2>1, <2>2, <2>4
      DEF RequestMoves, Workflow!Submit, Workflow!Approve, Workflow!Reject,
          Workflow!Withdraw, Workflow!Pass, poTable
    <3> QED
      BY <2>1, <2>3, <3>1 DEF Workflow!Next
  <2>5. CASE prStatus[d.pr] # d.loaded
    <3>1. overwritten' \cup unapproved' = (overwritten \cup unapproved) \cup {d.pr}
      BY <2>2, <2>5 DEF poTable
    <3>2. Workflow!PassLate(d.pr, d.target)
      BY <2>1, <2>2, <3>1 DEF Workflow!PassLate, poTable
    <3> QED
      BY <2>1, <2>3, <3>2 DEF Workflow!Next, RequestTargets
  <2> QED
    BY <2>4, <2>5
<1>4. ASSUME NEW w \in Workers, PlaceCommit(w)
      PROVE  FreshKeys' /\ [Workflow!Next]_Workflow!vars
  <2>1. CASE UNCHANGED poTable
    BY <1>1, <1>4, <2>1 DEF PlaceCommit
  <2>2. ASSUME NEW o \in Pos \ pos, pos' = pos \cup {o},
               prOf' = [prOf EXCEPT ![o] = job[w].pr],
               poStatus' = [poStatus EXCEPT ![o] = "issued"],
               unapproved' = IF prStatus[job[w].pr] = job[w].loaded
                             THEN unapproved ELSE unapproved \cup {o}
        PROVE  FreshKeys' /\ Workflow!Next
    <3>1. poStatus' = poStatus
      BY <2>2 DEF FreshKeys, TablesTyped
    <3>2. UNCHANGED <<prTable, overwritten>>
      BY <1>4 DEF PlaceCommit
    <3>3. job[w].pr \in prs /\ job[w].pr \in Prs /\ job[w].loaded = "approved"
      BY <1>4 DEF PlaceCommit, Inv, Local, JobsBacked, TablesTyped
    <3>4. FreshKeys'
      BY <2>2, <3>1, <3>2 DEF FreshKeys, prTable
    <3>5. CASE prStatus[job[w].pr] = "approved"
      <4>1. Workflow!Place(o, job[w].pr)
        BY <2>2, <3>1, <3>2, <3>3, <3>5 DEF Workflow!Place, prTable
      <4> QED
        BY <3>3, <3>4, <4>1 DEF Workflow!Next
    <3>6. CASE prStatus[job[w].pr] # "approved"
      <4>1. overwritten' \cup unapproved' = (overwritten \cup unapproved) \cup {o}
        BY <2>2, <3>2, <3>3, <3>6
      <4>2. Workflow!PlaceLate(o, job[w].pr)
        BY <2>2, <3>1, <3>2, <3>3, <4>1 DEF Workflow!PlaceLate, prTable
      <4> QED
        BY <3>3, <3>4, <4>2 DEF Workflow!Next
    <3> QED
      BY <3>5, <3>6
  <2> QED
    BY <1>4, <2>1, <2>2 DEF PlaceCommit
<1>5. ASSUME NEW w \in Workers, AdvanceCommit(w)
      PROVE  FreshKeys' /\ Workflow!Next
  <2> DEFINE a == job[w]
  <2>1. /\ a.po \in pos /\ a.po \in Pos /\ a.target \in OrderTargets
        /\ <<a.loaded, a.target>> \in OrderMoves
    BY <1>5
    DEF AdvanceCommit, Inv, Local, JobsTyped, JobsBacked, TablesTyped, AdvanceJob
  <2>2. /\ poStatus' = [poStatus EXCEPT ![a.po] = a.target]
        /\ overwritten' = IF poStatus[a.po] = a.loaded
                          THEN overwritten ELSE overwritten \cup {a.po}
        /\ pos' = pos /\ prOf' = prOf /\ unapproved' = unapproved
        /\ UNCHANGED prTable
    BY <1>5 DEF AdvanceCommit
  <2> HIDE DEF a
  <2>3. FreshKeys'
    BY <2>1, <2>2 DEF FreshKeys, TablesTyped, prTable
  <2>4. CASE poStatus[a.po] = a.loaded
    <3>1. Workflow!Receive(a.po) \/ Workflow!Close(a.po) \/ Workflow!Revoke(a.po)
      BY <2>1, <2>2, <2>4
      DEF OrderMoves, Workflow!Receive, Workflow!Close, Workflow!Revoke,
          Workflow!Carry, prTable
    <3> QED
      BY <2>1, <2>3, <3>1 DEF Workflow!Next
  <2>5. CASE poStatus[a.po] # a.loaded
    <3>1. overwritten' \cup unapproved' = (overwritten \cup unapproved) \cup {a.po}
      BY <2>2, <2>5
    <3>2. Workflow!CarryLate(a.po, a.target)
      BY <2>1, <2>2, <3>1 DEF Workflow!CarryLate, prTable
    <3> QED
      BY <2>1, <2>3, <3>2 DEF Workflow!Next, OrderTargets
  <2> QED
    BY <2>4, <2>5
<1>6. ASSUME NEW w \in Workers, Step(w)
      PROVE  \/ UNCHANGED <<prTable, poTable, overwritten>>
             \/ FileCommit(w) \/ DecideCommit(w) \/ PlaceCommit(w) \/ AdvanceCommit(w)
  BY <1>6 DEF Step, FileLookup, DecideLoad, PlaceLoad, AdvanceLoad, Around
<1> QED
  BY <1>1, <1>2, <1>3, <1>4, <1>5, <1>6 DEF Next, vars

(* However many requests overlap, the purchase handlers implement the      *)
(* approval workflow, whose only licence is the late step.                 *)
THEOREM WorkflowImplemented == Spec => ImplementsWorkflow
<1>1. Init => WorkflowInv /\ Workflow!Init
  BY InvInit DEF WorkflowInv, Init, FreshKeys, Workflow!Init
<1>2. WorkflowInv /\ [Next]_vars => WorkflowInv' /\ [Workflow!Next]_Workflow!vars
  BY WorkflowStep, InvStep DEF WorkflowInv
<1> QED
  BY <1>1, <1>2, PTL DEF Spec, ImplementsWorkflow, Workflow!Spec

-----------------------------------------------------------------------------
(* One request at a time.  Then a loaded status is the row's own, and no   *)
(* step is late.                                                           *)

CopiesCurrent ==
    \A w \in Workers :
        /\ pc[w] \in {"decide", "place"} => prStatus[job[w].pr] = job[w].loaded
        /\ pc[w] = "advance" => poStatus[job[w].po] = job[w].loaded

NoneLate == overwritten = {} /\ unapproved = {}

SerialInv == Inv /\ NoneLate /\ CopiesCurrent

(* Alone, a request keeps its copies current.                              *)
LEMMA SerialStep ==
  ASSUME \A u, v \in Workers : u = v, SerialInv, [Next]_vars
  PROVE  NoneLate' /\ CopiesCurrent'
<1> USE DEF NoneLate
<1> Inv /\ NoneLate /\ CopiesCurrent
  BY DEF SerialInv
<1>1. CASE UNCHANGED vars
  BY <1>1 DEF CopiesCurrent, vars, prTable, poTable, control
<1>2. ASSUME NEW w \in Workers, Step(w)
      PROVE  NoneLate' /\ CopiesCurrent'
  <2> DOMAIN pc = Workers /\ DOMAIN job = Workers
    BY Domains
  <2> \A u \in Workers : u = w
    OBVIOUS
  <2>0. ASSUME NEW c, Answer(w, c)
        PROVE  CopiesCurrent'
    BY <2>0 DEF Answer, CopiesCurrent
  <2>00. ASSUME NEW a, NEW c, Commit(w, a, c)
         PROVE  CopiesCurrent'
    BY <2>00 DEF Commit, Await, CopiesCurrent
  <2>000. ASSUME UNCHANGED <<prTable, poTable>>, NEW phase, NEW j,
                 Await(w, phase, j),
                 phase \in {"decide", "place"} => prStatus[j.pr] = j.loaded,
                 phase = "advance" => poStatus[j.po] = j.loaded
          PROVE  CopiesCurrent'
    BY <2>000 DEF Await, CopiesCurrent, prTable, poTable
  <2>1. CASE FileLookup(w)
    BY <2>0, <2>000, <2>1 DEF FileLookup, poTable
  <2>2. CASE FileCommit(w)
    BY <2>0, <2>00, <2>2 DEF FileCommit, Abandon, poTable
  <2>3. CASE DecideLoad(w)
    BY <2>0, <2>000, <2>3 DEF DecideLoad, poTable
  <2>4. CASE DecideCommit(w)
    BY <2>00, <2>4 DEF DecideCommit, CopiesCurrent, poTable
  <2>5. CASE PlaceLoad(w)
    BY <2>0, <2>000, <2>5 DEF PlaceLoad, poTable
  <2>6. CASE PlaceCommit(w)
    BY <2>0, <2>00, <2>6 DEF PlaceCommit, Abandon, CopiesCurrent, poTable
  <2>7. CASE AdvanceLoad(w)
    BY <2>0, <2>000, <2>7 DEF AdvanceLoad, poTable
  <2>8. CASE AdvanceCommit(w)
    BY <2>00, <2>8 DEF AdvanceCommit, CopiesCurrent
  <2>9. CASE Around(w)
    <3>1. HandlerInv(Phases)
      BY DEF Inv
    <3>2. \E c : Answer(w, c)
      BY <2>9, <3>1, AroundKeeps DEF Around
    <3> QED
      BY <2>0, <2>9, <3>2 DEF Around, poTable
  <2> QED
    BY <1>2, <2>1, <2>2, <2>3, <2>4, <2>5, <2>6, <2>7, <2>8, <2>9 DEF Step
<1> QED
  BY <1>1, <1>2 DEF Next

(* With one request at a time no decision, order or receipt is ever late,  *)
(* so the handlers implement the strict workflow: decisions are final, and *)
(* orders are placed on approved requests only.                            *)
THEOREM SerialWorkflow ==
  ASSUME \A u, v \in Workers : u = v
  PROVE  Spec => []NoneLate
<1>1. Init => SerialInv
  <2> SUFFICES ASSUME Init PROVE SerialInv
    OBVIOUS
  <2>1. Inv
    BY InvInit
  <2>2. NoneLate /\ CopiesCurrent
    BY DEF Init, HandlerInit, NoneLate, CopiesCurrent
  <2> QED
    BY <2>1, <2>2 DEF SerialInv
<1>2. SerialInv /\ [Next]_vars => SerialInv'
  BY SerialStep, InvStep DEF SerialInv
<1>3. SerialInv => NoneLate
  BY DEF SerialInv
<1> QED
  BY <1>1, <1>2, <1>3, PTL DEF Spec
=============================================================================
