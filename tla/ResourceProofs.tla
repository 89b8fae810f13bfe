---------------------------- MODULE ResourceProofs ----------------------------
(***************************************************************************)
(* Proofs about Resource and AuditForward for every set of workers, items  *)
(* and audited actions, every length of the overview's list and every      *)
(* number of requests, with or without an audit center.                    *)
(***************************************************************************)
EXTENDS Resource, HandlerProofs

-----------------------------------------------------------------------------
(* The invariant.                                                          *)

(* The page that w's overview holds lists as many rows as it may, each     *)
(* with its status unless that was changed since.                          *)
PageHeld(w) ==
    LET page == job[w].page IN
    /\ Listed(page) \subseteq rows
    /\ Cardinality(Listed(page)) = PageSize(job[w].before)
    /\ \A i \in Listed(page) \ touched[w] : page[i] = status[i]

(* What a worker may rely on while it awaits: the status it loaded has     *)
(* been witnessed, and the counts of its overview came in this order from  *)
(* a table that only grows.                                                *)
Held(w) ==
    /\ pc[w] = "create" => job[w] \in CreateJob
    /\ pc[w] = "change" =>
          job[w] \in ChangeJob /\ job[w].loaded \in witnessed[w]
    /\ pc[w] = "total" =>
          /\ job[w] \in TotalJob
          /\ PageHeld(w)
          /\ job[w].before <= Cardinality(rows)
    /\ pc[w] = "active" =>
          /\ job[w] \in ActiveJob
          /\ PageHeld(w)
          /\ job[w].before <= job[w].total
          /\ job[w].total <= Cardinality(rows)
    /\ pc[w] = "audit" => job[w].action \in Audited

Local == \A w \in Workers : Held(w)

(* Requests that have yet to commit, or that never will.                   *)
Busy == {w \in Workers : pc[w] \in Phases}

(* No action is committed more often than requests were begun, those apart *)
(* that are still to commit; so its rows number no more than MaxRequests.  *)
Paced == \A a \in AuditActions : commits[a] + Cardinality(Busy) <= begun

(* An event is on its way only once: in its thread, on the wire, or in the *)
(* center, which has a single copy of it; and its row is there by then.    *)
Delivered ==
    /\ posting \cap wire = {}
    /\ posting \cap BagToSet(center) = {}
    /\ wire \cap BagToSet(center) = {}
    /\ \A e \in posting \cup wire \cup BagToSet(center) :
          e.row <= audit[e.action]
    /\ \A e \in BagToSet(center) : center[e] = 1

ForwardInv == ForwardTyped /\ Delivered

Inv ==
    /\ HandlerInv(Phases)
    /\ Paced
    /\ Local
    /\ ForwardInv
    /\ TablesTyped
    /\ ChangeTookEffect
    /\ OverviewAgrees

-----------------------------------------------------------------------------
(* Forwarding, whatever service it serves.                                 *)

(* One more row, and its event with its thread: a new one, for events of   *)
(* the same action that are under way are those of earlier rows.           *)
LEMMA RecordForwards ==
  ASSUME ForwardInv, NEW w \in Workers, RecordAndForward(w),
         audit \in [AuditActions -> Nat], NextEvent(w) \in Events
  PROVE  ForwardInv'
<1> DEFINE n == NextEvent(w)
<1>1. /\ n.action = job[w].action /\ n.row = audit[job[w].action] + 1
      /\ n.action \in AuditActions
  BY ForwardAssumption DEF NextEvent, Events
<1>2. \A e \in Events : e.action \in AuditActions /\ e.row \in Nat
  BY ForwardAssumption DEF Events
<1>3. audit' = [audit EXCEPT ![n.action] = @ + 1]
  BY <1>1 DEF RecordAndForward, RecordAudit
<1>4. \A a \in AuditActions : audit[a] <= audit'[a]
  BY <1>1, <1>3
<1>5. audit'[n.action] = n.row
  BY <1>1, <1>3
<1>6. posting' \subseteq posting \cup {n} /\ wire' = wire /\ center' = center
      /\ waiting' = waiting
  BY DEF RecordAndForward
<1>7. n \notin wire /\ n \notin BagToSet(center)
  BY <1>1 DEF ForwardInv, Delivered
<1> HIDE DEF n
<1>8. ForwardTyped'
  BY <1>6 DEF ForwardInv, ForwardTyped, n
<1>9. \A e \in posting' \cup wire' \cup BagToSet(center') :
         e.row <= audit'[e.action]
  <2> TAKE e \in posting' \cup wire' \cup BagToSet(center')
  <2>1. CASE e = n
    BY <2>1, <1>1, <1>5
  <2>2. CASE e # n
    <3>1. e \in posting \cup wire \cup BagToSet(center)
      BY <2>2, <1>6
    <3>2. e \in Events
      BY <3>1 DEF ForwardInv, ForwardTyped
    <3>3. e.row <= audit[e.action] /\ audit[e.action] <= audit'[e.action]
      BY <3>1, <3>2, <1>2, <1>4 DEF ForwardInv, Delivered
    <3>4. audit[e.action] \in Nat /\ audit'[e.action] \in Nat
      BY <3>2, <1>1, <1>2, <1>3
    <3> QED
      BY <3>2, <3>3, <3>4, <1>2
  <2> QED
    BY <2>1, <2>2
<1> QED
  BY <1>6, <1>7, <1>8, <1>9 DEF ForwardInv, Delivered

(* A thread or the center goes on: an event moves, its row stays.          *)
LEMMA DeliverKeeps ==
  ASSUME ForwardInv, NEW e \in Events, Deliver(e), audit' = audit
  PROVE  ForwardInv'
<1> USE DEF ForwardInv, ForwardTyped, Delivered
<1>1. CASE Post(e)
  <2>1. e \in posting
    BY <1>1 DEF Post, Senders
  <2> QED
    BY <1>1, <2>1 DEF Post
<1>2. CASE GiveUp(e)
  BY <1>2 DEF GiveUp, Senders
<1>3. CASE TakeIn(e)
  <2>1. e \in wire /\ wire' = wire \ {e} /\ posting' = posting /\ waiting' = waiting
    BY <1>3 DEF TakeIn
  <2>2. e \notin DOMAIN center
    BY <2>1 DEF BagToSet
  <2>3. center' = [x \in DOMAIN center \cup {e} |-> IF x = e THEN 1 ELSE center[x]]
    <3>1. center' = center (+) SetToBag({e})
      BY <1>3 DEF TakeIn
    <3>2. \A x \in DOMAIN center : center[x] \in Nat
      BY DEF IsABag
    <3> QED
      BY <2>2, <3>1, <3>2 DEF (+), SetToBag
  <2>4. DOMAIN center' = DOMAIN center \cup {e}
    BY <2>3
  <2>5. IsABag(center')
    BY <2>3, <2>4 DEF IsABag
  <2>6. \A x \in BagToSet(center') : center'[x] = 1
    BY <2>3, <2>4 DEF BagToSet
  <2> QED
    BY <2>1, <2>2, <2>4, <2>5, <2>6 DEF BagToSet
<1> QED
  BY <1>1, <1>2, <1>3 DEF Deliver

(* What leaves the threads alone and takes no row away.                    *)
LEMMA ForwardStill ==
  ASSUME ForwardInv, UNCHANGED forward, audit \in [AuditActions -> Nat],
         audit' \in [AuditActions -> Nat],
         \A a \in AuditActions : audit[a] <= audit'[a]
  PROVE  ForwardInv'
<1>1. ForwardTyped'
  BY DEF ForwardInv, ForwardTyped, forward
<1>2. ASSUME NEW e \in posting \cup wire \cup BagToSet(center)
      PROVE  e.row <= audit'[e.action]
  <2>1. e.action \in AuditActions /\ e.row \in Nat
    BY ForwardAssumption DEF ForwardInv, ForwardTyped, Events
  <2>2. e.row <= audit[e.action] /\ audit[e.action] <= audit'[e.action]
    BY <2>1 DEF ForwardInv, Delivered
  <2>3. audit[e.action] \in Nat /\ audit'[e.action] \in Nat
    BY <2>1
  <2> QED
    BY <2>1, <2>2, <2>3
<1> QED
  BY <1>1, <1>2 DEF ForwardInv, Delivered, forward

-----------------------------------------------------------------------------
(* The pace of commits.                                                    *)

LEMMA BusyFinite ==
  ASSUME NEW S \in SUBSET Workers
  PROVE  IsFiniteSet(S) /\ Cardinality(S) \in Nat
  BY HandlerAssumption, FS_Subset, FS_CardinalityType

LEMMA AtMostOneMore ==
  ASSUME NEW S, NEW x, IsFiniteSet(S)
  PROVE  /\ IsFiniteSet(S \cup {x})
         /\ Cardinality(S \cup {x}) <= Cardinality(S) + 1
<1>1. Cardinality(S) \in Nat
  BY FS_CardinalityType
<1> QED
  BY <1>1, FS_AddElement

(* A request that begins, whether it is answered at once or not.           *)
LEMMA ArrivePaced ==
  ASSUME HandlerInv(Phases), Paced, NEW w \in Workers, Arrive(w),
         \/ \E c : Answer(w, c)
         \/ \E phase, j : Await(w, phase, j)
  PROVE  Paced'
<1>1. Busy' \subseteq Busy \cup {w}
  BY DEF HandlerInv, HandlerTyped, Busy, Answer, Await
<1>2. Cardinality(Busy') <= Cardinality(Busy) + 1
  <2>1. IsFiniteSet(Busy)
    BY BusyFinite DEF Busy
  <2>2. /\ IsFiniteSet(Busy \cup {w})
        /\ Cardinality(Busy \cup {w}) <= Cardinality(Busy) + 1
    BY <2>1, AtMostOneMore
  <2>3. Cardinality(Busy') <= Cardinality(Busy \cup {w})
    BY <1>1, <2>2, FS_Subset
  <2>4. /\ Cardinality(Busy) \in Nat
        /\ Cardinality(Busy \cup {w}) \in Nat
        /\ Cardinality(Busy') \in Nat
    BY <2>1, <2>2, <1>1, FS_Subset, FS_CardinalityType
  <2> QED
    BY <2>2, <2>3, <2>4
<1>3. Cardinality(Busy) \in Nat /\ Cardinality(Busy') \in Nat
  BY BusyFinite DEF Busy
<1>4. commits' = commits /\ begun' = begun + 1
  BY DEF Arrive, trail
<1>5. commits \in [AuditActions -> Nat] /\ begun \in Nat
  BY HandlerAssumption DEF HandlerInv, HandlerTyped
<1> QED
  BY <1>2, <1>3, <1>4, <1>5 DEF Paced

(* A request that commits is no longer one that has yet to.                *)
LEMMA CommitPaced ==
  ASSUME HandlerInv(Phases), Paced, NEW w \in Workers, pc[w] \in Phases,
         NEW a \in AuditActions, NEW c, Commit(w, a, c)
  PROVE  Paced'
<1>1. Busy' = Busy \ {w} /\ w \in Busy
  BY DEF HandlerInv, HandlerTyped, Busy, Commit, Await, Phases
<1>2. Cardinality(Busy') = Cardinality(Busy) - 1
  <2>1. IsFiniteSet(Busy)
    BY BusyFinite DEF Busy
  <2> QED
    BY <1>1, <2>1, FS_RemoveElement
<1>3. Cardinality(Busy) \in Nat /\ Cardinality(Busy') \in Nat
  BY BusyFinite DEF Busy
<1>4. /\ commits' = [commits EXCEPT ![a] = @ + 1]
      /\ begun' = begun
  BY DEF Commit
<1>5. commits \in [AuditActions -> Nat] /\ begun \in Nat
  BY HandlerAssumption DEF HandlerInv, HandlerTyped
<1>6. \A b \in AuditActions : commits'[b] <= commits[b] + 1
  BY <1>4, <1>5
<1>7. \A b \in AuditActions : commits[b] \in Nat /\ commits'[b] \in Nat
  BY <1>4, <1>5
<1> QED
  BY <1>2, <1>3, <1>4, <1>5, <1>6, <1>7 DEF Paced

(* Any other step: nobody begins, nobody commits.                          *)
LEMMA StillPaced ==
  ASSUME HandlerInv(Phases), Paced, commits' = commits, begun' = begun,
         \A w \in Workers : pc'[w] \in Phases => pc[w] \in Phases
  PROVE  Paced'
<1>1. Busy' \subseteq Busy
  BY DEF Busy
<1>2. Cardinality(Busy') <= Cardinality(Busy)
  BY <1>1, BusyFinite, FS_Subset DEF Busy
<1>3. Cardinality(Busy) \in Nat /\ Cardinality(Busy') \in Nat
  BY BusyFinite DEF Busy
<1>4. commits \in [AuditActions -> Nat] /\ begun \in Nat
  BY HandlerAssumption DEF HandlerInv, HandlerTyped
<1> QED
  BY <1>2, <1>3, <1>4 DEF Paced

(* A request between its commit and its row leaves room for that row.      *)
LEMMA NextEventFits ==
  ASSUME HandlerInv(Phases), Paced, NEW w \in Workers, pc[w] = "audit", Held(w)
  PROVE  NextEvent(w) \in Events
<1> DEFINE a == job[w].action
<1>1. a \in Audited /\ a \in AuditActions
  BY ForwardAssumption DEF Held
<1>2. /\ commits[a] = audit[a] + lost[a] + Cardinality(InFlight(a))
      /\ commits[a] + Cardinality(Busy) <= begun
  BY <1>1 DEF HandlerInv, AuditAccounted, Paced
<1>3. /\ commits[a] \in Nat /\ audit[a] \in Nat /\ lost[a] \in Nat
      /\ begun \in 0..MaxRequests
  BY <1>1 DEF HandlerInv, HandlerTyped
<1>4. InFlight(a) # {}
  BY DEF InFlight
<1>5. Cardinality(InFlight(a)) >= 1
  <2>1. InFlight(a) \in SUBSET Workers
    BY DEF InFlight
  <2>2. /\ Cardinality(InFlight(a)) \in Nat
        /\ Cardinality(InFlight(a)) # 0
    BY <2>1, <1>4, BusyFinite, FS_EmptySet
  <2> QED
    BY <2>2
<1>6. Cardinality(Busy) \in Nat /\ Cardinality(InFlight(a)) \in Nat
  BY BusyFinite DEF Busy, InFlight
<1>7. audit[a] + 1 \in 1..MaxRequests
  <2> HIDE DEF a
  <2> QED
    BY <1>2, <1>3, <1>5, <1>6, HandlerAssumption
<1> QED
  BY <1>1, <1>7 DEF NextEvent, Events

-----------------------------------------------------------------------------
(* What the workers hold.                                                  *)

LEMMA RowsFinite ==
  ASSUME NEW S \in SUBSET Items
  PROVE  IsFiniteSet(S) /\ Cardinality(S) \in Nat
  BY ResourceAssumption, FS_Subset, FS_CardinalityType

LEMMA RowsGrow ==
  ASSUME TablesTyped, TablesTyped', rows \subseteq rows'
  PROVE  /\ Cardinality(rows) <= Cardinality(rows')
         /\ Cardinality(rows) \in Nat /\ Cardinality(rows') \in Nat
  BY RowsFinite, FS_Subset DEF TablesTyped

(* w moves, the table grows, nobody else forgets what he witnessed, and    *)
(* every overview under way is told of every status that changes.          *)
Moves(w) ==
    /\ \/ \E c : Answer(w, c)
       \/ \E phase, j : Await(w, phase, j)
    /\ rows \subseteq rows'
    /\ \A v \in Workers \ {w} :
          /\ witnessed[v] \subseteq witnessed'[v]
          /\ touched[v] \subseteq touched'[v]
          /\ pc[v] \in {"total", "active"} =>
                \A i \in rows : status'[i] = status[i] \/ i \in touched'[v]

(* What w's own next phase asks for is all there is to see to.             *)
LEMMA OthersHold ==
  ASSUME Inv, TablesTyped', NEW w \in Workers, Moves(w), Held(w)'
  PROVE  Local'
<1> SUFFICES ASSUME NEW v \in Workers \ {w}
             PROVE  Held(v)'
  BY DEF Local
<1>1. pc'[v] = pc[v] /\ job'[v] = job[v]
  BY DEF Moves, Answer, Await, Inv, HandlerInv, HandlerTyped
<1>2. /\ Cardinality(rows) <= Cardinality(rows')
      /\ Cardinality(rows) \in Nat /\ Cardinality(rows') \in Nat
  BY RowsGrow DEF Inv, Moves
<1>3. witnessed[v] \subseteq witnessed'[v]
  BY DEF Moves
<1>4. Held(v)
  BY DEF Inv, Local
<1>5. pc[v] = "total" => job[v].before \in Nat
  BY <1>4 DEF Held, TotalJob
<1>6. pc[v] = "active" => job[v].total \in Nat
  BY <1>4 DEF Held, ActiveJob
<1>7. pc[v] \in {"total", "active"} => PageHeld(v)'
  <2> SUFFICES ASSUME pc[v] \in {"total", "active"}
               PROVE  PageHeld(v)'
    OBVIOUS
  <2>1. PageHeld(v)
    BY <1>4 DEF Held
  <2>2. /\ rows \subseteq rows' /\ touched[v] \subseteq touched'[v]
        /\ \A i \in rows : status'[i] = status[i] \/ i \in touched'[v]
    BY DEF Moves
  <2> QED
    BY <1>1, <2>1, <2>2 DEF PageHeld, Listed
<1> QED
  BY <1>1, <1>2, <1>3, <1>4, <1>5, <1>6, <1>7 DEF Held

(* Whoever answers holds nothing.                                          *)
LEMMA AnswerHolds ==
  ASSUME Inv, TablesTyped', NEW w \in Workers, NEW c, Answer(w, c), Moves(w)
  PROVE  Local'
<1>1. pc'[w] = "idle"
  BY DEF Answer, Inv, HandlerInv, HandlerTyped
<1> QED
  BY <1>1, OthersHold DEF Held

(* Where the service's own tables stay, so does what is said of them.      *)
LEMMA TablesStay ==
  ASSUME Inv, UNCHANGED <<table, overview, history>>
  PROVE  /\ TablesTyped' /\ ChangeTookEffect' /\ OverviewAgrees'
         /\ rows' = rows /\ status' = status
         /\ witnessed' = witnessed /\ touched' = touched
  BY DEF Inv, TablesTyped, ChangeTookEffect, OverviewAgrees, table, history

(* Where the threads and the trail stay, so do the events.                 *)
LEMMA EventsStay ==
  ASSUME Inv, UNCHANGED forward, audit' = audit
  PROVE  ForwardInv'
<1>1. /\ audit \in [AuditActions -> Nat] /\ audit' \in [AuditActions -> Nat]
      /\ \A a \in AuditActions : audit[a] <= audit'[a]
  BY DEF Inv, HandlerInv, HandlerTyped
<1> QED
  BY <1>1, ForwardStill DEF Inv

-----------------------------------------------------------------------------
(* Every step of the specification.                                        *)

LEMMA InvInit == Init => Inv
<1> SUFFICES ASSUME Init PROVE Inv
  OBVIOUS
<1>1. HandlerInv(Phases)
  BY HandlerInitial DEF Init
<1>2. Paced
  <2>1. Busy = {}
    BY DEF Init, HandlerInit, Busy, Phases
  <2> QED
    BY <2>1, FS_EmptySet DEF Init, HandlerInit, Paced
<1>3. Local
  BY DEF Init, HandlerInit, Local, Held
<1>4. ForwardInv
  BY DEF Init, ForwardInit, ForwardInv, ForwardTyped, Delivered, EmptyBag,
         SetToBag, BagToSet, IsABag
<1>5. TablesTyped
  BY DEF Init, TablesTyped, Statuses, Overview, Page
<1>6. ChangeTookEffect /\ OverviewAgrees
  <2>1. Listed(overview.page) = {}
    BY DEF Init, Listed, Unlisted
  <2>2. Cardinality({}) = 0
    BY FS_EmptySet
  <2>3. \A T : {} \ T = {}
    OBVIOUS
  <2>4. {i \in {} : overview.page[i] = "active"} = {}
    OBVIOUS
  <2>5. /\ overview.total = 0 /\ overview.added = 0 /\ overview.active = 0
        /\ hollow = {}
    BY DEF Init
  <2> QED
    BY <2>1, <2>2, <2>3, <2>4, <2>5, ResourceAssumption DEF ChangeTookEffect, OverviewAgrees
<1> QED
  BY <1>1, <1>2, <1>3, <1>4, <1>5, <1>6 DEF Inv

(* create: a request begins.                                               *)
LEMMA CreateStartKeeps ==
  ASSUME Inv, NEW w \in Workers, CreateStart(w)
  PROVE  Inv'
<1>1. PICK s \in Wanted : Await(w, "create", [status |-> s])
  BY DEF CreateStart
<1>2. /\ TablesTyped' /\ ChangeTookEffect' /\ OverviewAgrees'
      /\ rows' = rows /\ status' = status
      /\ witnessed' = witnessed /\ touched' = touched
  BY TablesStay DEF CreateStart
<1>3. Held(w)'
  <2>1. pc'[w] = "create" /\ job'[w] = [status |-> s]
    BY <1>1 DEF Await, Inv, HandlerInv, HandlerTyped
  <2> QED
    BY <2>1 DEF Held, CreateJob
<1>4. Local'
  BY <1>1, <1>2, <1>3, OthersHold DEF Moves
<1>5. HandlerInv(Phases)'
  BY <1>1, ArriveAwait DEF CreateStart, Inv, Phases
<1>6. Paced'
  BY <1>1, ArrivePaced DEF CreateStart, Inv
<1>7. ForwardInv'
  BY EventsStay DEF CreateStart, Arrive, trail
<1> QED
  BY <1>2, <1>4, <1>5, <1>6, <1>7 DEF Inv

(* create's COMMIT: the table grows, and so does what may be listed of it. *)
LEMMA CreateCommitKeeps ==
  ASSUME Inv, NEW w \in Workers, CreateCommit(w)
  PROVE  Inv'
<1> DEFINE i == CHOOSE k \in Items \ rows : TRUE
<1>1. i \in Items \ rows
  BY DEF CreateCommit, Inv, TablesTyped
<1>2. /\ rows' = rows \cup {i}
      /\ status' = [status EXCEPT ![i] = job[w].status]
      /\ Commit(w, "resource.created", 201)
      /\ pc[w] = "create"
      /\ UNCHANGED <<overview, history, forward>>
  BY DEF CreateCommit
<1> HIDE DEF i
<1>3. job[w].status \in Statuses
  BY <1>2, ResourceAssumption DEF Inv, Local, Held, CreateJob
<1>4. TablesTyped' /\ ChangeTookEffect' /\ OverviewAgrees'
  BY <1>1, <1>2, <1>3 DEF Inv, TablesTyped, ChangeTookEffect, OverviewAgrees, history
<1>5. "resource.created" \in Audited /\ "resource.created" \in AuditActions
  BY ResourceAssumption DEF AuditActions
<1>6. Held(w)'
  <2>1. pc'[w] = "audit" /\ job'[w].action = "resource.created"
    BY <1>2 DEF Commit, Await, Inv, HandlerInv, HandlerTyped
  <2> QED
    BY <2>1, <1>5 DEF Held
<1>7. Local'
  <2>1. rows \subseteq rows' /\ \A k \in rows : status'[k] = status[k]
    BY <1>1, <1>2 DEF Inv, TablesTyped
  <2>2. Moves(w)
    BY <1>2, <2>1 DEF Moves, Commit, history
  <2> QED
    BY <1>4, <1>6, <2>2, OthersHold
<1>8. HandlerInv(Phases)'
  BY <1>2, <1>5, CommitKeeps DEF Inv
<1>9. Paced'
  BY <1>2, <1>5, CommitPaced DEF Inv, Phases
<1>10. ForwardInv'
  BY <1>2, EventsStay DEF Commit
<1> QED
  BY <1>4, <1>7, <1>8, <1>9, <1>10 DEF Inv

(* update_status up to its commit: a loaded status is a witnessed one.     *)
LEMMA ChangeLoadKeeps ==
  ASSUME Inv, NEW w \in Workers, ChangeLoad(w)
  PROVE  Inv'
<1>1. PICK i \in Items, s \in Wanted :
         \/ /\ i \in rows
            /\ Await(w, "change", [item |-> i, loaded |-> status[i], status |-> s])
            /\ witnessed' = [witnessed EXCEPT ![w] = {status[i]}]
         \/ /\ i \notin rows
            /\ Answer(w, 404)
            /\ witnessed' = witnessed
  BY DEF ChangeLoad
<1>2. /\ UNCHANGED <<table, overview, touched, hollow, forward>>
      /\ status[i] \in Statuses
      /\ s \in Statuses
  BY ResourceAssumption DEF ChangeLoad, Inv, TablesTyped
<1>3. TablesTyped' /\ ChangeTookEffect' /\ OverviewAgrees'
  BY <1>1, <1>2 DEF Inv, TablesTyped, ChangeTookEffect, OverviewAgrees, table
<1>4. Moves(w)
  BY <1>1, <1>2 DEF Moves, Inv, TablesTyped, table
<1>5. Local'
  <2>1. CASE Answer(w, 404)
    BY <2>1, <1>3, <1>4, AnswerHolds
  <2>2. CASE ~Answer(w, 404)
    <3>1. /\ Await(w, "change", [item |-> i, loaded |-> status[i], status |-> s])
          /\ witnessed' = [witnessed EXCEPT ![w] = {status[i]}]
      BY <1>1, <2>2
    <3>2. /\ pc'[w] = "change"
          /\ job'[w] = [item |-> i, loaded |-> status[i], status |-> s]
          /\ status[i] \in witnessed'[w]
      BY <3>1 DEF Await, Inv, HandlerInv, HandlerTyped, TablesTyped
    <3>3. Held(w)'
      BY <1>2, <3>2 DEF Held, ChangeJob
    <3> QED
      BY <1>3, <1>4, <3>3, OthersHold
  <2> QED
    BY <2>1, <2>2
<1>6. HandlerInv(Phases)'
  BY <1>1, ArriveAwait, ArriveAnswer DEF ChangeLoad, Inv, Phases, Codes
<1>7. Paced'
  BY <1>1, ArrivePaced DEF ChangeLoad, Inv
<1>8. ForwardInv'
  BY <1>2, EventsStay DEF ChangeLoad, Arrive, trail
<1> QED
  BY <1>3, <1>5, <1>6, <1>7, <1>8 DEF Inv

(* update_status's COMMIT: either the UPDATE makes the wanted status the   *)
(* row's, or it was the row's when it was loaded.                          *)
LEMMA ChangeCommitKeeps ==
  ASSUME Inv, NEW w \in Workers, ChangeCommit(w)
  PROVE  Inv'
<1> DEFINE c == job[w]
<1>1. pc[w] = "change" /\ c \in ChangeJob /\ c.loaded \in witnessed[w]
  BY DEF ChangeCommit, Inv, Local, Held
<1>2. c.item \in Items /\ c.status \in Statuses
  BY <1>1, ResourceAssumption DEF ChangeJob
<1>3. /\ status' = [status EXCEPT ![c.item] = Written(c)]
      /\ witnessed' = [v \in Workers |->
            IF pc[v] = "change" /\ job[v].item = c.item
            THEN witnessed[v] \cup {Written(c)}
            ELSE witnessed[v]]
      /\ touched' = [v \in Workers |->
            IF pc[v] \in {"total", "active"} /\ Written(c) # status[c.item]
            THEN touched[v] \cup {c.item}
            ELSE touched[v]]
      /\ hollow' = IF c.status \in witnessed'[w]
                   THEN hollow
                   ELSE hollow \cup {c.item}
      /\ Commit(w, "resource.status_changed", 200)
      /\ UNCHANGED <<rows, overview, forward>>
  BY DEF ChangeCommit
<1>4. Written(c) \in Statuses
  BY <1>2 DEF Written, Inv, TablesTyped
<1>5. c.status \in witnessed'[w]
  <2>1. witnessed'[w] = witnessed[w] \cup {Written(c)}
    BY <1>1, <1>3
  <2>2. CASE c.status = c.loaded
    BY <2>1, <2>2, <1>1
  <2>3. CASE c.status # c.loaded
    BY <2>1, <2>3 DEF Written
  <2> QED
    BY <2>2, <2>3
<1> HIDE DEF c
<1>6. TablesTyped' /\ ChangeTookEffect' /\ OverviewAgrees'
  BY <1>2, <1>3, <1>4, <1>5 DEF Inv, TablesTyped, ChangeTookEffect, OverviewAgrees
<1>7. "resource.status_changed" \in Audited
      /\ "resource.status_changed" \in AuditActions
  BY ResourceAssumption DEF AuditActions
<1>8. Held(w)'
  <2>1. pc'[w] = "audit" /\ job'[w].action = "resource.status_changed"
    BY <1>3 DEF Commit, Await, Inv, HandlerInv, HandlerTyped
  <2> QED
    BY <2>1, <1>7 DEF Held
<1>9. Moves(w)
  <2>1. \A v \in Workers : /\ witnessed[v] \subseteq witnessed'[v]
                           /\ touched[v] \subseteq touched'[v]
    BY <1>3
  <2>2. \A v \in Workers : pc[v] \in {"total", "active"} =>
           \A i \in rows : status'[i] = status[i] \/ i \in touched'[v]
    BY <1>2, <1>3 DEF Inv, TablesTyped
  <2> QED
    BY <1>3, <2>1, <2>2 DEF Moves, Commit
<1>10. Local'
  BY <1>6, <1>8, <1>9, OthersHold
<1>11. HandlerInv(Phases)'
  BY <1>1, <1>3, <1>7, CommitKeeps DEF Inv
<1>12. Paced'
  BY <1>1, <1>3, <1>7, CommitPaced DEF Inv, Phases
<1>13. ForwardInv'
  BY <1>3, EventsStay DEF Commit
<1> QED
  BY <1>6, <1>10, <1>11, <1>12, <1>13 DEF Inv

-----------------------------------------------------------------------------
(* get_overview: the list. *)
LEMMA OverviewListKeeps ==
  ASSUME Inv, NEW w \in Workers, OverviewList(w)
  PROVE  Inv'
<1>1. PICK page \in Pages :
         Await(w, "total", [page |-> page, before |-> Cardinality(rows)])
  BY DEF OverviewList
<1>2. /\ Arrive(w) /\ touched' = [touched EXCEPT ![w] = {}]
      /\ UNCHANGED <<table, overview, witnessed, hollow, forward>>
  BY DEF OverviewList
<1>3. TablesTyped' /\ ChangeTookEffect' /\ OverviewAgrees'
  BY <1>2 DEF Inv, TablesTyped, ChangeTookEffect, OverviewAgrees, table
<1>4. /\ page \in Page
      /\ Listed(page) \subseteq rows
      /\ Cardinality(Listed(page)) = PageSize(Cardinality(rows))
      /\ \A i \in Listed(page) : page[i] = status[i]
  <2>1. PICK S \in SUBSET rows :
           /\ Cardinality(S) = PageSize(Cardinality(rows))
           /\ page = [i \in Items |-> IF i \in S THEN status[i] ELSE Unlisted]
    BY DEF Pages
  <2>2. rows \subseteq Items /\ \A i \in Items : status[i] \in Statuses
    BY DEF Inv, TablesTyped
  <2>3. Unlisted \notin Statuses
    BY DEF Unlisted, Statuses
  <2>4. Listed(page) = S
    BY <2>1, <2>2, <2>3 DEF Listed
  <2> QED
    BY <2>1, <2>2, <2>4 DEF Page
<1>5. Cardinality(rows) \in Nat /\ rows' = rows /\ status' = status
  BY <1>2, RowsFinite DEF table, Inv, TablesTyped
<1>6. Held(w)'
  <2>1. /\ pc'[w] = "total"
        /\ job'[w] = [page |-> page, before |-> Cardinality(rows)]
    BY <1>1 DEF Await, Inv, HandlerInv, HandlerTyped
  <2>2. PageHeld(w)'
    BY <1>4, <1>5, <2>1 DEF PageHeld, Listed
  <2> QED
    BY <2>1, <2>2, <1>4, <1>5 DEF Held, TotalJob
<1>7. Moves(w)
  BY <1>1, <1>2, <1>5 DEF Moves, Inv, TablesTyped
<1>8. Local'
  BY <1>3, <1>6, <1>7, OthersHold
<1>9. HandlerInv(Phases)'
  BY <1>1, <1>2, ArriveAwait DEF Inv, Phases
<1>10. Paced'
  BY <1>1, <1>2, ArrivePaced DEF Inv
<1>11. ForwardInv'
  BY <1>2, EventsStay DEF Arrive, trail
<1> QED
  BY <1>3, <1>8, <1>9, <1>10, <1>11 DEF Inv

(* Its total. *)
LEMMA OverviewTotalKeeps ==
  ASSUME Inv, NEW w \in Workers, OverviewTotal(w)
  PROVE  Inv'
<1> DEFINE j == [page |-> job[w].page, total |-> Cardinality(rows),
                 before |-> job[w].before]
<1>1. Await(w, "active", j) /\ pc[w] = "total" /\ UNCHANGED <<trail, begun>>
  BY DEF OverviewTotal
<1>2. /\ TablesTyped' /\ ChangeTookEffect' /\ OverviewAgrees'
      /\ rows' = rows /\ status' = status
      /\ witnessed' = witnessed /\ touched' = touched
  BY TablesStay DEF OverviewTotal
<1>3. Cardinality(rows) \in Nat
  BY RowsFinite DEF Inv, TablesTyped
<1>4. /\ job[w] \in TotalJob
      /\ PageHeld(w)
      /\ job[w].before <= Cardinality(rows)
  BY <1>1 DEF Inv, Local, Held
<1>5. Held(w)'
  <2>1. pc'[w] = "active" /\ job'[w] = j
    BY <1>1 DEF Await, Inv, HandlerInv, HandlerTyped
  <2>2. PageHeld(w)'
    BY <1>2, <1>4, <2>1 DEF PageHeld, Listed
  <2> QED
    BY <2>1, <2>2, <1>2, <1>3, <1>4 DEF Held, TotalJob, ActiveJob
<1>6. Local'
  BY <1>1, <1>2, <1>5, OthersHold DEF Moves
<1>7. HandlerInv(Phases)'
  BY <1>1, AwaitKeeps DEF Inv, Phases
<1>8. Paced'
  BY <1>1, StillPaced DEF Inv, Await, Phases, HandlerInv, HandlerTyped, trail
<1>9. ForwardInv'
  BY <1>1, EventsStay DEF OverviewTotal, trail
<1> QED
  BY <1>2, <1>6, <1>7, <1>8, <1>9 DEF Inv

(* The rows that are active and those that are not are all the rows.       *)
LEMMA ActiveAndNot ==
  ASSUME TablesTyped, NEW S \in SUBSET ActiveItems,
         NEW T \in SUBSET (rows \ ActiveItems)
  PROVE  /\ Cardinality(ActiveItems) \in Nat /\ Cardinality(rows) \in Nat
         /\ Cardinality(S) \in Nat /\ Cardinality(T) \in Nat
         /\ Cardinality(S) <= Cardinality(ActiveItems)
         /\ Cardinality(ActiveItems) + Cardinality(T) <= Cardinality(rows)
<1>1. ActiveItems \subseteq rows /\ rows \subseteq Items
  BY DEF ActiveItems, TablesTyped
<1>2. /\ IsFiniteSet(ActiveItems) /\ IsFiniteSet(T) /\ IsFiniteSet(rows)
      /\ IsFiniteSet(S)
      /\ Cardinality(ActiveItems) \in Nat /\ Cardinality(rows) \in Nat
      /\ Cardinality(S) \in Nat /\ Cardinality(T) \in Nat
  BY <1>1, RowsFinite
<1>3. ActiveItems \cap T = {} /\ (ActiveItems \cup T) \in SUBSET rows
  BY <1>1
<1>4. Cardinality(ActiveItems \cup T) = Cardinality(ActiveItems) + Cardinality(T)
  <2>1. Cardinality(ActiveItems \cup T)
          = Cardinality(ActiveItems) + Cardinality(T) - Cardinality(ActiveItems \cap T)
    BY <1>2, FS_Union
  <2>2. Cardinality(ActiveItems \cap T) = 0
    BY <1>3, FS_EmptySet
  <2> QED
    BY <1>2, <2>1, <2>2
<1>5. Cardinality(ActiveItems \cup T) <= Cardinality(rows)
  BY <1>2, <1>3, FS_Subset
<1>6. Cardinality(S) <= Cardinality(ActiveItems)
  BY <1>2, FS_Subset
<1> QED
  BY <1>2, <1>4, <1>5, <1>6

(* Its active items, and the answer: what the page shows of an item that   *)
(* did not change is what is counted; and of the rows there are by now, so *)
(* many have come since the list that no more are counted, as active or    *)
(* not, than were in the total and came since.                             *)
LEMMA OverviewActiveKeeps ==
  ASSUME Inv, NEW w \in Workers, OverviewActive(w)
  PROVE  Inv'
<1> DEFINE n == Cardinality(rows)
           m == Cardinality(ActiveItems)
           listed == Listed(job[w].page)
           lit == {i \in listed : job[w].page[i] = "active"}
           S == lit \ touched[w]
           T == (listed \ lit) \ touched[w]
<1>1. /\ overview' = [page |-> job[w].page, total |-> job[w].total,
                      active |-> m, added |-> n - job[w].before,
                      touched |-> touched[w]]
      /\ Answer(w, 200) /\ pc[w] = "active"
      /\ UNCHANGED <<table, history, forward, trail, begun>>
  BY DEF OverviewActive
<1>2. /\ job[w] \in ActiveJob
      /\ PageHeld(w)
      /\ job[w].before <= job[w].total
      /\ job[w].total <= n
  BY <1>1 DEF Inv, Local, Held
<1>3. S \in SUBSET ActiveItems /\ T \in SUBSET (rows \ ActiveItems)
  BY <1>2 DEF PageHeld, ActiveItems
<1>4. /\ n \in Nat /\ m \in Nat
      /\ Cardinality(S) <= m /\ m + Cardinality(T) <= n
      /\ Cardinality(S) \in Nat /\ Cardinality(T) \in Nat
  BY <1>3, ActiveAndNot DEF Inv
<1>5. Cardinality(listed) = PageSize(job[w].before)
  BY <1>2 DEF PageHeld
<1>6. OverviewAgrees'
  <2>1. overview'.page = job[w].page /\ overview'.touched = touched[w]
    BY <1>1
  <2>2. /\ Listed(overview'.page) = listed
        /\ {i \in Listed(overview'.page) : overview'.page[i] = "active"} = lit
    BY <2>1
  <2>3. /\ job[w].before \in Nat /\ job[w].total \in Nat /\ PageLimit \in Nat
        /\ overview'.total = job[w].total
        /\ overview'.active = m /\ overview'.added = n - job[w].before
    BY <1>1, <1>2, ResourceAssumption DEF ActiveJob
  <2> HIDE DEF n, m, listed, lit
  <2>4. /\ Cardinality(listed) <= job[w].total
        /\ Cardinality(listed) < PageLimit =>
              job[w].total <= Cardinality(listed) + (n - job[w].before)
        /\ Cardinality(lit \ touched[w]) <= m
        /\ m + Cardinality((listed \ lit) \ touched[w])
              <= job[w].total + (n - job[w].before)
    BY <1>2, <1>4, <1>5, <2>3 DEF PageSize
  <2> QED
    BY <2>1, <2>2, <2>3, <2>4 DEF OverviewAgrees, Listed
<1> HIDE DEF n, m, listed, lit, S, T
<1>7. overview' \in Overview
  <2>1. touched[w] \in SUBSET Items
    BY DEF Inv, TablesTyped
  <2> QED
    BY <1>1, <1>2, <1>4, <2>1 DEF ActiveJob, Overview
<1>8. TablesTyped' /\ ChangeTookEffect'
  BY <1>1, <1>7 DEF Inv, TablesTyped, ChangeTookEffect, table, history
<1>9. Local'
  BY <1>1, <1>8, AnswerHolds DEF Moves, table, history
<1>10. HandlerInv(Phases)'
  BY <1>1, AbandonKeeps, 200 \in Codes DEF Inv, Abandon, Codes
<1>11. Paced'
  BY <1>1, StillPaced DEF Inv, Answer, Phases, HandlerInv, HandlerTyped, trail
<1>12. ForwardInv'
  BY <1>1, EventsStay DEF trail
<1> QED
  BY <1>6, <1>8, <1>9, <1>10, <1>11, <1>12 DEF Inv

-----------------------------------------------------------------------------
(* The end of a request, whatever it is: the row of its audit and its      *)
(* thread, a refusal, or a failure.                                        *)

LEMMA AnswerLeavesTables ==
  ASSUME Inv, NEW w \in Workers, NEW c, Answer(w, c),
         UNCHANGED <<table, overview, history>>
  PROVE  TablesTyped' /\ ChangeTookEffect' /\ OverviewAgrees' /\ Local'
<1>1. /\ TablesTyped' /\ ChangeTookEffect' /\ OverviewAgrees'
      /\ rows' = rows /\ status' = status
      /\ witnessed' = witnessed /\ touched' = touched
  BY TablesStay
<1>2. Moves(w)
  BY <1>1 DEF Moves
<1> QED
  BY <1>1, <1>2, AnswerHolds

LEMMA RecordAndForwardKeeps ==
  ASSUME Inv, NEW w \in Workers, RecordAndForward(w),
         UNCHANGED <<table, overview, history>>
  PROVE  Inv'
<1>1. RecordAudit(w) /\ pc[w] = "audit" /\ Answer(w, job[w].code)
      /\ UNCHANGED <<commits, begun>>
  BY DEF RecordAndForward, RecordAudit
<1>2. TablesTyped' /\ ChangeTookEffect' /\ OverviewAgrees' /\ Local'
  BY <1>1, AnswerLeavesTables
<1>3. HandlerInv(Phases)'
  BY <1>1, RecordKeeps DEF Inv
<1>4. Paced'
  BY <1>1, StillPaced DEF Inv, Answer, Phases, HandlerInv, HandlerTyped
<1>5. NextEvent(w) \in Events
  BY <1>1, NextEventFits DEF Inv, Local
<1>6. ForwardInv'
  BY <1>5, RecordForwards DEF Inv, HandlerInv, HandlerTyped
<1> QED
  BY <1>2, <1>3, <1>4, <1>6 DEF Inv

LEMMA ForbidKeeps ==
  ASSUME Inv, NEW w \in Workers, Forbid(w),
         UNCHANGED <<table, overview, history, forward>>
  PROVE  Inv'
<1>1. Arrive(w) /\ Answer(w, 403)
  BY DEF Forbid
<1>2. TablesTyped' /\ ChangeTookEffect' /\ OverviewAgrees' /\ Local'
  BY <1>1, AnswerLeavesTables
<1>3. HandlerInv(Phases)'
  BY <1>1, ArriveAnswer, 403 \in Codes DEF Inv, Codes
<1>4. Paced'
  BY <1>1, ArrivePaced DEF Inv
<1>5. ForwardInv'
  BY <1>1, EventsStay DEF Arrive, trail
<1> QED
  BY <1>2, <1>3, <1>4, <1>5 DEF Inv

LEMMA FailInvKeeps ==
  ASSUME Inv, NEW w \in Workers, Fail(w),
         UNCHANGED <<table, overview, history, forward>>
  PROVE  Inv'
<1>1. Answer(w, 500) /\ UNCHANGED <<audit, commits, begun>>
  BY DEF Fail
<1>2. TablesTyped' /\ ChangeTookEffect' /\ OverviewAgrees' /\ Local'
  BY <1>1, AnswerLeavesTables
<1>3. HandlerInv(Phases)'
  BY FailKeeps DEF Inv
<1>4. Paced'
  BY <1>1, StillPaced DEF Inv, Answer, Phases, HandlerInv, HandlerTyped
<1>5. ForwardInv'
  BY <1>1, EventsStay
<1> QED
  BY <1>2, <1>3, <1>4, <1>5 DEF Inv

(* No thread can be started: the row is there, its event never will be.    *)
LEMMA UnforwardedKeeps ==
  ASSUME Inv, NEW w \in Workers, RecordUnforwarded(w),
         UNCHANGED <<table, overview, history>>
  PROVE  Inv'
<1>1. /\ pc[w] = "audit"
      /\ audit' = [audit EXCEPT ![job[w].action] = @ + 1]
      /\ Answer(w, 500)
      /\ UNCHANGED <<commits, lost, begun, forward>>
  BY DEF RecordUnforwarded
<1>2. TablesTyped' /\ ChangeTookEffect' /\ OverviewAgrees' /\ Local'
  BY <1>1, AnswerLeavesTables
<1>3. /\ audit \in [AuditActions -> Nat]
      /\ audit' \in [AuditActions -> Nat]
      /\ \A a \in AuditActions : audit[a] <= audit'[a]
  <2>1. job[w].action \in AuditActions
    BY <1>1, ForwardAssumption DEF Inv, Local, Held
  <2>2. audit \in [AuditActions -> Nat]
    BY DEF Inv, HandlerInv, HandlerTyped
  <2> QED
    BY <1>1, <2>1, <2>2
<1>4. HandlerInv(Phases)'
  <2>1. AuditAccounted'
    BY <1>1, LeaveAccounted DEF Inv
  <2>2. HandlerTyped(Phases)'
    BY <1>1, <1>3 DEF Inv, HandlerInv, HandlerTyped, Answer, Codes
  <2> QED
    BY <2>1, <2>2 DEF HandlerInv
<1>5. Paced'
  BY <1>1, StillPaced DEF Inv, Answer, Phases, HandlerInv, HandlerTyped
<1>6. ForwardInv'
  BY <1>1, <1>3, ForwardStill DEF Inv
<1> QED
  BY <1>2, <1>4, <1>5, <1>6 DEF Inv

(* Where no request moves, all of the workers' part stays.                 *)
LEMMA WorkersStay ==
  ASSUME Inv, UNCHANGED <<table, overview, history, trail, control>>
  PROVE  /\ TablesTyped' /\ ChangeTookEffect' /\ OverviewAgrees' /\ Local'
         /\ HandlerInv(Phases)' /\ Paced'
<1>1. HandlerInv(Phases)'
  BY HandlerStutter DEF Inv
<1>2. TablesTyped' /\ ChangeTookEffect' /\ OverviewAgrees'
  BY TablesStay
<1>3. Local'
  BY DEF Inv, Local, Held, PageHeld, Listed, table, history, control
<1>4. Paced'
  BY DEF Inv, Paced, Busy, trail, control
<1> QED
  BY <1>1, <1>2, <1>3, <1>4

LEMMA InvStep == Inv /\ [Next]_vars => Inv'
<1> SUFFICES ASSUME Inv, [Next]_vars
             PROVE  Inv'
  OBVIOUS
<1>1. CASE UNCHANGED vars
  BY <1>1, WorkersStay, EventsStay DEF vars, Inv, trail
<1>2. ASSUME NEW w \in Workers, Begin(w)
      PROVE  Inv'
  BY <1>2, CreateStartKeeps, ChangeLoadKeeps, OverviewListKeeps DEF Begin
<1>3. ASSUME NEW w \in Workers, Proceed(w)
      PROVE  Inv'
  BY <1>3, CreateCommitKeeps, ChangeCommitKeeps, OverviewTotalKeeps,
     OverviewActiveKeeps, RecordAndForwardKeeps DEF Proceed
<1>4. ASSUME NEW w \in Workers, Around(w)
      PROVE  Inv'
  BY <1>4, ForbidKeeps, FailInvKeeps, UnforwardedKeeps DEF Around
<1>5. ASSUME NEW e \in Events, Forwarded(e)
      PROVE  Inv'
  BY <1>5, WorkersStay, DeliverKeeps DEF Forwarded, Inv, trail
<1> QED
  BY <1>1, <1>2, <1>3, <1>4, <1>5 DEF Next

-----------------------------------------------------------------------------
(* Items, jobs and events always have their types; a status change that    *)
(* was answered 200 was the item's status at some time while it ran,       *)
(* though update_status may write nothing and rivals write in between; and *)
(* the three statements of get_overview never contradict each other by     *)
(* more than what was created while they ran.                              *)
THEOREM ItemsHold ==
    Spec => [](TypeOK /\ ChangeTookEffect /\ OverviewAgrees)
<1>1. Inv => TypeOK /\ ChangeTookEffect /\ OverviewAgrees
  BY DEF Inv, TypeOK, JobsTyped, Local, Held, ForwardInv, HandlerInv
<1> QED
  BY InvInit, InvStep, <1>1, PTL DEF Spec

(* The audit center never holds an event whose row is not committed, nor   *)
(* any event twice, however posts are lost or late; and here as well each  *)
(* commit has its row, or its request is still to write it or has died.    *)
THEOREM ArchiveHolds == Spec => [](ArchiveFollowsRows /\ AuditAccounted)
<1>1. Inv => ArchiveFollowsRows /\ AuditAccounted
  BY DEF Inv, ForwardInv, Delivered, ArchiveFollowsRows, HandlerInv
<1> QED
  BY InvInit, InvStep, <1>1, PTL DEF Spec
-----------------------------------------------------------------------------
(* One worker: nothing comes between a request's statements.               *)

(* A held copy is the row, a held count is that of the table, and nothing  *)
(* that an overview has listed has changed since.                          *)
CopiesCurrent ==
    \A w \in Workers :
        /\ pc[w] = "change" => status[job[w].item] = job[w].loaded
        /\ pc[w] \in {"total", "active"} =>
              job[w].before = Cardinality(rows) /\ touched[w] = {}
        /\ pc[w] = "active" => job[w].total = Cardinality(rows)

(* The overview is the table at the moment of its answer: as many of the   *)
(* items as its length allows, each with the status it has, and how many   *)
(* there are and how many of them are active.                              *)
OverviewExact ==
    \A w \in Workers : OverviewActive(w) =>
        LET page == overview'.page IN
        /\ Listed(page) \subseteq rows
        /\ Cardinality(Listed(page)) = PageSize(Cardinality(rows))
        /\ \A i \in Listed(page) : page[i] = status[i]
        /\ overview'.total = Cardinality(rows)
        /\ overview'.active = Cardinality(ActiveItems)

(* An accepted status change leaves the item in the status asked for.      *)
ChangeStored ==
    \A w \in Workers :
        ChangeCommit(w) => status'[job[w].item] = job[w].status

SerialInv == Inv /\ CopiesCurrent

(* An answer leaves nothing to be current.                                 *)
LEMMA AnswerCurrent ==
  ASSUME \A u, v \in Workers : u = v, Inv,
         NEW w \in Workers, NEW c, Answer(w, c)
  PROVE  CopiesCurrent'
<1>1. pc'[w] = "idle"
  BY DEF Answer, Inv, HandlerInv, HandlerTyped
<1> QED
  BY <1>1 DEF CopiesCurrent

(* A worker that awaits holds what it was given.                           *)
LEMMA AwaitHolds ==
  ASSUME Inv, NEW w \in Workers, NEW phase, NEW j, Await(w, phase, j)
  PROVE  pc'[w] = phase /\ job'[w] = j
  BY DEF Await, Inv, HandlerInv, HandlerTyped

LEMMA SerialStep ==
  ASSUME \A u, v \in Workers : u = v, SerialInv, [Next]_vars
  PROVE  CopiesCurrent'
<1> USE DEF SerialInv
<1>1. CASE UNCHANGED vars
  BY <1>1 DEF vars, table, history, control, CopiesCurrent
<1>2. ASSUME NEW e \in Events, Forwarded(e)
      PROVE  CopiesCurrent'
  BY <1>2 DEF Forwarded, table, history, control, CopiesCurrent
<1>3. ASSUME NEW w \in Workers, Begin(w)
      PROVE  CopiesCurrent'
  <2>1. CASE CreateStart(w)
    <3>1. pc'[w] = "create"
      BY <2>1, AwaitHolds DEF CreateStart
    <3> QED
      BY <2>1, <3>1 DEF CreateStart, CopiesCurrent
  <2>2. CASE ChangeLoad(w)
    <3>1. ASSUME NEW i \in Items, NEW s \in Wanted,
                 Await(w, "change", [item |-> i, loaded |-> status[i], status |-> s])
          PROVE  CopiesCurrent'
      BY <2>2, <3>1, AwaitHolds DEF ChangeLoad, table, CopiesCurrent
    <3> QED
      BY <2>2, <3>1, AnswerCurrent DEF ChangeLoad
  <2>3. CASE OverviewList(w)
    <3>1. pc'[w] = "total" /\ job'[w].before = Cardinality(rows)
      BY <2>3, AwaitHolds DEF OverviewList
    <3>2. touched'[w] = {}
      BY <2>3 DEF OverviewList, Inv, TablesTyped
    <3> QED
      BY <2>3, <3>1, <3>2 DEF OverviewList, table, CopiesCurrent
  <2> QED
    BY <1>3, <2>1, <2>2, <2>3 DEF Begin
<1>4. ASSUME NEW w \in Workers, Proceed(w)
      PROVE  CopiesCurrent'
  <2>1. CASE CreateCommit(w) \/ ChangeCommit(w)
    <3>1. pc'[w] = "audit"
      BY <2>1, AwaitHolds DEF CreateCommit, ChangeCommit, Commit
    <3> QED
      BY <2>1, <3>1 DEF CreateCommit, ChangeCommit, CopiesCurrent
  <2>2. CASE OverviewTotal(w)
    <3>1. /\ pc'[w] = "active"
          /\ job'[w].before = job[w].before /\ job'[w].total = Cardinality(rows)
      BY <2>2, AwaitHolds DEF OverviewTotal
    <3> QED
      BY <2>2, <3>1 DEF OverviewTotal, table, history, CopiesCurrent
  <2>3. CASE OverviewActive(w)
    BY <2>3, AnswerCurrent DEF OverviewActive
  <2>4. CASE RecordAndForward(w) /\ UNCHANGED <<table, overview, history>>
    BY <2>4, AnswerCurrent DEF RecordAndForward, RecordAudit
  <2> QED
    BY <1>4, <2>1, <2>2, <2>3, <2>4 DEF Proceed
<1>5. ASSUME NEW w \in Workers, Around(w)
      PROVE  CopiesCurrent'
  BY <1>5, AnswerCurrent
  DEF Around, Forbid, Fail, RecordUnforwarded
<1> QED
  BY <1>1, <1>2, <1>3, <1>4, <1>5 DEF Next

(* With one request at a time every overview is the table as it is when it *)
(* is answered, and a status change that is accepted is stored, although   *)
(* update_status may write nothing.                                        *)
THEOREM SerialItems ==
  ASSUME \A u, v \in Workers : u = v
  PROVE  Spec => [][OverviewExact]_vars /\ [][ChangeStored]_vars
<1>1. Init => SerialInv
  BY InvInit DEF SerialInv, Init, HandlerInit, CopiesCurrent
<1>2. SerialInv /\ [Next]_vars => SerialInv'
  BY SerialStep, InvStep DEF SerialInv
<1>3. SerialInv /\ [Next]_vars => [ChangeStored]_vars
  <2> SUFFICES ASSUME SerialInv, NEW w \in Workers, ChangeCommit(w)
               PROVE  status'[job[w].item] = job[w].status
    BY DEF ChangeStored
  <2>1. /\ job[w].item \in Items /\ status \in [Items -> Statuses]
        /\ status[job[w].item] = job[w].loaded
    BY DEF ChangeCommit, SerialInv, Inv, Local, Held, ChangeJob,
           TablesTyped, CopiesCurrent
  <2> QED
    BY <2>1 DEF ChangeCommit, Written
<1>4. SerialInv /\ [Next]_vars => [OverviewExact]_vars
  <2> SUFFICES ASSUME SerialInv, NEW w \in Workers, OverviewActive(w)
               PROVE  LET page == overview'.page IN
                      /\ Listed(page) \subseteq rows
                      /\ Cardinality(Listed(page)) = PageSize(Cardinality(rows))
                      /\ \A i \in Listed(page) : page[i] = status[i]
                      /\ overview'.total = Cardinality(rows)
                      /\ overview'.active = Cardinality(ActiveItems)
    BY DEF OverviewExact
  <2>1. /\ PageHeld(w) /\ touched[w] = {}
        /\ job[w].before = Cardinality(rows) /\ job[w].total = Cardinality(rows)
    BY DEF OverviewActive, SerialInv, Inv, Local, Held, CopiesCurrent
  <2>2. /\ overview'.page = job[w].page /\ overview'.total = job[w].total
        /\ overview'.active = Cardinality(ActiveItems)
    BY DEF OverviewActive
  <2> QED
    BY <2>1, <2>2 DEF PageHeld
<1> QED
  BY <1>1, <1>2, <1>3, <1>4, PTL DEF Spec
=============================================================================
