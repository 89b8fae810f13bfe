---------------------------- MODULE HandlerProofs ----------------------------
(***************************************************************************)
(* What the steps shared by all write handlers preserve, for every set of  *)
(* workers and whatever the service does besides: the types of the request *)
(* state, and the accounting of the audit trail.                           *)
(***************************************************************************)
EXTENDS Handler, FiniteSetTheorems, TLAPS

HandlerInv(phases) == HandlerTyped(phases) /\ AuditAccounted

(* At first nothing has been committed and nobody is under way.            *)
LEMMA HandlerInitial ==
  ASSUME NEW P, HandlerInit
  PROVE  HandlerInv(P)
<1>1. HandlerTyped(P)
  BY HandlerAssumption DEF HandlerInit, HandlerTyped, Codes
<1>2. AuditAccounted
  <2>1. \A a \in AuditActions : InFlight(a) = {}
    BY DEF HandlerInit, InFlight
  <2>2. Cardinality({}) = 0
    BY FS_EmptySet
  <2>3. \A a \in AuditActions : commits[a] = 0 /\ audit[a] = 0 /\ lost[a] = 0
    BY DEF HandlerInit
  <2> QED
    BY <2>1, <2>2, <2>3 DEF AuditAccounted
<1> QED
  BY <1>1, <1>2 DEF HandlerInv

(* Only finitely many requests are between a commit and its audit row.     *)
LEMMA InFlightFinite ==
  ASSUME NEW a
  PROVE  IsFiniteSet(InFlight(a)) /\ Cardinality(InFlight(a)) \in Nat
<1>1. InFlight(a) \subseteq Workers
  BY DEF InFlight
<1> QED
  BY <1>1, HandlerAssumption, FS_Subset, FS_CardinalityType

-----------------------------------------------------------------------------
(* Steps that neither commit nor leave the audit phase.                    *)

(* Such a step leaves the trail accounted for.                             *)
LEMMA QuietAccounted ==
  ASSUME NEW P, HandlerInv(P), NEW w \in Workers, pc[w] # "audit", UNCHANGED trail,
         \/ \E c : Answer(w, c)
         \/ \E phase, j : phase # "audit" /\ Await(w, phase, j)
  PROVE  AuditAccounted'
<1> DOMAIN pc = Workers /\ DOMAIN job = Workers
  BY DEF HandlerInv, HandlerTyped
<1>1. pc'[w] # "audit"
  BY DEF Answer, Await
<1>2. \A v \in Workers \ {w} : pc'[v] = pc[v] /\ job'[v] = job[v]
  BY DEF Answer, Await
<1>3. \A a \in AuditActions : InFlight(a)' = InFlight(a)
  BY <1>1, <1>2 DEF InFlight
<1> QED
  BY <1>3 DEF HandlerInv, AuditAccounted, trail

(* A request that is answered on arrival, refused or rejected.             *)
LEMMA ArriveAnswer ==
  ASSUME NEW P, HandlerInv(P), NEW w \in Workers, NEW c \in Codes,
         Arrive(w), Answer(w, c)
  PROVE  HandlerInv(P)'
<1>1. AuditAccounted'
  BY QuietAccounted DEF Arrive
<1>2. HandlerTyped(P)'
  BY HandlerAssumption DEF HandlerInv, HandlerTyped, Arrive, Answer, trail
<1> QED
  BY <1>1, <1>2 DEF HandlerInv

(* A request that goes on to await the database.                           *)
LEMMA ArriveAwait ==
  ASSUME NEW P, HandlerInv(P), NEW w \in Workers, NEW phase \in P, NEW j,
         phase # "audit", Arrive(w), Await(w, phase, j)
  PROVE  HandlerInv(P)'
<1>1. AuditAccounted'
  BY QuietAccounted DEF Arrive
<1>2. HandlerTyped(P)'
  BY HandlerAssumption DEF HandlerInv, HandlerTyped, Arrive, Await, trail
<1> QED
  BY <1>1, <1>2 DEF HandlerInv

(* A request that goes on from one await to the next.                      *)
LEMMA AwaitKeeps ==
  ASSUME NEW P, HandlerInv(P), NEW w \in Workers, NEW phase \in P, NEW j,
         pc[w] # "audit", phase # "audit", Await(w, phase, j),
         UNCHANGED <<trail, begun>>
  PROVE  HandlerInv(P)'
<1>1. AuditAccounted'
  BY QuietAccounted
<1>2. HandlerTyped(P)'
  BY DEF HandlerInv, HandlerTyped, Await, trail
<1> QED
  BY <1>1, <1>2 DEF HandlerInv

(* A request whose commit the database refuses.                            *)
LEMMA AbandonKeeps ==
  ASSUME NEW P, HandlerInv(P), NEW w \in Workers, NEW c \in Codes,
         pc[w] # "audit", Abandon(w, c)
  PROVE  HandlerInv(P)'
<1>1. AuditAccounted'
  BY QuietAccounted DEF Abandon
<1>2. HandlerTyped(P)'
  BY DEF HandlerInv, HandlerTyped, Abandon, Answer, trail
<1> QED
  BY <1>1, <1>2 DEF HandlerInv

-----------------------------------------------------------------------------
(* A business commit: one commit more, and one request in flight more.     *)
LEMMA CommitKeeps ==
  ASSUME NEW P, HandlerInv(P), NEW w \in Workers, pc[w] # "audit",
         NEW a \in AuditActions, NEW c \in {200, 201}, Commit(w, a, c)
  PROVE  HandlerInv(P)'
<1>1. HandlerTyped(P)'
  BY DEF HandlerInv, HandlerTyped, Commit, Await, AuditJob
<1>2. ASSUME NEW b \in AuditActions
      PROVE  commits'[b] = audit'[b] + lost'[b] + Cardinality(InFlight(b)')
  <2>1. /\ commits[b] = audit[b] + lost[b] + Cardinality(InFlight(b))
        /\ commits[b] \in Nat /\ audit[b] \in Nat /\ lost[b] \in Nat
    BY DEF HandlerInv, AuditAccounted, HandlerTyped
  <2>2. audit' = audit /\ lost' = lost
    BY DEF Commit
  <2>3. commits' = [commits EXCEPT ![a] = @ + 1] /\ commits \in [AuditActions -> Nat]
    BY DEF Commit, HandlerInv, HandlerTyped
  <2>4. /\ pc' = [pc EXCEPT ![w] = "audit"] /\ w \in DOMAIN pc
        /\ job' = [job EXCEPT ![w] = [action |-> a, code |-> c]] /\ w \in DOMAIN job
    BY DEF Commit, Await, HandlerInv, HandlerTyped
  <2>5. CASE b = a
    <3>1. InFlight(b)' = InFlight(b) \cup {w} /\ w \notin InFlight(b)
      BY <2>4, <2>5 DEF InFlight
    <3>2. Cardinality(InFlight(b)') = Cardinality(InFlight(b)) + 1
      BY <3>1, InFlightFinite, FS_AddElement
    <3>3. commits'[b] = commits[b] + 1
      BY <2>3, <2>5
    <3> QED
      BY <2>1, <2>2, <3>2, <3>3, InFlightFinite
  <2>6. CASE b # a
    <3>1. InFlight(b)' = InFlight(b)
      BY <2>4, <2>6 DEF InFlight
    <3>2. commits'[b] = commits[b]
      BY <2>3, <2>6
    <3> QED
      BY <2>1, <2>2, <3>1, <3>2
  <2> QED
    BY <2>5, <2>6
<1> QED
  BY <1>1, <1>2 DEF HandlerInv, AuditAccounted

-----------------------------------------------------------------------------
(* Leaving the audit phase: one request in flight less, and one audit row  *)
(* or one loss more.                                                       *)
LEMMA LeaveAccounted ==
  ASSUME NEW P, HandlerInv(P), NEW w \in Workers, pc[w] = "audit",
         NEW c, Answer(w, c), commits' = commits,
         \/ audit' = [audit EXCEPT ![job[w].action] = @ + 1] /\ lost' = lost
         \/ lost' = [lost EXCEPT ![job[w].action] = @ + 1] /\ audit' = audit
  PROVE  AuditAccounted'
<1> DEFINE a == job[w].action
<1> SUFFICES ASSUME NEW b \in AuditActions
             PROVE  commits'[b] = audit'[b] + lost'[b] + Cardinality(InFlight(b)')
  BY DEF AuditAccounted
<1>0. a \in AuditActions
  BY DEF HandlerInv, HandlerTyped, AuditJob
<1>1. /\ commits[b] = audit[b] + lost[b] + Cardinality(InFlight(b))
      /\ commits[b] \in Nat /\ audit[b] \in Nat /\ lost[b] \in Nat
  BY DEF HandlerInv, AuditAccounted, HandlerTyped
<1>2. audit \in [AuditActions -> Nat] /\ lost \in [AuditActions -> Nat]
  BY DEF HandlerInv, HandlerTyped
<1>3. /\ pc' = [pc EXCEPT ![w] = "idle"] /\ w \in DOMAIN pc
      /\ job' = [job EXCEPT ![w] = NoJob] /\ w \in DOMAIN job
  BY DEF Answer, HandlerInv, HandlerTyped
<1>4. \/ audit' = [audit EXCEPT ![a] = @ + 1] /\ lost' = lost
      \/ lost' = [lost EXCEPT ![a] = @ + 1] /\ audit' = audit
  OBVIOUS
<1>5. CASE b = a
  <2>1. InFlight(b)' = InFlight(b) \ {w} /\ w \in InFlight(b)
    BY <1>3, <1>5 DEF InFlight
  <2>2. Cardinality(InFlight(b)') = Cardinality(InFlight(b)) - 1
    BY <2>1, InFlightFinite, FS_RemoveElement
  <2> HIDE DEF a
  <2>3. /\ audit'[b] + lost'[b] = audit[b] + lost[b] + 1
        /\ audit'[b] \in Nat /\ lost'[b] \in Nat
    BY <1>1, <1>2, <1>4, <1>5
  <2> QED
    BY <1>1, <2>2, <2>3, InFlightFinite
<1>6. CASE b # a
  <2>1. InFlight(b)' = InFlight(b)
    BY <1>3, <1>6 DEF InFlight
  <2>2. audit'[b] = audit[b] /\ lost'[b] = lost[b]
    BY <1>0, <1>2, <1>4, <1>6
  <2> QED
    BY <1>1, <2>1, <2>2
<1> QED
  BY <1>5, <1>6

(* record_audit writes the row of a commit in flight.                      *)
LEMMA RecordKeeps ==
  ASSUME NEW P, HandlerInv(P), NEW w \in Workers, RecordAudit(w)
  PROVE  HandlerInv(P)'
<1>1. job[w].action \in AuditActions /\ job[w].code \in {200, 201}
  BY DEF HandlerInv, HandlerTyped, RecordAudit, AuditJob
<1>2. AuditAccounted'
  BY LeaveAccounted DEF RecordAudit
<1>3. HandlerTyped(P)'
  BY <1>1 DEF HandlerInv, HandlerTyped, RecordAudit, Answer, Codes
<1> QED
  BY <1>2, <1>3 DEF HandlerInv

(* A dying request loses its audit row if it had committed, else nothing.  *)
LEMMA FailKeeps ==
  ASSUME NEW P, HandlerInv(P), NEW w \in Workers, Fail(w)
  PROVE  HandlerInv(P)'
<1>1. CASE pc[w] = "audit"
  <2>1. job[w].action \in AuditActions
    BY <1>1 DEF HandlerInv, HandlerTyped, AuditJob
  <2>2. AuditAccounted'
    BY <1>1, LeaveAccounted DEF Fail
  <2>3. HandlerTyped(P)'
    BY <1>1, <2>1 DEF HandlerInv, HandlerTyped, Fail, Answer, Codes
  <2> QED
    BY <2>2, <2>3 DEF HandlerInv
<1>2. CASE pc[w] # "audit"
  <2>1. AuditAccounted'
    BY <1>2, QuietAccounted DEF Fail, trail
  <2>2. HandlerTyped(P)'
    BY <1>2 DEF HandlerInv, HandlerTyped, Fail, Answer, Codes
  <2> QED
    BY <2>1, <2>2 DEF HandlerInv
<1> QED
  BY <1>1, <1>2

(* The three steps no service does by itself.                              *)
LEMMA AroundKeeps ==
  ASSUME NEW P, HandlerInv(P), NEW w \in Workers,
         Forbid(w) \/ RecordAudit(w) \/ Fail(w)
  PROVE  HandlerInv(P)' /\ \E c : Answer(w, c)
<1>1. CASE Forbid(w)
  BY <1>1, ArriveAnswer, 403 \in Codes DEF Forbid, Codes
<1>2. CASE RecordAudit(w)
  BY <1>2, RecordKeeps DEF RecordAudit
<1>3. CASE Fail(w)
  BY <1>3, FailKeeps DEF Fail
<1> QED
  BY <1>1, <1>2, <1>3

(* A stutter keeps all of it.                                              *)
LEMMA HandlerStutter ==
  ASSUME NEW P, HandlerInv(P), UNCHANGED <<trail, control>>
  PROVE  HandlerInv(P)'
<1>1. HandlerTyped(P)'
  BY DEF HandlerInv, HandlerTyped, trail, control
<1>2. \A a \in AuditActions : InFlight(a)' = InFlight(a)
  BY DEF InFlight, control
<1> QED
  BY <1>1, <1>2 DEF HandlerInv, AuditAccounted, trail
=============================================================================
