----------------------------- MODULE AuditForward -----------------------------
(***************************************************************************)
(* The copy of the audit trail that goes to the audit center               *)
(* (app/services/audit.py): once the row is committed, record_audit starts *)
(* a daemon thread that posts the event with a timeout of two seconds and  *)
(* swallows whatever goes wrong, while the handler answers its request.    *)
(*                                                                         *)
(* The network may lose a post, or deliver it after the thread gave up;    *)
(* the center may be down for good.  A stopping process ends its threads   *)
(* wherever they are.                                                      *)
(***************************************************************************)
EXTENDS Handler, Bags

CONSTANTS
    Audited,     \* the actions of the service at hand
    Forwarding   \* whether AUDIT_CENTER_URL is set

ASSUME ForwardAssumption == Audited \subseteq AuditActions /\ Forwarding \in BOOLEAN

(* An event is the row that records it: the nth of its action.             *)
Events == [action : Audited, row : 1..MaxRequests]

VARIABLES
    posting,   \* events whose thread has yet to send its request
    waiting,   \* events whose thread waits for the center's answer
    wire,      \* posts on their way; a lost one stays here for good
    center     \* the bag of events the center has taken in

forward == <<posting, waiting, wire, center>>

Senders == posting \cup waiting

ForwardInit ==
    /\ posting = {}
    /\ waiting = {}
    /\ wire = {}
    /\ center = EmptyBag

-----------------------------------------------------------------------------
(* Mutant of NextEvent: named after the last row, not its own.             *)
NextEventLast(w) == [action |-> job[w].action, row |-> audit[job[w].action]]

(* The row that RecordAudit would write for w.                             *)
NextEvent(w) == [action |-> job[w].action, row |-> audit[job[w].action] + 1]

(* Mutant of RecordAndForward: rows are written in the center's order.     *)
RecordAndForwardInOrder(w) ==
    /\ RecordAudit(w)
    /\ \A n \in 1..audit[job[w].action] :
          [action |-> job[w].action, row |-> n] \in BagToSet(center)
    /\ posting' = posting \cup {NextEvent(w)}
    /\ UNCHANGED <<waiting, wire, center>>

(* record_audit: commit the row, start the thread, let the handler answer. *)
RecordAndForward(w) ==
    /\ RecordAudit(w)
    /\ posting' = IF Forwarding THEN posting \cup {NextEvent(w)} ELSE posting
    /\ UNCHANGED <<waiting, wire, center>>

(* The row is committed but no thread can be started: Thread.start raises, *)
(* and the request is answered as a failure although all of it is stored.  *)
RecordUnforwarded(w) ==
    /\ Forwarding
    /\ pc[w] = "audit"
    /\ audit' = [audit EXCEPT ![job[w].action] = @ + 1]
    /\ Answer(w, 500)
    /\ UNCHANGED <<commits, lost, begun, forward>>

-----------------------------------------------------------------------------
(* Mutant of Post: a thread sends again while it has no answer.            *)
PostRetrying(e) ==
    /\ e \in Senders
    /\ posting' = posting \ {e}
    /\ waiting' = waiting \cup {e}
    /\ wire' = wire \cup {e}
    /\ center' = center

(* The thread sends its request.                                           *)
Post(e) ==
    /\ e \in posting
    /\ posting' = posting \ {e}
    /\ waiting' = waiting \cup {e}
    /\ wire' = wire \cup {e}
    /\ center' = center

(* The thread ends: answered, refused, timed out, or with its process.     *)
GiveUp(e) ==
    /\ e \in Senders
    /\ posting' = posting \ {e}
    /\ waiting' = waiting \ {e}
    /\ UNCHANGED <<wire, center>>

(* The center takes a post in, whether or not the thread is still there.   *)
TakeIn(e) ==
    /\ e \in wire
    /\ wire' = wire \ {e}
    /\ center' = center (+) SetToBag({e})
    /\ UNCHANGED <<posting, waiting>>

Deliver(e) == Post(e) \/ GiveUp(e) \/ TakeIn(e)

-----------------------------------------------------------------------------
ForwardTyped ==
    /\ posting \subseteq Events
    /\ waiting \subseteq Events
    /\ wire \subseteq Events
    /\ IsABag(center) /\ BagToSet(center) \subseteq Events

(* Whatever reaches the center, however late, is an event whose row is     *)
(* committed here, for a request that dies before its row tells nobody;    *)
(* and it is taken in only once, since the thread does not retry: it could *)
(* not tell a lost request from a lost answer.                             *)
ArchiveFollowsRows ==
    /\ \A e \in wire \cup BagToSet(center) : e.row <= audit[e.action]
    /\ \A e \in BagToSet(center) : center[e] = 1
=============================================================================
