--------------------------- MODULE PurchaseWorkflow ---------------------------
(***************************************************************************)
(* The approval workflow the purchase API promises: a request is drafted,  *)
(* submitted and decided once, decisions are final, orders are placed on   *)
(* approved requests only, and an order is received before it is closed.   *)
(*                                                                         *)
(* The one licence is a late step, taken on a status that has changed      *)
(* since it was looked at: a late decision puts a request anywhere but     *)
(* back to a draft, a late order may be on a request that is no longer     *)
(* approved.  The request or order counts as excused from then on.         *)
(***************************************************************************)
CONSTANTS Prs, Pos, NoPr

VARIABLES
    prs, prStatus, pos, prOf, poStatus,
    excused   \* the requests and orders that took a late step

vars == <<prs, prStatus, pos, prOf, poStatus, excused>>

Init ==
    /\ prs = {}
    /\ prStatus = [p \in Prs |-> "draft"]
    /\ pos = {}
    /\ prOf = [o \in Pos |-> NoPr]
    /\ poStatus = [o \in Pos |-> "issued"]
    /\ excused = {}

Draft(p) ==
    /\ p \notin prs
    /\ prs' = prs \cup {p}
    /\ UNCHANGED <<prStatus, pos, prOf, poStatus, excused>>

(* A request passes from one of the given statuses to another.             *)
Pass(p, from, to) ==
    /\ p \in prs
    /\ prStatus[p] \in from
    /\ prStatus' = [prStatus EXCEPT ![p] = to]
    /\ UNCHANGED <<prs, pos, prOf, poStatus, excused>>

Submit(p) == Pass(p, {"draft"}, "submitted")
Approve(p) == Pass(p, {"submitted"}, "approved")
Reject(p) == Pass(p, {"submitted"}, "rejected")
Withdraw(p) == Pass(p, {"draft", "submitted"}, "cancelled")

Place(o, p) ==
    /\ o \notin pos
    /\ p \in prs
    /\ prStatus[p] = "approved"
    /\ pos' = pos \cup {o}
    /\ prOf' = [prOf EXCEPT ![o] = p]
    /\ UNCHANGED <<prs, prStatus, poStatus, excused>>

Carry(o, from, to) ==
    /\ o \in pos
    /\ poStatus[o] \in from
    /\ poStatus' = [poStatus EXCEPT ![o] = to]
    /\ UNCHANGED <<prs, prStatus, pos, prOf, excused>>

Receive(o) == Carry(o, {"issued"}, "received")
Close(o) == Carry(o, {"received"}, "closed")
Revoke(o) == Carry(o, {"issued", "received"}, "cancelled")

(* The same three, on a status looked at too early.                        *)
PassLate(p, to) ==
    /\ p \in prs
    /\ prStatus' = [prStatus EXCEPT ![p] = to]
    /\ excused' = excused \cup {p}
    /\ UNCHANGED <<prs, pos, prOf, poStatus>>

PlaceLate(o, p) ==
    /\ o \notin pos
    /\ p \in prs
    /\ pos' = pos \cup {o}
    /\ prOf' = [prOf EXCEPT ![o] = p]
    /\ excused' = excused \cup {o}
    /\ UNCHANGED <<prs, prStatus, poStatus>>

CarryLate(o, to) ==
    /\ o \in pos
    /\ poStatus' = [poStatus EXCEPT ![o] = to]
    /\ excused' = excused \cup {o}
    /\ UNCHANGED <<prs, prStatus, pos, prOf>>

Next ==
    \/ \E p \in Prs :
          \/ Draft(p) \/ Submit(p) \/ Approve(p) \/ Reject(p) \/ Withdraw(p)
          \/ \E to \in {"submitted", "approved", "rejected", "cancelled"} :
                PassLate(p, to)
    \/ \E o \in Pos :
          \/ Receive(o) \/ Close(o) \/ Revoke(o)
          \/ \E to \in {"received", "closed", "cancelled"} : CarryLate(o, to)
          \/ \E p \in Prs : Place(o, p) \/ PlaceLate(o, p)

Spec == Init /\ [][Next]_vars
=============================================================================
