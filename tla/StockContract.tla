---------------------------- MODULE StockContract ----------------------------
(***************************************************************************)
(* What the stock API promises its callers: an account per item that is    *)
(* opened once, takes receipts and issues while it is active, and never    *)
(* goes below zero nor beyond its column.  Every operation is one step;    *)
(* lookups, sessions, commits and failures are of no concern here.         *)
(*                                                                         *)
(* The one licence is a late movement: it is booked against an account     *)
(* that has changed since the movement was checked.  What it does to the   *)
(* quantity is then anything in range; it still books one movement, and    *)
(* the account counts as excused from then on.                             *)
(***************************************************************************)
EXTENDS Integers

CONSTANTS Items, MaxInt

VARIABLES
    rows, quantity, status, received, issued,
    excused   \* the accounts that took a late movement

vars == <<rows, quantity, status, received, issued, excused>>

Init ==
    /\ rows = {}
    /\ quantity = [i \in Items |-> 0]
    /\ status = [i \in Items |-> "active"]
    /\ received = [i \in Items |-> 0]
    /\ issued = [i \in Items |-> 0]
    /\ excused = {}

Open(i, q) ==
    /\ i \notin rows
    /\ rows' = rows \cup {i}
    /\ quantity' = [quantity EXCEPT ![i] = q]
    /\ status' = [status EXCEPT ![i] = "active"]
    /\ UNCHANGED <<received, issued, excused>>

SetStatus(i, s) ==
    /\ i \in rows
    /\ status' = [status EXCEPT ![i] = s]
    /\ UNCHANGED <<rows, quantity, received, issued, excused>>

Receive(i, n) ==
    /\ i \in rows
    /\ status[i] = "active"
    /\ quantity[i] + n <= MaxInt
    /\ quantity' = [quantity EXCEPT ![i] = @ + n]
    /\ received' = [received EXCEPT ![i] = @ + n]
    /\ UNCHANGED <<rows, status, issued, excused>>

Issue(i, n) ==
    /\ i \in rows
    /\ status[i] = "active"
    /\ n <= quantity[i]
    /\ quantity' = [quantity EXCEPT ![i] = @ - n]
    /\ issued' = [issued EXCEPT ![i] = @ + n]
    /\ UNCHANGED <<rows, status, received, excused>>

(* A movement of n checked against an earlier state of the account, which  *)
(* leaves q behind.                                                        *)
MoveLate(i, q, n) ==
    /\ i \in rows
    /\ quantity' = [quantity EXCEPT ![i] = q]
    /\ \/ /\ n <= q
          /\ received' = [received EXCEPT ![i] = @ + n]
          /\ issued' = issued
       \/ /\ q + n <= MaxInt
          /\ issued' = [issued EXCEPT ![i] = @ + n]
          /\ received' = received
    /\ excused' = excused \cup {i}
    /\ UNCHANGED <<rows, status>>

Next ==
    \E i \in Items :
        \/ \E q \in 0..MaxInt : Open(i, q)
        \/ \E s \in {"active", "inactive", "discontinued"} : SetStatus(i, s)
        \/ \E n \in 1..MaxInt : Receive(i, n) \/ Issue(i, n)
        \/ \E q \in 0..MaxInt, n \in 1..MaxInt : MoveLate(i, q, n)

Spec == Init /\ [][Next]_vars
=============================================================================
