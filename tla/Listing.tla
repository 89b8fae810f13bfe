------------------------------- MODULE Listing -------------------------------
(***************************************************************************)
(* The list endpoints of SM-ERP: a page of rows, newest first, and the     *)
(* total, each from a statement of its own that sees what is committed by  *)
(* then, while other requests insert and update rows.  Both may be         *)
(* narrowed by the same filter on the status (or the direction) of a row.  *)
(* A client walks through a table page by page until offset and limit      *)
(* reach the total.                                                        *)
(*                                                                         *)
(* A row is its created_at, the time its transaction began: so a row may   *)
(* be committed after one that is newer, and an insert may land anywhere   *)
(* in the order.  Keywords, and two rows of the same created_at, which no  *)
(* ORDER BY tells apart, are left out.                                     *)
(***************************************************************************)
EXTENDS Integers, FiniteSets

CONSTANTS
    Rows,       \* rows that requests may insert
    Readers,    \* clients that walk through the table
    PageSize    \* the limit they ask for

ASSUME ListingAssumption ==
    /\ Rows \subseteq Nat /\ IsFiniteSet(Rows)
    /\ PageSize \in Nat \ {0}

VARIABLES
    table,     \* the rows there are
    matching,  \* the rows whose status is the one that filters ask for
    phase,     \* what a reader's request does next
    filtered,  \* whether a reader's walk has the filter
    offset,    \* the offset of a reader's page
    page,      \* the rows of its page
    total,     \* the total it was last answered
    seen,      \* the rows of all its pages
    base,      \* history: the rows it should see, as its walk began
    shrunk     \* history: readers whose filter lost a row on their walk

reader == <<phase, filtered, offset, page, total, seen, base>>
lists  == <<table, matching, reader, shrunk>>

ListInit ==
    /\ table = {}
    /\ matching = {}
    /\ phase = [r \in Readers |-> "start"]
    /\ filtered = [r \in Readers |-> FALSE]
    /\ offset = [r \in Readers |-> 0]
    /\ page = [r \in Readers |-> {}]
    /\ total = [r \in Readers |-> 0]
    /\ seen = [r \in Readers |-> {}]
    /\ base = [r \in Readers |-> {}]
    /\ shrunk = {}

(* The rows WHERE leaves to a statement of a reader.                       *)
View(r) == IF filtered[r] THEN matching ELSE table

(* How many of the rows S come before x, newest first.                     *)
Rank(x, S) == Cardinality({y \in S : y > x})

-----------------------------------------------------------------------------
(* A create handler commits, its row of either kind. *)
Insert ==
    /\ \E x \in Rows \ table :
          /\ table' = table \cup {x}
          /\ matching' \in {matching, matching \cup {x}}
    /\ UNCHANGED <<reader, shrunk>>

(* An update or a transition commits: the row keeps its place.             *)
Update ==
    /\ \E x \in table :
          \/ /\ x \notin matching
             /\ matching' = matching \cup {x}
             /\ shrunk' = shrunk
          \/ /\ x \in matching
             /\ matching' = matching \ {x}
             /\ shrunk' = shrunk \cup {r \in Readers : filtered[r]}
    /\ UNCHANGED <<table, reader>>

(* A client starts a walk, at the first page. *)
Begin(r) ==
    /\ phase[r] = "start"
    /\ phase' = [phase EXCEPT ![r] = "list"]
    /\ \E f \in BOOLEAN :
          /\ filtered' = [filtered EXCEPT ![r] = f]
          /\ base' = [base EXCEPT ![r] = IF f THEN matching ELSE table]
    /\ UNCHANGED <<table, matching, offset, page, total, seen, shrunk>>

(* Mutant of PageOf: the offset counts from one.                           *)
PageOfFromOne(S, o) == {x \in S : o < Rank(x, S) /\ Rank(x, S) <= o + PageSize}

(* Mutant of PageOf: LIMIT one too many, to see if there is more.          *)
PageOfOneMore(S, o) == {x \in S : o <= Rank(x, S) /\ Rank(x, S) <= o + PageSize}

(* ORDER BY created_at DESC LIMIT PageSize OFFSET o. *)
PageOf(S, o) == {x \in S : o <= Rank(x, S) /\ Rank(x, S) < o + PageSize}

(* list_...: the rows of the page. *)
List(r) ==
    /\ phase[r] = "list"
    /\ page' = [page EXCEPT ![r] = PageOf(View(r), offset[r])]
    /\ phase' = [phase EXCEPT ![r] = "count"]
    /\ UNCHANGED <<table, matching, filtered, offset, total, seen, base, shrunk>>

(* Mutant of CountRows: it was read together with the walk's first page,   *)
(* and is not read again.                                                  *)
CountRowsCached(r) ==
    /\ phase[r] = "count"
    /\ total' = [total EXCEPT ![r] =
                    IF offset[r] = 0 THEN Cardinality(View(r)) ELSE @]
    /\ seen' = [seen EXCEPT ![r] = @ \cup page[r]]
    /\ phase' = [phase EXCEPT ![r] = "answered"]
    /\ UNCHANGED <<table, matching, filtered, offset, page, base, shrunk>>

(* count_...: the answer is the page and this total. *)
CountRows(r) ==
    /\ phase[r] = "count"
    /\ total' = [total EXCEPT ![r] = Cardinality(View(r))]
    /\ seen' = [seen EXCEPT ![r] = @ \cup page[r]]
    /\ phase' = [phase EXCEPT ![r] = "answered"]
    /\ UNCHANGED <<table, matching, filtered, offset, page, base, shrunk>>

(* The client asks for the next page, or is through. *)
Turn(r) ==
    /\ phase[r] = "answered"
    /\ \/ /\ offset[r] + PageSize < total[r]
          /\ offset' = [offset EXCEPT ![r] = @ + PageSize]
          /\ phase' = [phase EXCEPT ![r] = "list"]
       \/ /\ offset[r] + PageSize >= total[r]
          /\ phase' = [phase EXCEPT ![r] = "through"]
          /\ offset' = offset
    /\ UNCHANGED <<table, matching, filtered, page, total, seen, base, shrunk>>

ListNext ==
    \/ Insert \/ Update
    \/ \E r \in Readers : Begin(r) \/ List(r) \/ CountRows(r) \/ Turn(r)

ListSpec == ListInit /\ [][ListNext]_lists

-----------------------------------------------------------------------------
(* Properties *)

(* Every variable has its type, and no page is longer than was asked for.  *)
ListTypeOK ==
    /\ table \subseteq Rows
    /\ matching \subseteq table
    /\ phase \in [Readers -> {"start", "list", "count", "answered", "through"}]
    /\ filtered \in [Readers -> BOOLEAN]
    /\ offset \in [Readers -> Nat]
    /\ page \in [Readers -> SUBSET Rows]
    /\ \A r \in Readers : Cardinality(page[r]) <= PageSize
    /\ total \in [Readers -> Nat]
    /\ seen \in [Readers -> SUBSET Rows]
    /\ base \in [Readers -> SUBSET Rows]
    /\ shrunk \subseteq Readers

(* An answer never holds a row beyond its own total, though the two come   *)
(* from different snapshots: the rows are read first and none goes away,   *)
(* except from a filtered list whose rows change status.                   *)
PageWithinTotal ==
    \A r \in Readers \ shrunk :
        phase[r] = "answered" /\ page[r] # {}
            => offset[r] + Cardinality(page[r]) <= total[r]

(* A walk misses no row that was there when it began: rows inserted        *)
(* meanwhile push others to later pages, never to earlier ones.  Again     *)
(* only a row that leaves the filter can break this.                       *)
WalkSeesAll ==
    \A r \in Readers \ shrunk : phase[r] = "through" => base[r] \subseteq seen[r]
=============================================================================
