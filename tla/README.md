# SM-ERP in TLA+

SM-ERP is a small ERP back end: FastAPI coroutines over SQLAlchemy 2.0
`AsyncSession`s, over PostgreSQL at READ COMMITTED (or SQLite), run as two or more
replicas (`k8s/deployment.yaml:11`) with no lock, queue or shared memory between
them. This directory holds TLA+ modules for the parts of it where two requests,
two processes or a failure can get in each other's way, the TLC configurations that
check them on small instances, and TLAPS proofs of what matters most for every
instance.

Paths are relative to the repository root.

- [1. Inventory](#1-inventory): the components, their state and what is hard about them
- [2. How the code becomes a model](#2-how-the-code-becomes-a-model)
- [3. The modules](#3-the-modules)
- [4. The runs](#4-the-runs): bounds, fairness, results
- [5. The proofs](#5-the-proofs)
- [6. What does not hold](#6-what-does-not-hold)
- [7. What is left out](#7-what-is-left-out)
- [8. Plan](#8-plan)
- [9. Running it](#9-running-it)

## 1. Inventory

| component | state | operations | what makes it correct |
|---|---|---|---|
| Request lifecycle, audit (`core/database.py`, `services/audit.py`) | a session per request; table of audit events | business commit, `record_audit` in a second commit | every committed change has its audit row; no row without a change |
| Inventory (`services/inventory.py`) | stock items, ledger of movements | create, update, `apply_transaction`, lists | SKUs unique, quantity never negative or too wide, quantity = opening + receipts - issues |
| Purchase (`services/purchase.py`) | purchase requests and orders, each with a status | create, transition by table, order on an approved request, lists | no stage skipped, orders only on approval, decisions final, codes unique |
| Identity (`services/employee.py`) | departments (a tree by `parent_id`), employees | lazy seeding, create, set status, lists, dashboard | a forest without dangling references, names unique, seeds never forestalled |
| Key store and SM4 (`core/security.py`, `services/crypto.py`, `repositories/setting_repo.py`) | settings table; a loader thread per call | find or make the key, encrypt, decrypt | what was encrypted can be decrypted |
| Request gate, metrics (`core/middleware.py`, `core/security.py`, `routers/metrics.py`) | rate buckets, two sets of counters, per process | refuse, pass on, count | limit kept, nobody refused without cause, counters that agree with what was answered |
| Lists and totals (repositories and routers) | none; two statements per answer | page, total | a page fits its total, a walk sees every row |
| Resource items (`services/item.py`) | generic items with a status | create, set status, overview | an accepted change took place; the overview is consistent with itself |
| Audit forwarding (`services/audit.py:46`) | a daemon thread per event | post once | taken in at most once, never without its row; nobody waits for the center |
| JWT, authorization (`core/security.py`) | a second secret, loaded like the first | verify, authorize | (pure functions) |
| Startup and schema (`main.py`, `core/database.py:26`, `alembic/`) | tables, Alembic's version | `create_all` in every replica, revisions | every replica comes up, with all tables; the version is true |
| Backup and restore (`scripts/`, `backup.ps1`) | dump files | dump, restore | a restore that reports success brought the dump back |
| Configuration, health, meta, logging, base repository, console, deployment | none that changes | | |

How they interact: the gate wraps every request and calls its handler; a handler of
inventory, purchase, identity or items talks to the database through a repository and
then calls `record_audit`; `encrypt` and `decrypt` block the whole event loop of their
process in a `join` on a loader thread, which has an event loop of its own and shares
the settings table with every other process. Processes meet only in the database.

What is hard here:

- **Check, await, act.** No handler locks a row or carries a version. Each loads a row,
  checks the *copy*, and commits values computed from the copy. Between the two, every
  other request may commit.
- **Several commits per request.** The business change and its audit row are separate
  transactions. `apply_transaction` even calls two repository functions that each
  commit; the first of them writes ledger row *and* quantity, since both are dirty in
  one session, the second writes nothing.
- **Constraints as referees.** Unique lookups (SKU, PR code, department name, login)
  happen before the insert; only the database's constraint decides a race, and each
  service has to turn its `IntegrityError` into 409. `_ensure_seed` does not.
- **UPDATEs of changed columns only.** SQLAlchemy writes a column if it differs from what
  was *loaded*; a value equal to the loaded one is not written, whatever the row holds
  by then.
- **Threads and timeouts.** A loader thread outlives the caller that gave up on it; an
  event's thread outlives its request, and the post it sent may outlive the thread.
- **Schema under way.** Replicas create tables, Alembic creates and drops them, and a restore
  drops and recreates them statement by statement, all over one running database.
- **Boundaries.** Integer columns of 32 bits under unbounded API integers; rate windows
  in whole seconds; pages by offset in a table that grows at the front.

`PROJECT.json` lists 36 such hazards, each at its line, with the properties that would
catch it going wrong or the reason why none does yet.

## 2. How the code becomes a model

**Cutting handlers into actions.** Within one event loop a coroutine runs alone between
two awaits, and under READ COMMITTED each statement sees what was committed before it.
So a handler is cut where it awaits the database, and only there: *load and check* is
one action (the SELECT and the Python after it, up to the next statement), *flush and
commit* is the next (an INSERT or UPDATE takes effect for others when it commits, and
the constraint is checked against what is committed), *audit insert and commit* the
third. What a request remembers across an await, its payload and the columns it loaded,
is its record in `job`. Consecutive lookups of rows that are never deleted are merged
into the last of them that can still fail. `session.refresh` after a commit only feeds
the response.

**Workers.** A worker is a slot for a request that is under way. Two workers are two
overlapping requests, whether in one process or in two replicas: the models do not
distinguish them, because nothing in the code does.

**Tables** are one variable per column, so that an UPDATE can write one column and leave
another. The ledger is kept as its two sums per item, which is all any property (and no
code) needs. The `audit` table is counted by action.

**Failures.** `Fail` lets a request die at any await: a statement the database refuses,
a lost connection, a stopped pod. What was not committed is gone; what was committed
stays. `Forbid` is the 403 that all write handlers begin with.

**History variables** (`opening`, `overtaken`, `untimely`, `prSeen`, `poSeen`, `overwritten`,
`unapproved`, `hired`, `commits`, `lost`, `drawn`, `history`, `early`, `sent`, `preflights`, `admitted`,
`refused`, `base`, `shrunk`, `witnessed`, `touched`, `hollow`, `rolledBack`, `inserted`, `torn`) are written and never read by the
actions, except to write history again. They let a property speak of the
past: `overtaken`, for instance, is the set of items some movement of which was computed
from a quantity that was no longer the row's.

**Mutants.** Definitions whose comment begins with "Mutant of" are plausible mistakes in
the definition that follows them. No specification uses them; each is put in place of the
correct definition to see that a property notices.

## 3. The modules

```
Handler ──┬── Inventory ───── implements ── StockContract
          ├── Purchase ────── implements ── PurchaseWorkflow
          ├── Identity
          └── AuditForward ── Resource
Schema ────── Backup
SecretStore        RequestGate        Listing

HandlerProofs ─┬─ InventoryProofs      SecretStoreProofs
               ├─ PurchaseProofs       BackupProofs
               ├─ IdentityProofs       ClientProofs (RequestGate and Listing)
               └─ ResourceProofs
```

**`Handler`** (`core/database.py`, `services/audit.py`, `repositories/audit.py`) is the frame
of every write handler: `Arrive`, `Await`, `Answer`, `Forbid`, `Commit`, `Abandon` (a commit
the database refused), `RecordAudit`, `Fail`. The service modules EXTEND it and conjoin
their own changes.

**`Inventory`** (`services/inventory.py`, its repository, model and schema).
`CreateLookup`/`CreateCommit` are `create_item`, `UpdateLoad`/`UpdateCommit` are `update_item`
(only its status matters to any other handler), `MoveLoad`/`MoveCommit` are
`apply_transaction`. `Storable` is the Integer column: a quantity too wide for it fails the
commit, ledger row and all. It is a signed column, so that nothing but the code's own
check keeps a quantity from going negative.

**`StockContract`** is the account the API promises: `Open`, `SetStatus`, `Receive`, `Issue`,
each one step, with no session, lookup or commit. Handlers that check a copy cannot implement
that strictly, so the contract has one licence, `MoveLate`: a movement checked against an
earlier state of the account, which still books one movement and leaves a quantity in range,
and which puts the account among the `excused` for good. `Inventory` implements it
(`Contract == INSTANCE StockContract WITH excused <- overtaken \cup untimely`): the refinement
mapping is the identity on the tables, and an item is excused exactly if some movement
overwrote a quantity it had not seen (`overtaken`), or committed when the item was no longer
active (`untimely`). `MoveCommit` is `Receive`, `Issue` or `MoveLate`; everything up to a commit,
every refusal and every failure is a stutter. So the refinement says what an accepted request
means, and confines the damage of a race to the items where one has happened.

**`Purchase`** (`services/purchase.py`). `FileLookup`/`FileCommit` create a request,
`DecideLoad`/`DecideCommit` and `AdvanceLoad`/`AdvanceCommit` are the two `transition`
methods over the tables `RequestMoves` and `OrderMoves`, `PlaceLoad`/`PlaceCommit` is
`create_order`, with the collision of its 40-bit number as a possible 409.

**`PurchaseWorkflow`** is the approval workflow without sessions: decisions are final, orders
are placed on approved requests, an order is received before it is closed. `PassLate`,
`PlaceLate` and `CarryLate` are its licences, for a decision, an order or a receipt on a status that
has changed since it was loaded; `Purchase` implements it with
`excused <- overwritten \cup unapproved`.

**`Identity`** (`services/employee.py`). `Begin` starts any handler that first calls
`_ensure_seed`; `SeedLookup`, `PlantDept` and `PlantAdmin` are its lookups and inserts, one
committed seed at a time, and an insert that loses a race ends the request with 500.
`Read`, `HireLookup`/`HireCommit` (`create_employee`), `FoundLookup`/`FoundCommit`
(`create_department`) follow on a seeded table; `StatusLoad`/`StatusCommit` (`set_status`)
does not seed, as in the code.

**`SecretStore`** (`core/security.py:56`). `Call` starts a loader thread and blocks the
process; `Look`, `Check`, `Write` and `Clash` are the thread's `get_setting`, the SELECT of
`set_setting`, its commit, and the insert that hits the primary key; `Join` hands the key
over; `GiveUp` is the ten-second timeout, `Break` a failing statement, `Die` a process
that goes with its threads. A ciphertext *is* the key it was sealed with; whether the
key is right is all that decrypting can tell.

**`RequestGate`** (`core/middleware.py`, `check_rate_limit`). `dispatch` awaits nothing but the
handler, so a refusal is one step (`Refuse`, `TooMany`) and a served request two (`Enter`,
then `Leave` or `Raise`). `Admit` and `Limit` include the sweep of all expired buckets that
every check starts with. `Raise` is the handler whose exception no exception handler knows:
`call_next` raises it inside `dispatch`, which ends before it has counted anything. `AuthorizedRaises` is
the same without a handler: `compare_digest` takes no token with a non-ASCII character (`core/security.py:43`),
and it is called before the rate limit. `Preflight` never comes to `dispatch`: `CORSMiddleware` is added last
(`main.py:42`), so it is the outermost and answers by itself. The history `admitted`
is cumulative: for each client, how many requests had been let through by the end of each second, so
that what came in any span is a difference (`Between`).

**`Listing`** is any of the list endpoints together with writers: `List` and `CountRows` are their
two statements, `Turn` is the client going on to the next page. A row *is* its `created_at`, and `PageOf` takes
the rows whose `Rank` (how many are newer) lies in the page. An insert may land anywhere in that
order, because `created_at` is when a transaction *began*. Its specification is `ListSpec`, so that one module can
hold the proofs about this module and about `RequestGate`.

**`AuditForward`** (`services/audit.py:42-64`) extends the frame by what follows the audit row:
`RecordAndForward` is all of `record_audit` (the row, then a daemon thread for the event),
`RecordUnforwarded` the case that no thread can be started, in which the client is told of a failure
although everything is stored. `Post` sends, `GiveUp` ends the thread (answered, refused, timed out, or
gone with its process), `TakeIn` is the center receiving a post, possibly after the thread gave up. A
post that stays on the `wire` is a lost one. An event is identified by its row.

**`Resource`** (`services/item.py`, `repositories/item.py`) is the service that runs over it:
`CreateStart`/`CreateCommit`, `ChangeLoad`/`ChangeCommit` (`update_status`; `Written` is the UPDATE that is
left out when the wanted status equals the loaded one), and `OverviewList`, `OverviewTotal`,
`OverviewActive`, the three statements of `get_overview`. An overview holds its page, which is each item's listed
status or `Unlisted`, and with it what moved while it was under way: how many items were created (`added`) and
which changed status (`touched`).

**`Schema`** (`main.py`, `core/database.py`, `alembic/`). `Start` is `lifespan` up to the lookups of
`create_all`, `CreateAll` its CREATE statements and commit, or its failure on a table somebody else has
created meanwhile, after which the cluster starts the replica again. `Upgrade(n)` and `Downgrade` are
Alembic's, each in one transaction with the version; an upgrade is not enabled where a table it would create
exists, because it then fails and rolls back.

**`Backup`** (`scripts/backup.sh`, `scripts/restore.sh`) composes `Schema` with the two scripts.
`BackupStart` is `pg_dump`'s snapshot and the opening of the file; the dump is then completed
(`BackupDone`), fails and removes its file (`BackupFail`), or is killed and leaves it truncated
(`BackupKilled`). A restore goes through the kinds of statements `pg_dump --clean` writes, one table at a time and
each committed by itself, since `psql` is given no `-1`: `RestoreDrop`, `RestoreCreate`, `RestoreCopy`,
`RestoreFinish`. It ends at the first error, at the end of a truncated file (`RestoreTruncated`), or when the
connection breaks. What a failure leaves behind is `torn`; a dump taken of it, or while a restore runs, carries
the mark along, and a success with a dump of every table removes it.

The `MC*` modules give the constants their small sets; the `*Proofs` modules hold the
theorems.

## 4. The runs

"Expected" is what TLC reports. The state counts are distinct states, after symmetry.

| run | checks | expected |
|---|---|---|
| `inventory` | 2 workers, 5 requests, 2 items, 2 SKUs: `TypeOK StockInRange UniqueSku LedgerUnlessOvertaken AuditAccounted QuantityMovesWithLedger ImplementsContract` | holds, 1 071 056 |
| `inventory_oversold` | 2 workers, 3 requests, 1 item: `NeverOversold` | violated |
| `inventory_audit` | 1 worker, 2 requests: `AuditComplete` | violated |
| `purchase` | 2 workers, 7 requests, 2 purchase requests, 1 order: `TypeOK OrdersFollowApproval NoStageSkipped UniqueCode MovesAlongTables ImplementsWorkflow` | holds, 1 135 493 |
| `purchase_approved` | 2 workers, 5 requests: `OrderedWhileApproved` | violated |
| `identity` | 2 workers, 2 requests, 4 departments, with fairness: `TypeOK NoParentCycle NoDanglingReference SeedsNotForestalled UniqueNames EveryRequestAnswered` | holds, 38 138 |
| `secret` | 2 processes, 3 calls, faults, with fairness: `TypeOK SealedWithStoredKeys KeysBounded RoundTripWithOneKey EveryCallEnds` | holds, 177 803 |
| `secret_round_trip` | the same without faults: `RoundTrip` | violated |
| `gate` | 2 clients, 5 requests, 6 seconds, windows of 3: `TypeOK SlidingLimit CountersAgree RefusalJustified` | holds, 622 087 |
| `listing` | 5 rows, pages of 2, 1 reader: `ListTypeOK PageWithinTotal WalkSeesAll` | holds, 3 034 272 |
| `resource` | 2 workers, 3 requests, 3 items, with fairness: `TypeOK ChangeTookEffect OverviewAgrees ArchiveFollowsRows WorkEnds` | holds, 146 815 |
| `backup` | 2 replicas, a table per revision, a row, a dump, a restore, a crash, with fairness: `TypeOK SchemaComplete RestoreBringsBack ReplicasStart` | holds, 392 359 |

### What they show

*Inventory.* Despite unlocked reads, a stored quantity is always within
`0..MaxInt` (each write comes from *some* checked copy), SKUs are unique, no handler moves a
quantity without a ledger row, and the ledger explains the quantity of every item
except those on which a movement overwrote one it had not seen (`LedgerUnlessOvertaken`).
That last property locates the lost update exactly: it has no other cause. And the handlers
are the account of `StockContract` with late movements marked, so on an item without one every
accepted movement was covered by the stock and made on an active item. The failing
runs are described in section 6.

*Purchase.* Decisions can overwrite each other, but no interleaving approves
what was never submitted, closes what was never received, or orders on what was never
approved, because each status that was loaded is one the row has really had. A
status leaves its table only by such an overwrite (`MovesAlongTables`), and the handlers
implement `PurchaseWorkflow` with late steps marked.

*Identity.* Check-then-insert is safe here because nothing is ever deleted: the tree has no
cycle though no constraint forbids one, and references do not dangle, neither the parents, which no
foreign key guards (`models/employee.py:20`), nor the departments of employees, which one guards on
PostgreSQL but not on SQLite (`models/employee.py:32`; the model does without it). Since every
create first waits until all seeds are committed, no client
can take a seed's id, name or login. Every request is answered: at most three seeds are
planted, and one that loses a race is not retried.

*Key store.* Two processes that start on an empty table may use two keys. That is all that
can go wrong: timeouts, failing statements and dying processes add nothing to it. A
ciphertext is never sealed with a key that was not stored, and there are at most as many keys
as loaders that looked before there was one. The blocked event loop is released even
if `join` never times out.

*Gate.* A bucket is an exact count; in any span of one window's length fewer than twice the
limit get through (the fixed window's usual bound, less one); a refusal always has a full
window's worth of admitted requests in the last window's seconds behind it, so refused
requests do not prolong the refusal. The two sets of counters agree and count nothing
twice. What only `dispatch` or a handler answers (401, 409, 413, 429) is never missed; the total
misses exactly the preflights and all 500s. So no 5xx ever reaches a counter of errors, though
`/metrics` calls one the total of them (section 6).

*Listing.* Reading rows before the total, in a table without deletes, makes every page fit
its total and lets a walk miss nothing that was there when it began. Both fail only for a
filtered list from which a row changed away meanwhile (`shrunk`).

*Resource and forwarding.* A status change that writes nothing was still true for a moment: the wanted
status is one the row had between the load and the commit, so last-writer-wins loses no more than it
says. The overview's three statements may disagree, but only by what was created and what changed status between them:
an item listed as active is counted as active, and one listed otherwise is not, unless its status changed
meanwhile. The audit
center never holds an event without its committed row, nor one twice, though it may miss
any; and neither requests nor threads wait for it.

*Schema and backup.* However starts, migrations, crashes and restores follow on each other, Alembic's
version names only tables that exist, and a replica that serves has all its tables, unless a restore failed (and none
has brought back every table since) or a migration was undone beneath it. A replica that loses the race for a table, or meets a
half-restored database, comes up in the end. A restore that says OK has every row of the dump in place,
and nothing else in those tables but what replicas inserted while it ran; a truncated file never passes for
restored, which hangs on `set -o pipefail` alone.

### Bounds

All bounds are CONSTANTS: `MaxRequests` (requests, or calls through `Calls`), `MaxTime`, and
the sets. `CHECK_DEADLOCK FALSE` is there because these bounds end every behaviour; the
code does not stop. The invariants and action properties of all modules are proved without the bounds
(section 5), so for them the runs are a check of the model and a guard against vacuity.

- *Inventory:* quantities `{0, 2, 5}` over a column that stores up to 4: nothing, an
  ordinary amount, one too wide; two receipts of 2 fill the column, a third overflows. Five
  requests are a create, a receipt that fills the item, two racing movements and one more.
- *Purchase:* the shortest way to an order takes four requests, to a closed one six; seven
  leave room for a rival. One order is enough, since no property relates two. Quantities and prices
  are left out: no guard reads them.
- *Identity:* two non-seed departments are the fewest that could close a cycle and two
  concurrent founders the fewest that could race for it. Seeding by two requests at once,
  and by a request against a client's create, needs two requests. Two logins ("admin" and one
  other) need two keys.
- *Key store:* in two processes, one call each to make two keys and a third to open what the
  loser sealed; three calls draw at most three keys.
- *Gate:* a window of 3 seconds with a limit of 2 over 6 seconds contains two full windows
  and every offset between them, which is where an off-by-one shows; five requests fill
  both windows and leave one to refuse. The second client is there because a check sweeps
  the buckets of all.
- *Resource:* two creates and an overview, or a create and two racing changes, take three requests; a page
  of one item is shorter than the table, and one of the two statuses is the default that `active` counts.
  Three events are enough for one lost, one late and one taken in.
- *Backup:* two replicas race for a table, the two revisions have a table each, one row is in the dump or
  inserted during the restore. One dump and one restore, one crash (`MaxCrashes`, a bound; losing the
  race restarts a replica without it) and one downgrade. What several restores do to each other, a torn schema
above all, takes two dumps and two restores, which are too many for liveness to be checked in minutes: the
theorems cover them. The lookups of `create_all` happen at one instant, and the operator does not
  migrate while restoring: both are assumptions of the model.
- *Listing:* five rows are three pages, the last of them short, and inserts in any place push rows across the
  boundary. One reader suffices: readers share nothing and change nothing.

Symmetry is used only in runs of invariants and action properties, and only over sets that the
configuration treats alike; never with liveness.

### Fairness

`Identity!FairSpec` is weak fairness of `Proceed(w)`: the event loop resumes a coroutine once the
database has answered it. Arrivals and deaths are under no obligation. `SecretStore!FairSpec` is
weak fairness of a thread's own steps and of `Join`: threads are scheduled, and the
database answers. No fault need ever happen, in particular the timeout need not, so
`EveryCallEnds` says that the loader does not depend on the loop it blocks, which is the
point of giving it a loop of its own (`core/security.py:119-121`). `Resource!FairSpec` is weak
fairness of `Proceed(w)` and of `GiveUp`: a thread ends by its two-second timeout (`services/audit.py:61`).
Nothing is assumed of `TakeIn` or `Post`: the center may be away for good. `Backup!FairSpec` is weak fairness of a
replica's start, which the cluster repeats until it succeeds; nothing is assumed of the operator, whose steps and
whose crashes are bounded. All other runs are of
safety properties and assume no fairness.

## 5. The proofs

Checked by TLAPS for all values of the constants; the assumptions are the named ASSUMEs
(`HandlerAssumption`, `InventoryAssumption`, `PurchaseAssumption`, `IdentityAssumption`,
`SecretAssumption`, `ResourceAssumption`, `ForwardAssumption`, `GateAssumption`, `ListingAssumption`,
`SchemaAssumption`, `BackupAssumption`), which say that workers, calls and rows are finitely many, that bounds are
natural numbers (windows, limits and pages not zero), that the two revisions create different tables,
and that the values standing for "no row" are not real ones.

| theorem | says |
|---|---|
| `InventoryProofs!TypeAndRange` | `Spec => [](TypeOK /\ StockInRange)` |
| `InventoryProofs!AuditIsAccounted` | `Spec => []AuditAccounted` |
| `InventoryProofs!BooksHold` | `Spec => [](UniqueSku /\ LedgerUnlessOvertaken)` |
| `InventoryProofs!QuantityFollowsLedger` | `Spec => QuantityMovesWithLedger` |
| `InventoryProofs!AccountImplemented` | `Spec => ImplementsContract`, for any number of workers |
| `InventoryProofs!SerialBooks` | with at most one worker, `Spec => []LedgerBalance`, so that nothing is excused |
| `PurchaseProofs!PaperTrail` | `Spec => [](TypeOK /\ UniqueCode /\ OrdersFollowApproval /\ NoStageSkipped /\ AuditAccounted)` |
| `PurchaseProofs!MovesFollowTables` | `Spec => MovesAlongTables` |
| `PurchaseProofs!WorkflowImplemented` | `Spec => ImplementsWorkflow`, for any number of workers |
| `PurchaseProofs!SerialWorkflow` | with at most one worker, `Spec => []NoneLate` |
| `IdentityProofs!TablesHold` | `Spec => [](TypeOK /\ UniqueNames /\ NoParentCycle /\ NoDanglingReference /\ SeedsNotForestalled)` |
| `IdentityProofs!SerialAccounts` | with at most one worker, `Spec => []SeedsPlantable /\ [][StatusStored]_vars` |
| `SecretStoreProofs!KeysHold` | `Spec => [](TypeOK /\ SealedWithStoredKeys /\ KeysBounded /\ RoundTripWithOneKey)` |
| `SecretStoreProofs!OneProcessOpens` | with at most one process and no faults, `Spec => []RoundTrip` |
| `ResourceProofs!ItemsHold` | `Spec => [](TypeOK /\ ChangeTookEffect /\ OverviewAgrees)` |
| `ResourceProofs!SerialItems` | with at most one worker, `Spec => [][OverviewExact]_vars /\ [][ChangeStored]_vars` |
| `ResourceProofs!ArchiveHolds` | `Spec => [](ArchiveFollowsRows /\ AuditAccounted)` |
| `ClientProofs!GateCounts` | `Spec => [](TypeOK /\ SlidingLimit /\ CountersAgree)` |
| `ClientProofs!RefusalsHold` | `Spec => RefusalJustified` |
| `ClientProofs!ListsHold` | `ListSpec => [](ListTypeOK /\ PageWithinTotal /\ WalkSeesAll)` |
| `BackupProofs!SchemaHolds` | `Spec => [](TypeOK /\ SchemaComplete)` |
| `BackupProofs!RestoresHold` | `Spec => RestoreBringsBack` |

**The frame.** `HandlerProofs` proves, for a service of any shape, that each of the frame's
steps keeps `HandlerInv == HandlerTyped /\ AuditAccounted`. `AuditAccounted` counts requests in
flight by a cardinality, so the lemmas are about adding one worker to a finite set and removing
one. The service proofs cite them and never look at cardinalities again.

**Inventory.** `StockInRange` is not inductive: a commit writes what a worker holds. `TypeInv`
adds `MovesChecked` (an issue in flight is covered by the copy it holds) and the range of held copies;
then `Moved` of a checked copy cannot be negative, and `Storable` bounds it from above.
`BooksInv` adds that held keys have rows (`JobsRefer`) and that an unused key has an empty
ledger (`FreshLedger`), which a create needs to open balanced books. `AccountImplemented` takes
each commit to a step of the contract: a movement whose held quantity and status are still the row's is
`Receive` or `Issue`, any other is `MoveLate`, and its bounds come from `MovesChecked`. For one worker,
`SerialInv` says that a held copy *is* the row (`CopiesCurrent`), so that no movement is late. Together the two
theorems say that without overlap the handlers are the strict account.

**Purchase.** A commit writes a target that was legal for the status it *loaded*. What saves
the paper trail is that the loaded status is one the row has had (`JobsBacked`), and that
histories are closed under the tables' predecessors (`Histories`). That rows are never deleted and
histories only grow (`Grows`) keeps what other workers hold true. `WorkflowImplemented` and
`SerialWorkflow` follow the pattern of the inventory.

**Identity.** `Backed` says what each phase may rely on: the department of a hire and the parent of
a new department exist, and a client's create has seen all seeds. As rows are only added (`Grows`), this
outlives any await. A new department is inserted below one that exists, and it was not there
itself, so it cannot close a cycle: a set of departments with all parents inside stays such a
set without the new one. A seed cannot be forestalled because a client's insert has `Seeded` in
its past. `SerialAccounts` is about one worker: a seed that was missing still is when it is inserted, and by
`SeedsNotForestalled` nobody has its name, so no request fails in `_ensure_seed`; and `set_status`, which writes nothing
when the wanted value is the loaded one, leaves the wanted one nevertheless.

**Key store.** `Lineage`: each stored key is held by a thread that looked while there was none, and
such a thread never looks again. Mapping those threads onto the stored keys is a surjection, which
bounds their number. `Provenance`: what a thread hands over, and what was sealed, was stored; an
answer is garbled only by two different stored keys. `OneProcessOpens` asks when there cannot be two: the event loop of the
only process is blocked for as long as a loader works (`Attended`), so loaders run one after the other, and only the first finds
no key. That is the opposite side of `secret_round_trip`, and it does need the absence of faults: a loader whose caller gave up
after ten seconds works on beside the next one.

**Resource and forwarding.** `ChangeTookEffect` needs that the status a worker loaded is one it has
witnessed. `OverviewAgrees` needs that the page and the total a worker holds come in the order in which they were read from
a table that only grows (`Held`), and that every listed item still has the status it is listed with unless it is `touched`
(`PageHeld`); the active count then includes the listed actives that were not touched, and none of the other untouched
ones (`ActiveAndNot`). `Delivered` says that an event has its row from the moment its thread exists, and is
in at most one of `posting`, `wire` and the center: that, and not the network, is why nothing is taken in
twice. `ResourceProofs` takes the audit row from the frame's lemmas, with and without its thread.
`SerialItems` says what the two properties become without overlap: the overview *is* the table at the moment of its answer
(the listed statuses, the total and the active count), and the status answered is the status stored.

**Gate.** `SlidingLimit` follows from what a bucket knows of the past. `BucketTrue` says that a bucket in the table
counts exactly what came since it opened, that it opened with a request, that less than a full window's worth came within a
window *before* it, and that nothing came after its window, which is what makes an expired bucket as
good as none. `NoBucketTrue` is the same for a client without a bucket. A span of a window's length that a new request
falls into starts after the window before the bucket did, so it holds less than a full window's worth from before and at
most a full one from the bucket (`AdmittedKeeps`). A refusal comes from a live, full bucket, all of whose requests are within the
last window (`RefusedWereFull`). `CountersAgree` is inductive as it stands: `Counted` is the lemma of a response that the
counters see, `Uncounted` of a preflight's or a 500. The sweep keeps all this for everybody else (`SweptKeeps`).

**Lists.** The places of the rows of a page are different numbers between its offset and the smaller of its end and the
size of the table; mapping rows to places is an injection into that interval, which gives both bounds on a page
(`PageBound`). A row's rank never falls while rows are only added (`RankGrows`). So `Walk` can say of each of a reader's
phases that the rows it should see and has not seen rank at or beyond its next offset. Once the total is read they are counted
in it, so there is a next page as long as there is one of them.

**Schema and backup.** `SchemaComplete` says nothing while a restore runs, when tables are missing, so the invariant
counts the tables of its dump as there or on their way (`Restored`) in `VersionTrue` and `ReplicasProvide`, and
`Progress` says, statement by statement, which of them are back and what they hold: an emptied table only what was
inserted since. A success has all of them in place. A dump taken while nothing is torn has the tables of
its version (`Sound`), so restoring it under a running newer or older version leaves a true one. The invariant would not go through
for the plain condition that the *last* restore did not fail, and rightly: a failed restore of a stamped dump leaves its
tables dropped under the old version, a success with a dump of fewer tables does not bring them back, and a dump
of the torn schema passes it on. TLC finds this with two dumps and two restores. Hence `torn`.

**Only model-checked:** liveness (`EveryRequestAnswered`, `EveryCallEnds`, `WorkEnds`, `ReplicasStart`: fairness and
ENABLED are out of the prover's reach), and the four disagreements below, which are counterexamples.

## 6. What does not hold

Each of these four runs is expected to fail, and its counterexample is the shortest one.

- `inventory_oversold`: two issues of the same item both load the quantity, both pass the check of
  `services/inventory.py:109`, and both book a ledger row; the second write hides the first. The
  comment above it (`:108`) promises that stock cannot go below zero. The quantity indeed does not;
  the goods do.
- `inventory_audit`: a request that dies between its business commit and `record_audit`'s commit
  (`services/audit.py:40`) leaves a change without an audit row for good, which
  `SECURITY_BASELINE.md:30` rules out. For the audited operations of inventory, purchase and items,
  `AuditAccounted` shows that this is the only gap. It is not checked for identity, where there is another:
  `_ensure_seed` commits the departments and the admin account with no audit row at all
  (`services/employee.py:59-70`).
- `purchase_approved`: `create_order` checks the approval (`services/purchase.py:145`) on a copy; a
  rival transition that loaded "submitted" before the approval overwrites it with "cancelled", and
  then the order is committed. The comment at `:144` says that only approved requests get orders.
- `secret_round_trip`: two processes find no key; the first stores its own, and `set_setting`'s
  SELECT turns the second's insert into an update (`core/security.py:67`). What was encrypted
  with the first key no longer decrypts, contrary to `tests/test_crypto.py:22`.

Smaller things met while modelling, which the models follow but no run states:

- A movement may commit after its item has been discontinued: the status was checked on the copy
  (`services/inventory.py:106`).
- Two decisions on one submitted request both succeed, and the later commit stands
  (`services/purchase.py:112`): a late decision in `PurchaseWorkflow`.
- `set_status` and `update_item` answer 200 without writing anything when the wanted value equals
  the loaded one, even if another request has changed the row since (`services/employee.py:123`).
- If no thread can be started, `record_audit` raises after everything is committed, and the client gets a 500 for a
  change that is stored and audited (`services/audit.py:64`).
- Once a replica has created the tables, `alembic upgrade` fails on the first of them for good, though
  the comment at `core/database.py:23` means Alembic for production; and restoring a dump of an older version
  over a newer schema leaves the newer tables there, so that the next upgrade fails on them.
- A restore that reports OK need not repair what a failed one left behind: `scripts/restore.sh:61` stops at the first
  error with tables dropped, and a dump that lacks some of them can be restored over that with success.
- `scripts/restore.sh:43` warns that a restore overwrites all current data; tables that are not in the dump stay as
  they are.
- `routers/metrics.py:45` calls its counter the total of HTTP 5xx errors. It is always 0: every 5xx of this program
  stands for an exception, raised in a handler (`core/middleware.py:48`) or in `dispatch` itself (`:29`), and an
  exception ends `dispatch` before it comes to the counters. `CountersAgree` states this as it is: `prom.errors` stays 0 while
  `sent[500]` grows. Nor is the counter of `:42`, the total of HTTP requests, that total: it misses the 500s and the preflights.
- A request with a non-ASCII `X-Internal-Token` is answered 500 instead of 401 (`core/security.py:43`).
- `check_rate_limit` calls itself a token bucket (`core/security.py:23`) and is a fixed window, so up to
  `2 * RATE_MAX_REQUESTS - 1` requests can pass within one window's length, as `SlidingLimit` has it.
- The repository's README describes login endpoints, encrypted audit details and a refusal to
  start without keys; the source has none of these.

## 7. What is left out

- **Data no guard reads:** names, remarks, prices, priorities, safety stock, password hashes, response bodies,
  latencies, headers.
- **Equal `created_at`** in lists, where the order is the database's own.
- **Event loops sharing a connection pool.** A loader thread uses the engine's pool from its own
  event loop. What then happens depends on the driver and is outside the source.
- **Isolation other than READ COMMITTED.** SQLite serialises writers; its behaviours are among those of
  the models, except for "database is locked", which is a failing statement (`Fail`, `Break`).
- **What backup.sh does after the dump:** the copy of `.env` and the deletion of old files, which touches
  neither the database nor the new dump. The PowerShell scripts copy a SQLite file.
- **DDL on SQLite**, where Alembic's migrations are not wrapped in a transaction.
- **Several dumps or restores at a time.** Dump files are named by the second they begin in.
- **`_jwt_secret`** is `_sm4_key` over another setting; `SecretStore` stands for both.
- **More than one process at the gate:** buckets and counters are per process and never meet.
- **Components** with status `not_modelled` in `PROJECT.json`, each with its reason.

## 8. Plan

Done, in this order: `Handler`, `Inventory` with `StockContract`, `Purchase` with `PurchaseWorkflow`,
`Identity`, `SecretStore`, `RequestGate`, `Listing`; the proofs of the first five; the two refinements with
late steps and their proofs for any number of workers; `AuditForward` with `Resource`; `Schema` with
`Backup`; `ResourceProofs`, `ClientProofs`, `BackupProofs`; what becomes of each handler service with one worker, and of the
key store with one process. Every safety property of every passing run is a theorem.

Next, most important first:

1. **The gate at its limit:** that `2 * MaxPerWindow - 1` is reached, so that `SlidingLimit` is the best bound there is.
2. **The gate as an abstract limiter:** a specification of what a client may rely on, with the buckets as its implementation.
3. **Delivery as a promise:** `AuditForward` against an at-most-once channel that may lose and delay, so that the two hazards of
   the center's side are one refinement.

## 9. Running it

```
tlc -workers 2 -config MCInventory.cfg MCInventory      # a run of section 4
tlapm InventoryProofs.tla                               # a module of section 5
```

`PROJECT.json` names, for each run, its module, configuration and properties; for each definition,
the lines of code it models; for each property, a mutant of the code that it catches.
