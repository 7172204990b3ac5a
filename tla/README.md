# Verification of sqlalchemy-audit-trail

TLA+ models of the audit trail library in `src/audit_trail`, checked with TLC
and, where a result should hold for every size, proved with TLAPS.

## The system

The library writes an audit log into two PostgreSQL tables beside the host's
own: `audit_transaction` (who and how, one row per database transaction that
wrote entries) and `audit_activity` (one row per object and flush, or per
event). Both are partitioned by month, the second by severity first.

| Component | State it keeps | Operations | What makes it correct | Module |
| --- | --- | --- | --- | --- |
| In-session capture (`listener.py`, `writer.py`, `config.log`) | the cached `audit_transaction` row of each connection, in `session.info`, with the SessionTransaction it was inserted in | `after_flush`, `write_entries`, `run_isolated`, `log()`, `_after_transaction_end`, `_after_soft_rollback` | an entry is committed exactly with its change, under one row that exists | `SessionAudit`, `AuditScopes` |
| Durable writes (`writer.write_durable`, `handle_durable_failure`) | none between calls; a connection of `durable_engine` | insert, create missing partitions, retry once | an entry is written once, or the failure is raised or logged as the event's flags say | `Partitions` |
| Partition maintenance (`maintenance.py`, `migrations.py`) | the catalog: attached, pending-detach and detached partitions; advisory and table locks | `ensure_partitions`, `drop_expired`, `health` | only expired partitions are dropped; an interrupted run can be finished | `Partitions` |
| Compaction (`_compaction.py`) | none | `compact_rows` | the merged rows are the net change of the transaction | `EntityLog` |
| Queries (`query.py`) | cursors held by the caller | `list_groups`, `object_history`, `related`, `get`, labels | each matching transaction once, in order, across pages; nothing hidden | `Pagination`, `Reading` |
| Relationship deltas and snapshots (`relations.py`, `mixin.py`) | a delta per tracked collection, a copy per snapshot column, on the instance | attribute events, expire, flush, rollback | the recorded change is the change of the database | `ChangeCapture` |
| Diff (`diff.py`) | none | `entity_changes`, `object_id_of`, `resolve_scope` | each entry says what its flush did, and to which row | `Instances`, `EntityLog` |
| Privacy (`privacy.py`, `config.scrub`) | none | `scrub`, `scrub_actor` | nothing in scope is left, nothing outside it is touched | `Scrub`, `EntityLog` |
| Context (`context.py`, `integrations/fastapi.py`) | the ambient context, the bound one, the request's session | `context`, `set_actor`, `bind`, middleware, session dependency | an entry names the actor of its moment | `Requests` |
| Serialization (`serialization.py`) | keys | `encode_value`, `pseudonymize` | pure encoding | - |
| Registry, checks, test support | set up once | | static | - |

How they interact: the host drives a SQLAlchemy session; the session calls the
listener back on flush, rollback and the end of a transaction; the listener
asks the context who acts, the diff and the relationship deltas what changed,
and the writer inserts on the session's own connection. Queries read committed
rows and compact them. Maintenance, scrubbing and durable writes run on
connections of their own, beside the sessions.

What is hard: savepoints and failures inside one session (the cached row must
follow what PostgreSQL undoes); commits over several connections; maintenance,
scrubbing and readers beside writers that commit later; crashes inside
maintenance; deltas and snapshots that outlive the flush they describe.
`PROJECT.json` lists each hazard at its line.

## Modules, runs and settings

Each component has one module, parameterised by constants. `AuditScopes` is an
abstract specification that `SessionAudit` implements. `Reading` extends
`Scrub`: the reader sees the very rows that scrubs erase and requests commit.
`Partitions` composes durable writes, sessions and maintenance, which meet at
the partitions and their locks. The `MC` modules instantiate them for TLC.

One run answers one question and may do so in several *settings*; a variable of
the `MC` module, fixed at the start, says which one a behaviour is in. In
`MCRequests`, `MCReading`, `MCPartitions`, `MCPagination`, `MCEntityLog` and
`MCSessionAudit` (by `onError`) a setting is a set of bounds upon one specification, and the run
checks the component's own properties. The other `MC` modules extend the
component with one set of constants and add `INSTANCE`s of it with others over
the same variables; a property then names the settings it is about. Those
settings use distinct model values, so a permutation of the values of one
leaves the others alone and symmetry stays sound.

| Run | What it asks | Settings and bounds |
| --- | --- | --- |
| `session` | Is the cached row always right, and each entry committed with its change? | `on_error="log"`: 2 connections, 4 SessionTransactions, 2 writes; `"raise"`: 2 connections, 2 SessionTransactions, 3 writes |
| `session_refused` | One row per database transaction? *violated* | `on_error="raise"` |
| `compaction` | Is what is shown the net change? | *long*: 1 object, 4 flushes; *actors*: 1 object, 2 actors, 3 flushes; *objects*: 2 objects, 2 scopes, 3 flushes, a row switch; every partial scrub in each |
| `compaction_switch` | Also for a row switch? *violated* | 1 object, 2 flushes |
| `capture` | Is an entry the change of its flush? | hosts that toggle capture and expire on commit, and hosts that do neither; 1 member, 2 values, 2 SessionTransactions |
| `capture_silent` | Also after capture was off? *violated* | 1 member, 1 value |
| `instances` | Do the entries of an instance add up to its row? | 3 keys, 3 values per column, server defaults fetched or not; no bound on flushes |
| `partitions` | Is nothing dropped early, created twice, left uncovered or logged twice? | *retention*, *twins*, *custom*, *durable*, see below |
| `partitions_live` | Does every call return, and every expired partition go? | 1 client, 1 process, 1 severity, 3 months |
| `pages` | Is each transaction listed once, none missed? | *window*, *ties*, *history*, see below |
| `reading` | Is all that was asked for erased, nothing else, and nothing hidden shown? | *reading*, *scopes*, *atOnce*, see below |
| `requests` | Does each entry name its own request's actor? | *requests*, *sessions*, see below |

The order the modules were written in follows their weight: what an entry is
committed with, what it says, what readers make of it, then the processes
around it. What is left is listed under *Not modelled* and *Not proved*.

## In-session capture: `SessionAudit`

One session, a stack of SessionTransactions (the root first), several
connections. State: `stack`, `lineage` (each SessionTransaction's `.parent`
chain, as `_within` walks it, kept after it is closed), `usable` (FALSE
between a failed flush or commit and the next rollback), `captureOn`
(`session.info["audit_enabled"]`), `cache` (`session.info["audit_trail.transaction"]`),
`onError` (the policy of the AuditTrail, fixed when it is made), and for
PostgreSQL `rows` (uncommitted, with the savepoint depth they live
at), `failedAt` (aborted transactions) and `published` (one batch per
committed database transaction). `lost` records what `on_error="log"` logged.

| Action | Code |
| --- | --- |
| `Flush`, `FlushFails` | `_Listener.after_flush`, `write_entries`, `_write_group` under `run_isolated`; SQLAlchemy rolls the innermost savepoint back when a flush fails |
| `LogEvent`, `LogEventFails`, `LogEventRefused` | non-durable `AuditTrail.log` |
| `Release`, `Commit`, `Close` | end of a SessionTransaction: `_after_transaction_end` |
| `Rollback` | the same, then `_after_soft_rollback` |
| `CommitFails`, `HostStatementFails`, `Begin`, `BeginNested`, `ToggleCapture` | what the host and its databases do |

One row stands for all rows of one `executemany`; a header row is named by the
write that inserts it. A session belongs to one thread and uncommitted rows
are invisible to others, so a call of the host is one step with one outcome.

### What is promised: `AuditScopes`

Scopes that open, merge into the one around them or are undone, and a batch
per database that is published when the transaction ends, under one
transaction row if it has any entry. It knows no cache and no
SessionTransactions. `ImplementsScopes` is the refinement.

### Run

`session` runs both error policies, `BoundedSpec` with bounds for each. Two writes
are enough for a stale or second row (one inserts it, one uses it), three for an
aborted transaction and an error the host catches between them;
four SessionTransactions give a savepoint in a savepoint beside the root and
one more transaction after it ends. The connections are symmetric. No fairness
is assumed: nothing here has to happen, a host may stop anywhere.

The invariants are about what a unit test reaches only one script at a time:
`CacheSound` (the cached row is in the open transaction), `CacheComplete`
(every entry so far refers to it), `SharedHeader` and `OneHeaderWhenLogging`
(what a commit publishes, with no second and no bare row when failures are
logged), `EntriesMatchChanges` (an entry if and only if its change, but for
losses that `on_error="log"` logged). `IInv` is the inductive invariant of the
proofs, the type invariant included.

### Proofs: `SessionAuditProofs`

Everything the run checks is proved, for every set of connections, all bounds
and both policies, from the one assumption that the bounds are natural numbers.
`CacheSound` alone is not inductive: a rollback
forgets a row by the SessionTransaction it was inserted in, while PostgreSQL
undoes it by its savepoint, which changes at each release. `Anchors` ties the
two: of the open transactions, the owner's ancestors are exactly those up to
the depth at which the row lies now, and every entry lies there or deeper.
`Doomed` covers the time after a failed flush or commit, when the cached row
may be gone: whatever is rolled back then forgets it.

`EntriesMatchChanges` and `OneHeaderWhenLogging` are about what is committed;
they follow from what lies together before: an entry at the savepoint of its
change (`Paired`), a transaction row at the savepoint of one of its entries and
alone on its connection (`HeaderUsed`, which an insert that is refused with
`on_error="raise"` breaks). Savepoints move or undo such rows together, and a
group inserts a row only where nothing is cached, hence, by `CacheOK`, where no
entry is and no row under one.

`ListenerImplementsScopes` is the refinement, step by step: a flush or `log()`
is a `Write` of what it leaves, a release a `Merge`, a rollback or close an
`Undo`, and a commit, whole or partial, the `End` in which the connections
whose transaction is not aborted publish. `CommittedBatch` (what a usable
session commits is under the row anchored in it) makes the published batch the
promised one.

## Entries and compaction: `EntityLog`

The `entity.*` rows that the flushes of one database transaction write about
some objects, and the rows `compact_rows` shows instead. State: `before` and
`object` (the objects when the transaction began and as flushed), `log` (the
rows), a counter of flushes, and `switched`, the objects some flush deleted and
re-added at once. An object has one plain column, one `redact` column and one
tracked collection.

| Definition | Code |
| --- | --- |
| `Insert`, `Update`, `Delete`, `Replace` | a flush of one object: `_Listener._entries`, `_entry`, `entity_changes`, `pop_relationship_changes`; `Replace` is a delete and an add of the same id in one flush |
| `CreatedRow`, `UpdatedRow`, `DeletedRow` | `entity_changes` by kind; raw values are compared, then redacted |
| `GroupOf`, `Earliest`, `Latest`, `Adjacent` | the rows of an object, sorted by id: a group is a set that its ids order |
| `CanCompact`, `Merge`, `MergedColumn`, `MergedRelation`, ... | `_can_compact`, `_merge`, `_merge_changes` |
| `Placed`, `Compact` | the rows that `compact_rows` returns, in the order it was given |
| `Scrub`, `EraseRow` | what the `UPDATE` of `scrub_statement` leaves of the rows of an object in some scopes |

Compaction is a pure function of the rows, so its properties are invariants
over every log that flushes can produce. `NetChangeUnlessSwitched`: what is
shown of an object is the difference between it before the transaction and
after, or nothing if there is none. `Idempotent`, `DirectionKept` and
`ErasedStillShown`: compacting twice changes nothing, reading newest or oldest
first gives the same, and no scrub makes a change disappear.

Four flushes reach every sequence of verbs that decides a merge (delete,
re-insert, update, delete) and a collection member that goes, comes and goes
again; two column values tell a change from its undoing; one value beside
null in the `redact` column is enough, as its marker is the same for every
value. What a collection held before its object was deleted is in no row, so
a re-inserted object with members is shown raw, and one that had members but
comes back without any is shown as if its collection had not changed:
`ShownNet` states both. An object switched in a flush is what
`compaction_switch` is about.

### Proofs: `EntityLogProofs`

All four properties are proved, for any number of objects, actors, scopes,
values, members and flushes. Assumed are that a collection is finite
(`ItemsAssumption`) and, for the net change only, that no plain column holds the
text of a marker (`ValuesAssumption`): compaction takes such a value for one that
was hidden and shows it as changed, as its documentation says.

The fold over a group (`MergedRelation`) is recursive and the induction theorems
of the library cannot be used, so both are replaced by sets. `LeastSet`: of
any finite sets one is least, hence a claim about the subsets of a group fails
for a least one, if for any. `OneRecursion` and `SomeRecursion` show with it that
one function satisfies the fold's equation, which gives `MergedLast`: the last
row's change is merged into those before it. `Ranks` and `NthReversed` say the
same of the order in which `Compact` lists what takes the place of rows.

- `ShownIs`: what a reader is shown of an object is a function of its group
  alone: the group, or its merged row. `Idempotent` follows, since one row is
  never merged again, and `DirectionKept`, since the groups of reversed rows are
  the same and their places mirrored.
- `ErasedStillShown`: `Scrubs` relates a group to what a scrub left of it. Both
  are merged or neither (`RawScrubbed`); a pair that ends equal without a marker
  was not erased (`PairsUnchanged`); erased members only add up
  (`ErasedAddUp`), and if none was erased the same are left (`SameMerged`).
- `NetChangeUnlessSwitched` needs the inductive `LogInv`, checked by TLC in the
  settings of the run: the rows of an object lead from its state before the
  transaction to the present one (`Leads`: the first and last verb, verbs that
  may follow each other, entries of a column that form a chain, relations that
  merge to the difference unless the object was re-added). `LeadsOn` is the step
  by one row, `FlushSteps` shows that each kind of flush writes such a row, and
  `NetIs` reads the net change off the ends of the chains.

## Deltas and snapshots: `ChangeCapture`

One persistent instance with a tracked collection and a `snapshot_on_load`
column. State of the ORM and the database: `db`, `saves` (`db` when each open
SessionTransaction began), `dirtyIn`, `members` and `doc` (in memory),
`committed` (the column's entry in `committed_state`), `modified`. State of the
library: `delta`, `snapshot` (both in `InstanceState.info`), `captureOn`.
History: `since` (the members when the delta was last emptied), `silent` (a
flush with capture off may have left traces) and `last` (the entry of the last
captured flush and what that flush changed).

| Action | Code |
| --- | --- |
| `AddMember`, `RemoveMember` | `on_append`, `on_remove`, `_Delta` (an assignment of the whole collection emits the same events) |
| `LoadDoc` | `_on_refresh`, `_take_snapshot` |
| `AssignDoc`, `MutateDoc` | `active_history`; an in-place change leaves a history without an old value |
| `Flush` | the unit of work, then `after_flush`: `entity_changes`, `pop_relationship_changes`, `refresh_snapshot` |
| `Expire`, `ExpireMembers`, `ExpireDoc` | `_on_expire` |
| `RollbackNested`, `Rollback` | the ORM expires (a savepoint: only what changed in it), then `_after_rollback` |
| `BeginNested`, `Release`, `Commit` | the session, after flushing |
| `ToggleCapture` | the host sets `session.info["audit_enabled"]` |

In run `capture` a host either switches capture off and on and expires on
commit, or does neither. `DeltaIsNet` ties the pending delta to the collection,
`EntryIsChange` every entry to the change of its flush unless traces of an
uncaptured one remain, and `IInv` is what the proofs rest on.

The state is finite, so these runs bound no number of flushes or edits. Members
do not influence each other: one is enough, and the proofs cover any set.

Proved in `ChangeCaptureProofs` for all sets of members and values and any
number of savepoints: `TypeCorrect`, and, when a collection holds a member at
most once (`MaxCopies = 1`), `DeltaIsAlwaysNet` and `EntriesAreChanges`, from
`IInv`. `EntryIsChange` says nothing of the next entry; `IInv` adds what it
depends on: the ORM's history agrees with the database (`HistoryKnown`), delta
and snapshot describe the database of the last flush unless `silent`
(`NothingStale`), and a savepoint in which nothing was flushed began with
today's row (`SavepointsKnown`), which is why the ORM may leave the instance
unexpired when it is rolled back while `_after_rollback` empties its delta.

## What the entries of an instance say: `Instances`

One instance of a model with a primary key, a tenant column that the `scope`
option reads and a column with a server default. State of the ORM and the
database: `rows` and `start` (the table now, and when the transaction began),
`status` and `key` (new, persistent, deleted; its identity), `mem` (its
`__dict__`) and `old` (the committed values of what was assigned). History:
`entry` (that of the flush just ended) and `told` (the table as somebody who
reads the entries in order would work it out).

| Action | Code |
| --- | --- |
| `Assign` | `_keep_old_value`: `active_history` loads what has expired before it is overwritten |
| `FlushNew`, `FlushChanged`, `FlushDeleted` | the unit of work, then `_entry` with `entity_changes` by kind, `object_id_of` and `resolve_scope` |
| `New`, `Read`, `Expire`, `Delete`, `AddAgain`, `Commit`, `Rollback` | the session |

`EntriesReplay`: the entries of a transaction, applied in order, give the table
it leaves, and the old value of each column is what the entries before left
there, whatever was expired, given another key or deleted and added again in
between. `ScopeOfTheRow`: an entry is filed under the tenant of its row; the
scope of the context stands in only when the tenant column was expired. Both
except one case for deletions, which read memory alone: a value that was
assigned and not flushed before the delete (`diff.py:251`) is named although
the database never held it. The state is finite, so the run bounds neither
flushes nor transactions; three keys allow a key to move and move on.

Both are proved in `InstancesProofs` (`EntriesAddUp`, `ScopedByTheRow`) for all
keys and values and whether or not server defaults are fetched, assuming that
the markers of the model are no values (`MarkersAssumption`). `IInv` adds what
they depend on: the table holds one row, under the instance's identity
(`OneRow`); what was assigned has the stored value kept aside, and all else in
memory is stored or expired (`MemoryOfRow`), which is what `active_history`
is for: an assignment to an expired attribute that did not load it would leave
no old value, and the next entry would not follow from the ones before.

## Partitions: `Partitions`

The catalog (`parts`, `live`, `pending`, `loose`), the advisory lock, what each
session's transaction has locked (`uses`), the maintenance call each process is
in (`job`) and the durable `log()` of each client (`call`).

| Action | Code |
| --- | --- |
| `StartEnsure` ... `EnsureCommits`, `EnsureTimesOut`, `EnsureCrashes` | `ensure_partitions`: one transaction that takes the advisory lock, then each parent in turn |
| `StartDrop`, `DropLocks`, `ReadChildren`, `DetachStarts`, `Detached`, `DropTable`, `DropTurnEnds`, `DropReturns`, `DropTimesOut`, `DropCrashes` | `drop_expired`: an AUTOCOMMIT connection that, parent by parent with the transaction table first, reads the partitions once, finishes pending detaches, then detaches and drops |
| `Health` | `health` |
| `LogDurable`, `InsertAll`, `InsertMissing`, `InsertBreaks` | `write_durable`, its one retry, `handle_durable_failure` |
| `SessionWrites`, `SessionEnds` | a host's session whose audit rows lock the tables |
| `Tick` | time; a maintenance call lasts at most one tick, as `lock_timeout` bounds each wait |

Of PostgreSQL it assumes what `maintenance.py` relies on: `CREATE ... PARTITION
OF` waits for every transaction that used the parent and makes later inserts
queue; `DETACH CONCURRENTLY` commits its mark first, then waits, and leaves a
pending detach when interrupted; only attached partitions take rows.

Run `partitions` checks one specification in four settings, each of which only
bounds what happens and chooses the layout maintenance finds: *retention* (one
process, a retention that changes between two calls, months 0 to 2, one fault),
*twins* (two processes at once, two severities, one of them without a partition
yet), *custom* (the host made partitions of two months, up to MAXVALUE, and one
shared by two severities) and *durable* (two threads with `log(durable=True)`
whose partition is missing, one lost connection). In each, two ticks make a
month, so that limits fall within one; retentions are counted in ticks as well;
a third severity has a plain table. One fault is enough to interrupt a call at
each of its steps, and the next call meets what it left. The two threads of
*durable* have no sessions of their own: what a session's locks do to a durable
insert is the subject of `partitions_live`.

`TransactionGoesFirst`, `OnlyExpiredGo`, `DetachesApply`: no activity is
dropped before its transactions, nothing that a current retention would keep is
dropped, and what a call has read of a parent is still so when it acts on it: it
never asks PostgreSQL for a second pending detach of a parent, or for one of a
partition that another call took. `CreatedOnce`, `CoveredAhead`,
`AssuranceHolds`: nothing is created that overlaps, after `ensure_partitions`
every row fits for the months it promises, and so it does after a `health`
without findings, until time has passed those months.
`DurableOnce`: an entry is committed once if `log()` returns, never twice,
and one marked `fail_closed` is not lost in silence.

Liveness, run `partitions_live`: `CallsReturn` (every durable `log()` and every
maintenance call, also one that waits for a lock its own thread's session
holds) and `ExpiredGoes` (calls repeated after interrupted ones leave no expired
partition). Fairness: a call goes on while it can (`WF` of `EnsureStep` and
`DropStep`, which include the lock timeout); the scheduler starts `drop_expired`
again and again between other calls (`SF` of `StartDrop`); sessions end their
transactions unless their thread waits inside `log()` (`WF` of `SessionEnds`,
disabled meanwhile); PostgreSQL's lock queue is first come, first served, so an
insert is not passed over for ever (`SF` of the insert). Faults stop after
`MaxFaults`: nothing can be promised of a process that crashes for ever. One
client and one process are the smallest instance with the wait cycle: the
session's own lock, and its own `log()`.

Proofs, `PartitionsProofs`: all seven properties of the run, for any number of
processes and threads, any severities, layouts, retentions, months and faults.
`DetachesAlwaysApply` and `LoggedAtMostOnce` say that a detach is never refused
and a durable entry never written twice; `NothingGoesEarly` and
`TransactionsNeverOutlive` are about what goes, `NothingCreatedTwice`,
`RowsFitAhead` and `HealthMeansCovered` about what there is to write to. The
assumptions are what the code and PostgreSQL guarantee: processes and clients
are different (`ActorsAssumption`); severities are of type SmallInteger
(`SeveritiesAssumption`, `LayoutsAssumption`), so that each set of them has a
least one, the order in which maintenance takes the parents; a retention is not negative
(`PoliciesAssumption`; `maintenance.py:374` refuses one); MAXVALUE lies beyond
any time (`TimeAssumption`).

None of the properties is inductive. `IInv` has two halves, each proved by one
lemma per action. `LockInv` is about who may act: a call past the advisory lock
holds it, so that at most one has read anything (`HoldsLock`); of the parent
whose turn it is that call knows every pending detach except the one it waits
for, which is why beginning another cannot be refused (`ReadsAreTrue`); while a
durable call goes on, in particular between its two tries, nothing of its entry
is committed (`NothingYet`). `PlansOk`, which needs that half, is about the
partitions and what a call is about to do with them:

- `CatalogOk`: whatever is detached, loose or dropped had ended by then, and of
  activity rows so taken no transaction partition of the library is left. A
  detach that failed half-way is finished by a later call with another
  retention, which is why this is said of what is gone and not of the call;
- `DropOk`: what the call means to detach is expired by its own clock and
  policy, and once it has left the transaction table's turn, none of that table
  that is expired is attached (`NoTransactionLeft`). That the limits of the
  transactions are at least the longest of any severity, and the month of a
  limit does not come later for a longer retention, then gives
  `TransactionGoesFirst`;
- `EnsureOk`: each severity has a parent whose turn is still to come or whose
  months are there (`Progress`, `Full`), and where the call creates, nothing is
  attached or pending (`Free`). Months created are the present one and later
  ones, and what others detach meanwhile ended before, so neither takes from the
  other;
- `Ahead`: every row of the months that `ensure_partitions` or `health` spoke of
  fits. `health` looks at a finite set of months, month by month; that it has
  seen all of them follows from the cardinality it compares.

A `CREATE` or `DETACH` that other steps of the same call interrupt needs no case
of its own, as `EnsureEnds` and `DropEnds` may happen at any step.

## Pages: `Pagination`

A caller follows `next_cursor` while transactions commit late, time passes and
retention drops old rows. A page is a few statements, each with its own
snapshot: `StartPage` (`_bound`, `_shown`), `ReadHits` (`_hits`, batch by batch
and stream by stream), `Consume`, `SelectEnds` (the merge, and when a page is
full), `Groups` (the rows of the picked transactions, compacted; in `listed` a
group that is left out keeps its place as `None`). Filters are kept as the
streams a row is in. What the caller asked for is `ask`, one of `Listings`: it
never changes, as the listing is one.

Settings: *window* (the default lower bound, from the clock at the first page),
*ties* (two severities, equal times, rows of one transaction on both sides of a
cursor, one transaction that compacts to nothing) and *history* (scoped groups
of an object, whose rows may be in both streams). Three rows and pages of one
or two groups put a cursor before, between and behind the rows of one
transaction; the initial states range over all assignments of rows to
transactions, times and streams.

`ListedOnce`, `NothingMissed` (whoever had committed when the listing began is
on some page, unless retention removed it), `NewestFirst`, and `PagesAdvance`:
each page ends strictly below the one before, so that following `next_cursor`
comes to an end. A transaction that commits behind the cursor is missed by
design and excluded.

### Proofs: `PaginationProofs`

All four properties are proved, for any finite log, any streams, bounds and
page sizes, and any number of pages. Assumed are: ids and times are numbers, and
the markers `None` and `AllHistory` are not (`RowsAssumption`,
`MarkersAssumption`, `ClockAssumption`); a page has room for a group
(`ListingsAssumption`; `_check_page`, `query.py:1608`, refuses a limit below
one). None of the properties is inductive; `IInv`, which TLC has checked in the
settings of `pages`, adds what ties the pages together:

- `CursorOk`: from the second page on the lower bound is that of the first,
  because the cursor records it. All that follows compares rows in the bounds of
  one listing.
- `ListedOk`, `PickedOk`: a group that is listed has an entry that is not below
  the cursor, one that is picked an entry that is not below the last row taken.
  If such a group has entries on the other side too, these have the same
  `created_at` as the cursor's row, since a transaction has only one; so
  `_shown` finds the group by that row (the conjunct about `page.shown` in
  `SelectOk`). Retention takes a transaction whole, hence such a row with it.
  This gives `ListedOnce`.
- `StreamOk`: what a stream has left is in order, within the listing and not
  above the last row taken; when it has nothing left and is not at its end, its
  next batch starts at that very row. So the newest of the heads is the newest
  row not yet taken: `PagesAdvance`, as a page ends at a row it has taken.
- `NoneLost`: each row of those who had committed at the start is of a listed or
  picked group, or still `Ahead`: below the cursor, among what the streams hold
  or have yet to read, or below the row that the page ends at. With nothing
  ahead when the last page is done, none is missed.
- `InOrder`: such a group is picked by its newest entry (`PickedByNewest`), since
  while one of its rows is taken every other would have been ahead before.

What a statement with a `LIMIT` returns (`Top`) is defined by the rank of a row;
`TopOf` derives from the cardinalities that it is in order, and leaves out only
rows older than all that it returns, or none.

## Erasure: `Scrub`

Calls of `scrub` and `scrub_actor` at READ COMMITTED, beside each other and
beside requests that commit. `Scan` takes the snapshot of one UPDATE, `Update`
changes one row (waiting for another call's change of it and looking at it
again), `StatementEnds` and `Commit` add the `audit.scrubbed` record; `Fail`
rolls back, and the call may be made again. The `ensure_partitions` call that
precedes a scrub is an `EnsureJob` of `Partitions`.

`ErasedForGood`, `OnlyAskedFor` (a transaction row is shared by entries of
several scopes), `CountsAddUp` (the counts that the records hold sum to the rows
erased, also when calls overlap) and the action property `NothingComesBack`.
What a request commits between the two UPDATEs of `scrub_actor` is not among what
`ErasedForGood` speaks of: the second UPDATE clears its entries, while the first
has passed its transaction row. The record is filed under the scope of whoever
runs the scrub, so a restricted scrub may be about another's record.
Settings: *scopes* (two restricted calls by an operator who scrubs herself) and
*atOnce* (three calls of the same rows). Two requests give one transaction
committed before a scan and one between two; three calls let one wait behind
another while a third has finished.

## What a reader is shown: `Reading`

`StartRead`, `ReadEntries` and `ReadHeaders` are the statements of one page or
`get`; `Resolve` is the label lookup; `Drop` is retention, as far as
`TransactionGoesFirst` lets it. Setting *reading*: a scrub and requests beside a
reader with four visibilities, two dropped partitions; the scrub is of an object
with its children, of those entries since a time and in a tenant, or of an actor,
in all scopes or one.

`NothingHiddenIsShown`: every entry, the scope in a header and the entry a label
is taken from are visible to this reader. `ErasedIsNotShown`: a read that begins
after a scrub committed shows nothing of what the scrub was asked for and was
there when it began. After `scrub`, no entry of the object (or of a child, with
targets), since the time and in the scopes given, shows values, and no label is
taken from one; after `scrub_actor`, no entry of the actor and no header, from
the row or from a snapshot, shows personal context. `ReadingTypeOK` is the type
invariant of both modules: rows point at the transaction committed with them, no
row is changed by two open calls, each group shown has a header.

### Proofs: `ReadingProofs`

Every property of both modules is proved, for any number of calls, requests,
reads and dropped rows, any operations, scopes and visibilities. Assumed are the
two kinds of operation, that bounds are numbers, and that a host's request
commits a finite sequence of entries none of which is the library's own
`audit.scrubbed` (`RequestsAssumption`: `record()` and `log()` refuse that
name). The argument is about versions of a row. The log only grows, at its end
and a whole transaction at a time, and a row only ever goes from kept to erased
(`Version`, `Extends`); so whether a statement concerns a row never changes
(`ConcernsSame`), and what a statement erased stays so.

- `Writes`, `Apart`: what an open call has changed is a later version of rows it
  was asked about, and no other open call's. A commit therefore publishes its
  changes over rows nobody else has changed: `ErasedNeverReturns`,
  `ErasedOnDemand`.
- `Snapshot`, `Progress`: each UPDATE starts from a snapshot no older than the
  call. Of the rows there were when the call began, a finished statement leaves
  none it should have erased, and the present one only those on its list, which
  it takes off one at a time after looking at the newest version:
  `ErasedStays`. `Record` says the same of the rows the call itself adds.
- `Were`, `Unshown`: the rows a read holds are earlier versions of rows of the
  log, and clean of what calls had erased that were done when it began, as a
  statement that concerns a row in the log concerns the version read of it. With
  `Ends` (no transaction lies on both sides of the start of a call) the same
  follows for a header that is rebuilt from an entry, and with `HeaderStays` (a
  transaction gets no more entries) for one from a row in restricted scopes:
  `ErasedStaysUnshown`, `HiddenStaysHidden`.
- `CountInv`: an open call has counted the rows it has changed, and each of
  them still holds in the log what the call erases (`Counts`). As no other open
  call has changed those rows, its commit adds to both sides of `CountsAddUp`
  alike. The counts are a recursive sum over the calls that are done; the lemmas
  under *Sums* unfold it one call at a time by a least set, in the way described
  for `EntityLog`.

## Who did it: `Requests`

Each request has a task and, for synchronous code, a thread of the pool with a
*copy* of the context variables. A variable holds a reference: `Enter` and
`Exit` of a `context()` block stay in the copy, the assignments of `set_actor`
(`SetId`, `SetLabel`, two steps) are seen by both. `Resolve` is
`resolve_context`; `ReadId` and `Write` make an entry; `OpenSession` and
`CloseSession` are the session dependency; `Bind` is `bind()`.

`OwnRequest`: an entry never names another request's context.
`CarriesTheActor`: after `set_actor` in whatever thread, entries carry that
actor whole. `BlockKeepsItsActor`: an inner block or bound context keeps its
own. `SessionAlive`: the request's session is never a closed one, and no entry
goes to one that is. `Parallel` is the requests whose task goes on while a thread
it started runs: FastAPI awaits endpoints and dependencies, but the application
may start a thread and not wait. Then an entry may carry one actor's id and
another's label, or be for a session that the task closes meanwhile, so
`CarriesTheActor` and the second half of `SessionAlive` leave those requests out.
Settings: *requests* (two at once, one of them in `Parallel`) and *sessions* (one
request, two session dependencies). Three contexts allow one per request and a
block; one entry suffices, as entries do not influence each other.

Proofs, `RequestsProofs`: all four properties (`EntriesAreOfTheirRequest`,
`EntriesCarryTheLastActor`, `BlocksKeepTheirActor`, `SessionsAreOpen`), for any
number of requests, threads, contexts and entries and any set `Parallel`. The
only assumption used is that None is no object (`NoneAssumption`). None of the
four is inductive. `IInv` adds who may reach which object: `Current`, `Bindings`,
`Blocks` and `Objects` say that the contexts a request, its sessions and its
workers refer to were made for it, the outermost block being the request's own;
`InnerContexts`, `InnerSettings` and `InnerReads` that an inner one stays the
system's unless the core's `set_actor` was called on it; and, of requests whose
task waits, `RequestActor`, `ReadActor` and `ReadsOpen` that between the two
assignments of a `set_actor` nobody of the same request reads, and that nobody
closes the session that is being written to (`TaskWaits`). `Tracked` is what
`_tracked()` keeps: the request's session is one that is open.

## Findings

`capture_silent`: `after_flush` returns before the delta is popped and the
snapshot refreshed when capture is off, so the first entry after it is switched
on again, in the same transaction, also reports the uncaptured changes
(`relations.py:47`, `docs/guides/models.md:25`).

`compaction_switch`: deleting an object and adding another with the same id in
one flush writes `entity.created`, then `entity.deleted`, because `_entries`
walks `session.new` before `session.deleted`. Compaction takes the group for an
object that never existed and hides it; `docs/guides/querying.md:157` says it
becomes one `entity.updated`.

`session_refused`: with `on_error="raise"`, a statement the driver refuses
before sending it aborts nothing, so the `audit_transaction` row inserted just
before stays, uncached. If the host catches the error of `log()` and goes on,
its next entry inserts a second row in the same database transaction, and
without one the row is committed bare. `docs/index.md:18` says one row per
database transaction that wrote entries.

Smaller disagreements met on the way, each left out of the properties where the
code is as described, and without a run of its own:

- a list collection may hold a member twice; the delta counts events per member
  and reports a second copy as added (`relations.py:80`). `IInv`, `DeltaIsNet`
  and `EntryIsChange` are stated for `MaxCopies = 1`;
- a transaction partition of two months that the host made itself outlives the
  activity of its first month (`maintenance.py:906`): `TransactionGoesFirst` is
  about the partitions the library makes;
- when only the answer to COMMIT is lost, `AuditWriteError` reports a write that
  happened, although `writer.py:72` says "Nothing of the entry was committed":
  `DurableOnce` allows one copy of a failed call;
- `session_provider` returns None after an inner session dependency is closed,
  although an outer one is still open (`integrations/fastapi.py:384`):
  `SessionAlive` does not ask for a session;
- a deletion names a value that was assigned and not flushed (`diff.py:251`).

## Not proved

Every invariant and action property that a passing run checks is stated by a
theorem of the `*Proofs` modules described above. With TLC alone stay:

- liveness under fairness (`CallsReturn`, `ExpiredGoes`), out of the prover's
  reach;
- that the three violated properties are violated, which a proof cannot show.

## Not modelled

- `serialization.py` and the hashing of values: pure encoding of data that the
  models abstract from.
- `access_summary` (one aggregate statement), cursor tokens, proxy headers and
  reference detection: parsing, without state.
- Validation in `events.py`, `checks.py` and the constructors, registration of
  listeners and generated migration text: they run once, before there is state.
- `testing.py`, `pytest_plugin.py`, benchmarks, examples and documentation.
- In the modelled parts: severity, label and target of an entry (labels and
  targets go through the same call as scopes), collections of new and deleted
  instances, savepoints a host opens on a connection behind the session's back
  (`listener.py:605`), two-phase commit, and sessions joined to an outer
  transaction of their connection.
