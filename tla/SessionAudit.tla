------------------------------ MODULE SessionAudit ------------------------------
(***************************************************************************)
(* Entries written in the session's own database transaction.             *)
(*                                                                         *)
(* One SQLAlchemy session, its stack of SessionTransactions (the root and  *)
(* the open savepoints), the connections it uses, and the audit listener's *)
(* cache of audit_transaction rows in session.info.  The session and       *)
(* PostgreSQL (savepoints, aborted transactions) are modelled from how     *)
(* audit_trail/listener.py uses them; the handlers of the listener and the *)
(* writer are translated from their source.                                *)
(*                                                                         *)
(* A step of the session is one call of the host.  The host is one thread  *)
(* of control per session, and uncommitted rows are invisible to everyone  *)
(* else, so a call is one step with one of its outcomes.                   *)
(***************************************************************************)
EXTENDS Naturals, Sequences, FiniteSets

CONSTANTS
  Conns,            \* the connections a session resolves (one per bind)
  MaxTransactions,  \* bound: SessionTransactions ever begun
  MaxWrites         \* bound: flushes and log() calls

ASSUME BoundsAssumption == MaxTransactions \in Nat /\ MaxWrites \in Nat

VARIABLES
  onError,    \* AuditTrail(on_error=...), "log" or "raise", fixed when it is made
  stack,      \* open SessionTransactions, the root first
  lineage,    \* SessionTransaction -> itself and its ancestors (.parent chain)
  begun,      \* number of SessionTransactions begun
  usable,     \* FALSE from a failed flush or commit to the next rollback
  captureOn,  \* session.info["audit_enabled"] is not False
  cache,      \* session.info["audit_trail.transaction"], per connection
  rows,       \* uncommitted rows of each connection, at their savepoint depth
  failedAt,   \* depth at which a connection's transaction is aborted, or 0
  writes,     \* number of flushes and log() calls
  lost,       \* <<conn, write>> whose entries on_error="log" logged and dropped
  published   \* one batch of rows per committed database transaction

sessionVars == <<stack, lineage, begun, usable, captureOn>>
dbVars == <<rows, failedAt, published>>
vars == <<onError, stack, lineage, begun, usable, captureOn, cache, rows, failedAt,
          writes, lost, published>>

-----------------------------------------------------------------------------
(***************************************************************************)
(* State spaces.                                                           *)
(***************************************************************************)
Transactions == 1..MaxTransactions
WriteIds == 1..MaxWrites

\* "change": a captured ORM change; "silent": one flushed with capture off;
\* "entry": its entity.* row; "event": a row of log(); "header": an
\* audit_transaction row.  One row stands for the rows of one executemany.
Kinds == {"change", "silent", "entry", "event", "header"}
AuditKinds == {"entry", "event"}

Row == [kind: Kinds, id: WriteIds, header: 0..MaxWrites, depth: Nat \ {0}]
BatchRow == [kind: Kinds, id: WriteIds, header: 0..MaxWrites]

\* _CachedRow(owner, row); row = 0 is a connection without a cached row.
CachedRow == [owner: 0..MaxTransactions, row: 0..MaxWrites]
NoRow == [owner |-> 0, row |-> 0]

Depth == Len(stack)

\* get_nested_transaction() or get_transaction(): the innermost open one.
Owner == stack[Len(stack)]

-----------------------------------------------------------------------------
(***************************************************************************)
(* PostgreSQL, as far as the listener depends on it: rows written under a  *)
(* savepoint move to the enclosing level when it is released and vanish    *)
(* when it, or one around it, is rolled back.                              *)
(***************************************************************************)
Undo(rs, k) == {r \in rs : r.depth < k}

MoveUp(rs, k) ==
  {[r EXCEPT !.depth = IF r.depth < k THEN r.depth ELSE k - 1] : r \in rs}

UndoFrom(k) == [c \in Conns |-> Undo(rows[c], k)]

Recover(k) == [c \in Conns |-> IF failedAt[c] < k THEN failedAt[c] ELSE 0]

Batch(c) ==
  [conn |-> c,
   rows |-> {[kind |-> r.kind, id |-> r.id, header |-> r.header] : r \in rows[c]}]

Batches(S) == {Batch(c) : c \in {d \in S : rows[d] # {} /\ failedAt[d] = 0}}

NoRows == [c \in Conns |-> {}]
AllHealthy == [c \in Conns |-> 0]
EmptyCache == [c \in Conns |-> NoRow]

-----------------------------------------------------------------------------
(***************************************************************************)
(* listener.write_entries and writer.run_isolated.                         *)
(***************************************************************************)

\* _write_group: the cached row of the connection, else a new one (named by
\* the write that inserts it).
HeaderOf(c, n) == IF cache[c].row # 0 THEN cache[c].row ELSE n

\* insert_transaction when nothing is cached, then insert_activities.
GroupRows(c, n, kind) ==
  {[kind |-> kind, id |-> n, header |-> HeaderOf(c, n), depth |-> Depth]}
    \cup (IF cache[c].row # 0 THEN {}
          ELSE {[kind |-> "header", id |-> n, header |-> n, depth |-> Depth]})

\* Only get_transaction() as the owner.
BugRootOwner(c, n) ==
  IF cache[c].row # 0 THEN cache[c] ELSE [owner |-> stack[1], row |-> n]

\* _write_group caches a row it inserted, with its owner.
CacheAfter(c, n) ==
  IF cache[c].row # 0 THEN cache[c] ELSE [owner |-> Owner, row |-> n]

\* run_isolated: with on_error="raise" the inserts run in no savepoint of
\* their own.
BugNeverIsolated == TRUE
NotIsolated == onError = "raise"

\* after_flush returns at once when the session's capture is off.
BugAlwaysCapturing == TRUE
Capturing == captureOn

\* The ORM rows of a flush.
FlushedRow(n) ==
  [kind |-> IF captureOn THEN "change" ELSE "silent",
   id |-> n, header |-> 0, depth |-> Depth]


-----------------------------------------------------------------------------
(***************************************************************************)
(* The listener's state handlers: what they leave of a cache ch.  The      *)
(* Bug operators here and above are what a wrong handler would do; the     *)
(* checks show that the properties notice each of them.                    *)
(***************************************************************************)
BugEndOfAnyTransaction(k, ch) == EmptyCache
BugCacheOutlivesRoot(k, ch) == ch

\* _after_transaction_end, for the SessionTransaction at depth k: the cache
\* goes only with the one that has no parent.
AfterTransactionEnd(k, ch) == IF k = 1 THEN EmptyCache ELSE ch

BugOwnerOnly(t, ch) == [c \in Conns |-> IF ch[c].owner = t THEN NoRow ELSE ch[c]]

\* _after_soft_rollback, with _within(cached.owner, t) along .parent.
AfterSoftRollback(t, ch) ==
  [c \in Conns |-> IF ch[c].row # 0 /\ t \in lineage[ch[c].owner]
                   THEN NoRow ELSE ch[c]]

-----------------------------------------------------------------------------
Init ==
  /\ onError \in {"log", "raise"}
  /\ stack = <<>>
  /\ lineage = [t \in Transactions |-> {}]
  /\ begun = 0
  /\ usable = TRUE
  /\ captureOn = TRUE
  /\ cache = EmptyCache
  /\ rows = NoRows
  /\ failedAt = AllHealthy
  /\ writes = 0
  /\ lost = {}
  /\ published = {}

\* A new SessionTransaction whose ancestors are the given ones.
Push(ancestors) ==
  /\ begun < MaxTransactions
  /\ begun' = begun + 1
  /\ stack' = Append(stack, begun')
  /\ lineage' = [lineage EXCEPT ![begun'] = {begun'} \cup ancestors]
  /\ UNCHANGED <<usable, captureOn, cache, rows, failedAt, writes, lost, published>>

\* The session's first use after a commit, rollback or close.
Begin == stack = <<>> /\ Push({})

\* session.begin_nested(); the flush it starts with is a Flush step.
BeginNested == usable /\ Depth > 0 /\ Push(lineage[Owner])

NextWrite == writes < MaxWrites /\ writes' = writes + 1

\* session.info["audit_enabled"] is a flag of the host.
ToggleCapture ==
  /\ captureOn' = ~captureOn
  /\ UNCHANGED <<stack, lineage, begun, usable, cache, rows, failedAt,
                 writes, lost, published>>

\* session.flush() that succeeds.  It writes business rows on written;
\* after_flush returns at once with capture off, else it writes the entries
\* of the groups of audited.  With on_error="log" those of dropped fail:
\* run_isolated undoes their savepoint and logs the error.
Flush(written, audited, dropped) ==
  /\ usable /\ Depth > 0
  /\ NextWrite
  /\ \A c \in written : failedAt[c] = 0
  /\ Capturing \/ audited = {}
  /\ NotIsolated => dropped = {}
  /\ LET stored == audited \ dropped IN
     /\ rows' = [c \in Conns |->
          rows[c] \cup (IF c \in audited
                          THEN {FlushedRow(writes')}
                          ELSE IF c \in written
                               THEN {[FlushedRow(writes') EXCEPT !.kind = "silent"]}
                               ELSE {})
                  \cup (IF c \in stored THEN GroupRows(c, writes', "entry") ELSE {})]
     /\ cache' = [c \in Conns |-> IF c \in stored THEN CacheAfter(c, writes')
                                                  ELSE cache[c]]
  /\ lost' = lost \cup {<<c, writes'>> : c \in dropped}
  /\ UNCHANGED <<stack, lineage, begun, usable, captureOn, failedAt, published>>

\* session.flush() that fails (a business statement, host code, an audit
\* insert with on_error="raise", a later listener) once the groups of stored
\* were written.  The session rolls back its innermost savepoint or root in
\* the database and refuses work until rollback(); no handler of the
\* listener drops the rows cached meanwhile, the session being unusable.
FlushFails(stored) ==
  /\ usable /\ Depth > 0
  /\ NextWrite
  /\ \A c \in stored : failedAt[c] = 0
  /\ Capturing \/ stored = {}
  /\ usable' = FALSE
  /\ cache' = [c \in Conns |-> IF c \in stored THEN CacheAfter(c, writes')
                                               ELSE cache[c]]
  /\ rows' = UndoFrom(Depth)
  /\ failedAt' = Recover(Depth)
  /\ UNCHANGED <<stack, lineage, begun, captureOn, lost, published>>

\* trail.log(session, event): written whatever audit_enabled says.
LogEvent(c) ==
  /\ usable /\ Depth > 0
  /\ NextWrite
  /\ failedAt[c] = 0
  /\ rows' = [rows EXCEPT ![c] = @ \cup GroupRows(c, writes', "event")]
  /\ cache' = [cache EXCEPT ![c] = CacheAfter(c, writes')]
  /\ UNCHANGED <<stack, lineage, begun, usable, captureOn, failedAt, lost, published>>

\* The same when the inserts fail.  on_error="log": the savepoint of
\* run_isolated takes them back (or could not be set in an aborted
\* transaction).  on_error="raise": the error reaches the host, the
\* transaction of the connection is aborted and the session stays usable.
LogEventFails(c) ==
  /\ usable /\ Depth > 0
  /\ NextWrite
  /\ IF NotIsolated
     THEN /\ failedAt' = [failedAt EXCEPT ![c] = IF @ = 0 THEN Depth ELSE @]
          /\ UNCHANGED lost
     ELSE lost' = lost \cup {<<c, writes'>>} /\ UNCHANGED failedAt
  /\ UNCHANGED <<stack, lineage, begun, usable, captureOn, cache, rows, published>>

\* on_error="raise", and the driver refuses the values of insert_activities
\* before sending them (a DBAPIError that aborts nothing, e.g. a NUL in a
\* target id): the row insert_transaction has just inserted stays, uncached.
LogEventRefused(c) ==
  /\ usable /\ Depth > 0
  /\ NotIsolated
  /\ NextWrite
  /\ failedAt[c] = 0
  /\ rows' = [rows EXCEPT ![c] =
       @ \cup {r \in GroupRows(c, writes', "event") : r.kind = "header"}]
  /\ UNCHANGED <<stack, lineage, begun, usable, captureOn, cache, failedAt,
                 lost, published>>

\* A statement of the host's own fails on a connection of the session.
HostStatementFails(c) ==
  /\ usable /\ Depth > 0
  /\ failedAt[c] = 0
  /\ failedAt' = [failedAt EXCEPT ![c] = Depth]
  /\ UNCHANGED <<stack, lineage, begun, usable, captureOn, cache, rows,
                 writes, lost, published>>

\* savepoint.commit() of the savepoint at depth k, releasing those inside it.
Release(k) ==
  /\ usable
  /\ k \in 2..Depth
  /\ \A c \in Conns : failedAt[c] < k
  /\ cache' = AfterTransactionEnd(k, cache)
  /\ rows' = [c \in Conns |-> MoveUp(rows[c], k)]
  /\ stack' = SubSeq(stack, 1, k - 1)
  /\ UNCHANGED <<lineage, begun, usable, captureOn, failedAt, writes, lost, published>>

\* savepoint.rollback() or session.rollback() (k = 1): the transactions
\* inside it are only closed, it is closed and then softly rolled back.
Rollback(k) ==
  /\ k \in 1..Depth
  /\ cache' = AfterSoftRollback(stack[k], AfterTransactionEnd(k, cache))
  /\ rows' = UndoFrom(k)
  /\ failedAt' = Recover(k)
  /\ stack' = SubSeq(stack, 1, k - 1)
  /\ usable' = TRUE
  /\ UNCHANGED <<lineage, begun, captureOn, writes, lost, published>>

\* The end of the root, however it comes.
EndRoot ==
  /\ cache' = AfterTransactionEnd(1, cache)
  /\ rows' = NoRows
  /\ failedAt' = AllHealthy
  /\ stack' = <<>>
  /\ usable' = TRUE

\* session.commit(): the COMMIT of an aborted transaction is a rollback,
\* without an error.
Commit ==
  /\ usable /\ Depth > 0
  /\ \A c \in Conns : failedAt[c] < 2
  /\ published' = published \cup Batches(Conns)
  /\ EndRoot
  /\ UNCHANGED <<lineage, begun, captureOn, writes, lost>>

\* session.commit() that fails when the connections of done are committed:
\* the others lose their rows, the root stays open until rollback or close.
CommitFails(done) ==
  /\ usable /\ Depth > 0
  /\ \A c \in Conns : failedAt[c] < 2
  /\ published' = published \cup Batches(done)
  /\ rows' = NoRows
  /\ failedAt' = AllHealthy
  /\ stack' = SubSeq(stack, 1, 1)
  /\ usable' = FALSE
  /\ UNCHANGED <<lineage, begun, captureOn, cache, writes, lost>>

\* session.close(): no commit or rollback event, only after_transaction_end.
Close ==
  /\ Depth > 0
  /\ EndRoot
  /\ UNCHANGED <<lineage, begun, captureOn, writes, lost, published>>

Next ==
  /\ UNCHANGED onError
  /\ \/ Begin
     \/ BeginNested
     \/ ToggleCapture
     \/ \E written \in (SUBSET Conns) \ {{}} :
          \E audited \in SUBSET written : \E dropped \in SUBSET audited :
            Flush(written, audited, dropped)
     \/ \E stored \in SUBSET Conns : FlushFails(stored)
     \/ \E c \in Conns : LogEvent(c)
     \/ \E c \in Conns : LogEventFails(c)
     \/ \E c \in Conns : LogEventRefused(c)
     \/ \E c \in Conns : HostStatementFails(c)
     \/ \E k \in Transactions : Release(k)
     \/ \E k \in Transactions : Rollback(k)
     \/ Commit
     \/ \E done \in SUBSET Conns : CommitFails(done)
     \/ Close

Spec == Init /\ [][Next]_vars

-----------------------------------------------------------------------------
(* Type invariant. *)
TypeOK ==
  /\ onError \in {"log", "raise"}
  /\ stack \in Seq(Transactions)
  /\ lineage \in [Transactions -> SUBSET Transactions]
  /\ begun \in 0..MaxTransactions
  /\ usable \in BOOLEAN
  /\ captureOn \in BOOLEAN
  /\ cache \in [Conns -> CachedRow]
  /\ rows \in [Conns -> SUBSET Row]
  /\ failedAt \in [Conns -> Nat]
  /\ writes \in 0..MaxWrites
  /\ lost \in SUBSET (Conns \X WriteIds)
  /\ published \in SUBSET [conn : Conns, rows : SUBSET BatchRow]

(***************************************************************************)
(* Safety.                                                                 *)
(***************************************************************************)

\* While the session accepts work, the cached audit_transaction row is a row
\* of the connection's open database transaction: a write that reuses it
\* never refers to a row that a savepoint rollback, a failed flush or the end
\* of the transaction took away (_after_soft_rollback, _after_transaction_end).
CacheSound ==
  usable => \A c \in Conns : cache[c].row # 0 =>
    \E r \in rows[c] : r.kind = "header" /\ r.id = cache[c].row

\* While the session accepts work, the entries a connection's transaction
\* holds all refer to the cached row, at whatever savepoint they were written:
\* the handlers forget a row only together with every entry under it.
CacheComplete ==
  usable => \A c \in Conns : \A r \in rows[c] :
    r.kind \in AuditKinds => r.header = cache[c].row

AuditRowsOf(b) == {r \in b.rows : r.kind \in AuditKinds}
HeadersOf(b) == {r \in b.rows : r.kind = "header"}

\* All the entries committed with one database transaction refer to one
\* audit_transaction row, and it was committed with them.
SharedHeader ==
  \A b \in published : AuditRowsOf(b) # {} =>
    \E h \in HeadersOf(b) : \A r \in AuditRowsOf(b) : r.header = h.id

\* docs/index.md: audit_transaction has "one row per database transaction
\* that wrote audit entries".
OneHeader ==
  \A b \in published : AuditRowsOf(b) # {} => Cardinality(HeadersOf(b)) = 1

\* When failed writes are logged that is so, and a database transaction that
\* committed no entry committed no audit_transaction row: a failed group leaves
\* none behind, and the one that a later group finds cached is always there.
OneHeaderWhenLogging ==
  onError = "log" =>
    /\ OneHeader
    /\ \A b \in published : AuditRowsOf(b) = {} => HeadersOf(b) = {}

\* A committed entity.* entry is about a change committed with it, and a
\* committed captured change has its entry, unless on_error="log" logged the
\* failed write: a rollback to any savepoint undoes both or neither.
EntriesMatchChanges ==
  \A b \in published :
    LET ids(kind) == {r.id : r \in {x \in b.rows : x.kind = kind}} IN
    /\ ids("entry") \subseteq ids("change")
    /\ \A n \in ids("change") \ ids("entry") :
         onError = "log" /\ <<b.conn, n>> \in lost

-----------------------------------------------------------------------------
(***************************************************************************)
(* The inductive strengthening of the properties above.                    *)
(***************************************************************************)

\* Open SessionTransactions are distinct, and the ancestors of each are the
\* ones below it.
StackInv ==
  /\ \A t \in Transactions : lineage[t] \subseteq 1..begun
  /\ \A i \in 1..Depth :
       /\ stack[i] \in 1..begun
       /\ \A j \in 1..Depth : stack[j] \in lineage[stack[i]] <=> j <= i

RowsInv ==
  \A c \in Conns : \A r \in rows[c] : r.depth <= Depth /\ r.id <= writes

NoAuditRows(c) == \A r \in rows[c] : r.kind \notin AuditKinds

\* h is the cached row, inserted at h.depth: of the open transactions, the
\* owner's ancestors are those up to that depth, so a rollback forgets the row
\* exactly when it undoes it; and every entry lies at h.depth or deeper.
Anchors(c, h) ==
  /\ h.kind = "header" /\ h.id = cache[c].row
  /\ \A i \in 1..Depth : stack[i] \in lineage[cache[c].owner] <=> i <= h.depth
  /\ \A r \in rows[c] : r.kind \in AuditKinds => r.header = h.id /\ h.depth <= r.depth

\* The cached row is gone, but so are all entries, and whatever the host rolls
\* back forgets it.
Doomed(c) ==
  /\ ~usable
  /\ NoAuditRows(c)
  /\ \A i \in 1..Depth : stack[i] \in lineage[cache[c].owner]

CacheOK(c) ==
  IF cache[c].row = 0 THEN NoAuditRows(c)
  ELSE /\ cache[c].owner \in 1..begun
       /\ cache[c].row <= writes
       /\ Depth > 0
       /\ Doomed(c) \/ \E h \in rows[c] : Anchors(c, h)

CacheInv == \A c \in Conns : CacheOK(c)

\* An entry and the change it is about lie at the same savepoint, and so does
\* the entry of a captured change unless its loss was logged.
Paired(c) ==
  \A r \in rows[c] :
    /\ r.kind = "entry" =>
         \E x \in rows[c] : x.kind = "change" /\ x.id = r.id /\ x.depth = r.depth
    /\ r.kind = "change" =>
         \/ \E x \in rows[c] : x.kind = "entry" /\ x.id = r.id /\ x.depth = r.depth
         \/ onError = "log" /\ <<c, r.id>> \in lost

\* A transaction row lies at the same savepoint as one of its entries, and
\* there is at most one.
HeaderUsed(c) ==
  \A h \in rows[c] : h.kind = "header" =>
    /\ \E r \in rows[c] : r.kind \in AuditKinds /\ r.depth = h.depth
    /\ \A g \in rows[c] : g.kind = "header" => g = h

PairsInv ==
  \A c \in Conns : Paired(c) /\ (onError = "log" => HeaderUsed(c))

\* At any savepoint, the cached row is one a rollback forgets exactly when it
\* undoes it, rows that belong together lie together, and so were the rows
\* that have been committed.
IInv ==
  /\ TypeOK /\ StackInv /\ RowsInv /\ CacheInv /\ PairsInv
  /\ SharedHeader /\ OneHeaderWhenLogging /\ EntriesMatchChanges

-----------------------------------------------------------------------------
(***************************************************************************)
(* What a caller is promised: AuditScopes, with the transaction rows left  *)
(* out of what is pending and folded into the batch they are committed in. *)
(***************************************************************************)
ItemsOf(c) ==
  {[kind |-> r.kind, id |-> r.id, depth |-> r.depth] :
     r \in {x \in rows[c] : x.kind # "header"}}

BatchOf(b) ==
  [conn |-> b.conn,
   items |-> {[kind |-> r.kind, id |-> r.id] : r \in {x \in b.rows : x.kind # "header"}},
   header |-> IF AuditRowsOf(b) = {} THEN "none"
              ELSE IF \E h \in HeadersOf(b) : \A r \in AuditRowsOf(b) : r.header = h.id
                   THEN "one" ELSE "broken"]

Scopes == INSTANCE AuditScopes WITH
  depth <- Depth,
  pending <- [c \in Conns |-> ItemsOf(c)],
  last <- writes,
  log <- {BatchOf(b) : b \in {x \in published : x.rows \ HeadersOf(x) # {}}}

\* Entries and changes live and die with their savepoint, are committed
\* together, and under one row of audit_transaction: the listener's cache and
\* its handlers implement AuditScopes.
ImplementsScopes == Scopes!Spec

=============================================================================
